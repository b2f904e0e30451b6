------------------------ MODULE WorldSessionsProofs -------------------------
(***************************************************************************)
(* Proofs about WorldSessions for any sessions, accounts and limits.       *)
(***************************************************************************)
EXTENDS WorldSessions, FiniteSetTheorems, TLAPS

\* Appending keeps the elements and adds one.
LEMMA AppendOf ==
  ASSUME NEW S, NEW s \in Seq(S), NEW e \in S
  PROVE  /\ Append(s, e) \in Seq(S) /\ Len(s) \in Nat
         /\ DOMAIN s = 1..Len(s) /\ DOMAIN Append(s, e) = 1..(Len(s) + 1)
         /\ \A i \in 1..Len(s) : Append(s, e)[i] = s[i] /\ s[i] \in S
         /\ Append(s, e)[Len(s) + 1] = e
  OBVIOUS

\* Taking the first element leaves the others, in their order.
LEMMA TailOf ==
  ASSUME NEW S, NEW s \in Seq(S), s # <<>>
  PROVE  /\ Tail(s) \in Seq(S) /\ Len(s) \in Nat \ {0} /\ Len(Tail(s)) = Len(s) - 1
         /\ DOMAIN s = 1..Len(s) /\ DOMAIN Tail(s) = 1..(Len(s) - 1)
         /\ Head(s) = s[1] /\ s[1] \in S
         /\ \A i \in 1..(Len(s) - 1) : Tail(s)[i] = s[i + 1]
  OBVIOUS

\* One sequence followed by another.
LEMMA ConcatOf ==
  ASSUME NEW S, NEW s \in Seq(S), NEW t \in Seq(S)
  PROVE  /\ s \o t \in Seq(S) /\ Len(s) \in Nat /\ Len(t) \in Nat
         /\ Len(s \o t) = Len(s) + Len(t)
         /\ \A i \in 1..Len(s) : (s \o t)[i] = s[i]
         /\ \A i \in 1..Len(t) : (s \o t)[Len(s) + i] = t[i]
  OBVIOUS

\* No element occurs twice in the sequence s.
Distinct(s) == \A i, j \in 1..Len(s) : s[i] = s[j] => i = j

\* The first position of e in s, or the one behind the last.
FirstAt(s, e) == SelectInSeq(Append(s, e), LAMBDA x : x = e)

-----------------------------------------------------------------------------
(* Erasing from a sequence *)

\* The elements of a sequence are those at its indices.
LEMMA ToSetOf ==
  ASSUME NEW S, NEW s \in Seq(S)
  PROVE  /\ ToSet(s) \subseteq S
         /\ \A x : x \in ToSet(s) <=> \E i \in 1..Len(s) : s[i] = x
         /\ Len(s) \in Nat
         /\ s = <<>> <=> Len(s) = 0
  BY DEF ToSet

\* A sequence without repetition has as many elements as positions.
LEMMA DistinctCardinality ==
  ASSUME NEW S, NEW s \in Seq(S), Distinct(s)
  PROVE  IsFiniteSet(ToSet(s)) /\ Cardinality(ToSet(s)) = Len(s)
<1> DEFINE n == Len(s)
<1>1. n \in Nat
  BY ToSetOf
<1>2. IsFiniteSet(1..n) /\ Cardinality(1..n) = n
  <2> HIDE DEF n
  <2> QED BY <1>1, FS_Interval
<1>3. s \in Bijection(1..Len(s), ToSet(s))
  <2>1. s \in [1..Len(s) -> ToSet(s)]
    BY DEF ToSet
  <2>2. s \in Injection(1..Len(s), ToSet(s))
    BY <2>1 DEF Distinct, Injection, IsInjective
  <2>3. s \in Surjection(1..Len(s), ToSet(s))
    BY <2>1, ToSetOf DEF Surjection
  <2> QED
    BY <2>2, <2>3 DEF Bijection
<1> QED
  BY <1>2, <1>3, FS_Bijection DEF ExistsBijection

\* Appending a new element keeps a sequence free of repetition.
LEMMA DistinctAppend ==
  ASSUME NEW S, NEW s \in Seq(S), Distinct(s), NEW e \in S, e \notin ToSet(s)
  PROVE  /\ Append(s, e) \in Seq(S) /\ Distinct(Append(s, e))
         /\ ToSet(Append(s, e)) = ToSet(s) \cup {e}
<1> DEFINE a == Append(s, e)
<1>1. /\ a \in Seq(S) /\ Len(s) \in Nat /\ Len(a) = Len(s) + 1
      /\ \A i \in 1..Len(s) : a[i] = s[i] /\ s[i] # e
      /\ a[Len(s) + 1] = e
  BY AppendOf, ToSetOf
<1> HIDE DEF a
<1>2. \A i \in 1..Len(a) : i \in 1..Len(s) \/ i = Len(s) + 1
  BY <1>1
<1>3. Distinct(a)
  BY <1>1, <1>2 DEF Distinct
<1>4. ToSet(a) = ToSet(s) \cup {e}
  <2>1. \A x : x \in ToSet(a) <=> \E i \in 1..Len(a) : a[i] = x
    BY <1>1, ToSetOf
  <2>2. \A x : x \in ToSet(s) <=> \E i \in 1..Len(s) : s[i] = x
    BY ToSetOf
  <2>3. 1..Len(s) \subseteq 1..Len(a) /\ Len(s) + 1 \in 1..Len(a)
    BY <1>1
  <2>4. ASSUME NEW x PROVE x \in ToSet(a) <=> x \in ToSet(s) \/ x = e
    BY <1>1, <1>2, <2>1, <2>2, <2>3
  <2> QED
    BY <2>4
<1> QED
  BY <1>1, <1>3, <1>4 DEF a

\* The tail of a sequence without repetition lacks its head.
LEMMA DistinctTail ==
  ASSUME NEW S, NEW s \in Seq(S), Distinct(s), s # <<>>
  PROVE  /\ Tail(s) \in Seq(S) /\ Distinct(Tail(s)) /\ Head(s) \in ToSet(s)
         /\ ToSet(Tail(s)) = ToSet(s) \ {Head(s)}
<1> DEFINE w == Tail(s)
           h == Head(s)
<1>1. /\ w \in Seq(S) /\ Len(w) = Len(s) - 1 /\ Len(s) \in Nat \ {0}
      /\ h = s[1] /\ \A i \in 1..(Len(s) - 1) : w[i] = s[i + 1]
  BY TailOf
<1> HIDE DEF w, h
<1>2. Distinct(w)
  BY <1>1 DEF Distinct
<1>3. h \in ToSet(s)
  BY <1>1, ToSetOf
<1>4. ASSUME NEW x \in ToSet(s), x # h PROVE x \in ToSet(w)
  <2>1. PICK i \in 1..Len(s) : s[i] = x
    BY ToSetOf
  <2>2. i - 1 \in 1..(Len(s) - 1) /\ i - 1 + 1 = i
    BY <1>1, <1>4, <2>1
  <2>3. i - 1 \in 1..Len(w) /\ w[i - 1] = x
    BY <1>1, <2>1, <2>2
  <2> QED
    BY <1>1, <2>3, ToSetOf
<1>5. ASSUME NEW x \in ToSet(w) PROVE x \in ToSet(s) /\ x # h
  <2>1. PICK i \in 1..(Len(s) - 1) : w[i] = x
    BY <1>1, ToSetOf
  <2>2. i + 1 \in 1..Len(s) /\ 1 \in 1..Len(s) /\ i + 1 # 1 /\ s[i + 1] = x
    BY <1>1, <2>1
  <2> QED
    BY <1>1, <2>2, ToSetOf DEF Distinct
<1> QED
  BY <1>1, <1>2, <1>3, <1>4, <1>5 DEF w, h

\* Erasing what is not there changes nothing.
LEMMA RemoveAbsent ==
  ASSUME NEW S, NEW s \in Seq(S), NEW e, e \notin ToSet(s)
  PROVE  /\ RemoveFirst(s, e) = s
         /\ e \in S => FirstAt(s, e) = Len(s) + 1
<1>1. RemoveFirst(s, e) = s
  BY ToSetOf DEF RemoveFirst
<1>2. ASSUME e \in S
      PROVE  FirstAt(s, e) = Len(s) + 1
  <2> DEFINE a == Append(s, e)
             I == {i \in 1..Len(a) : a[i] = e}
  <2>1. Len(s) \in Nat /\ Len(a) = Len(s) + 1
    BY <1>2
  <2>2. I = {Len(s) + 1}
    BY <1>2, <2>1, AppendOf, ToSetOf
  <2>3. Min(I) = Len(s) + 1
    BY <2>1, <2>2 DEF Min
  <2> QED
    BY <2>2, <2>3 DEF FirstAt, SelectInSeq
<1> QED
  BY <1>1, <1>2

\* Erasing the element at k moves the later ones one position to the front.
LEMMA RemovePresent ==
  ASSUME NEW S, NEW s \in Seq(S), Distinct(s), NEW k \in 1..Len(s)
  PROVE  /\ RemoveFirst(s, s[k]) \in Seq(S)
         /\ Len(RemoveFirst(s, s[k])) = Len(s) - 1
         /\ \A i \in 1..(Len(s) - 1) :
              RemoveFirst(s, s[k])[i] = IF i < k THEN s[i] ELSE s[i + 1]
         /\ FirstAt(s, s[k]) = k
<1> DEFINE f == SubSeq(s, 1, k - 1)
           b == SubSeq(s, k + 1, Len(s))
           c == f \o b
           r == RemoveFirst(s, s[k])
<1>0. Len(s) \in Nat
  BY ToSetOf
<1>1. r = f \o b
  <2> DEFINE I == {i \in 1..Len(s) : s[i] = s[k]}
  <2>1. I = {k}
    BY DEF Distinct
  <2>2. Min(I) = k
    BY <2>1 DEF Min
  <2> QED
    BY <2>1, <2>2 DEF RemoveFirst, RemoveAt, SelectInSeq
<1>2. f \in Seq(S) /\ Len(f) = k - 1 /\ \A i \in 1..(k - 1) : f[i] = s[i]
  BY <1>0
<1>3. /\ b \in Seq(S) /\ Len(b) = Len(s) - k
      /\ \A i \in 1..(Len(s) - k) : b[i] = s[i + k]
  BY <1>0
<1> HIDE DEF f, b
<1>4. c \in Seq(S) /\ Len(c) = Len(f) + Len(b)
  BY <1>2, <1>3, ConcatOf
<1>5. \A i \in 1..Len(f) : c[i] = f[i]
  BY <1>2, <1>3, ConcatOf
<1>6. \A i \in 1..Len(b) : c[Len(f) + i] = b[i]
  BY <1>2, <1>3, ConcatOf
<1> HIDE DEF c
<1>7. c \in Seq(S) /\ Len(c) = Len(s) - 1
  BY <1>0, <1>2, <1>3, <1>4
<1>8. ASSUME NEW i \in 1..(Len(s) - 1)
      PROVE  c[i] = IF i < k THEN s[i] ELSE s[i + 1]
  <2>1. CASE i < k
    BY <1>0, <1>2, <1>5, <2>1
  <2>2. CASE ~(i < k)
    <3>1. i - (k - 1) \in 1..(Len(s) - k)
      BY <1>0, <2>2
    <3>2. c[k - 1 + (i - (k - 1))] = b[i - (k - 1)]
      BY <1>2, <1>3, <1>6, <3>1
    <3>3. b[i - (k - 1)] = s[i - (k - 1) + k]
      BY <1>3, <3>1
    <3>4. k - 1 + (i - (k - 1)) = i /\ i - (k - 1) + k = i + 1
      BY <1>0
    <3> QED
      BY <2>2, <3>2, <3>3, <3>4
  <2> QED
    BY <2>1, <2>2
<1>9. FirstAt(s, s[k]) = k
  <2> DEFINE a == Append(s, s[k])
             I == {i \in 1..Len(a) : a[i] = s[k]}
  <2>1. Len(a) = Len(s) + 1 /\ s[k] \in S
    BY <1>0
  <2>2. \A i \in 1..Len(s) : a[i] = s[i]
    BY <2>1, AppendOf
  <2>3. a[Len(s) + 1] = s[k]
    BY <2>1, AppendOf
  <2>4. I = {k, Len(s) + 1}
    <3> HIDE DEF a
    <3> QED
      BY <1>0, <2>1, <2>2, <2>3 DEF Distinct
  <2>5. Min(I) = k
    BY <1>0, <2>4 DEF Min
  <2> QED
    BY <2>4, <2>5 DEF FirstAt, SelectInSeq
<1> QED
  BY <1>1, <1>7, <1>8, <1>9 DEF c

-----------------------------------------------------------------------------
(* RemoveQueuedPlayer and AddQueuedPlayer *)

\* A login queue as the handlers keep it: nobody waits twice, and everybody
\* knows his position.
QueueOK(q) ==
  /\ q.queue \in Seq(Sessions) /\ Distinct(q.queue)
  /\ q.inQueue \in SUBSET Sessions
  /\ q.told \in [Sessions -> Nat]
  /\ \A i \in 1..Len(q.queue) : q.told[q.queue[i]] = i

\* Erasing a session from m_QueuedPlayer: the sessions before it stay where
\* they are.
LEMMA WithoutOf ==
  ASSUME NEW q, QueueOK(q), NEW sess \in Sessions
  PROVE  /\ Without(q, sess) \in Seq(Sessions)
         /\ Distinct(Without(q, sess))
         /\ ToSet(Without(q, sess)) = ToSet(q.queue) \ {sess}
         /\ Len(Without(q, sess)) =
              IF Found(q, sess) THEN Len(q.queue) - 1 ELSE Len(q.queue)
         /\ FirstAt(q.queue, sess) \in 1..(Len(q.queue) + 1)
         /\ \A i \in 1..Len(Without(q, sess)) :
              i < FirstAt(q.queue, sess) => Without(q, sess)[i] = q.queue[i]
<1> DEFINE s == q.queue
           r == Without(q, sess)
           k == FirstAt(s, sess)
<1>1. s \in Seq(Sessions) /\ Len(s) \in Nat /\ Distinct(s)
  BY ToSetOf DEF QueueOK
<1>2. CASE sess \notin ToSet(s)
  <2>1. r = s /\ k = Len(s) + 1
    BY <1>1, <1>2, RemoveAbsent DEF Without
  <2> HIDE DEF r, k
  <2>2. /\ r \in Seq(Sessions) /\ Distinct(r) /\ ToSet(r) = ToSet(s) \ {sess}
        /\ Len(r) = Len(s) /\ k \in 1..(Len(s) + 1)
        /\ \A i \in 1..Len(r) : i < k => r[i] = s[i]
    BY <1>1, <1>2, <2>1
  <2> QED
    BY <1>2, <2>2 DEF r, k, Found
<1>3. CASE sess \in ToSet(s)
  <2>1. PICK j \in 1..Len(s) : s[j] = sess
    BY <1>1, <1>3, ToSetOf
  <2>2. /\ r \in Seq(Sessions) /\ Len(r) = Len(s) - 1
        /\ \A i \in 1..(Len(s) - 1) : r[i] = IF i < j THEN s[i] ELSE s[i + 1]
        /\ k = j
    BY <1>1, <2>1, RemovePresent DEF Without
  <2> HIDE DEF r, k
  <2>3. Distinct(r)
    BY <1>1, <2>1, <2>2 DEF Distinct
  <2>4. ASSUME NEW x \in ToSet(r)
        PROVE  x \in ToSet(s) \ {sess}
    <3>1. PICK i \in 1..(Len(s) - 1) : r[i] = x
      BY <2>2, ToSetOf
    <3>2. \E n \in 1..Len(s) : n # j /\ s[n] = x
      <4>1. CASE i < j
        BY <1>1, <2>2, <3>1, <4>1
      <4>2. CASE ~(i < j)
        BY <1>1, <2>2, <3>1, <4>2
      <4> QED
        BY <4>1, <4>2
    <3> QED
      BY <1>1, <2>1, <3>2, ToSetOf DEF Distinct
  <2>5. ASSUME NEW x \in ToSet(s) \ {sess}
        PROVE  x \in ToSet(r)
    <3>1. PICK n \in 1..Len(s) : s[n] = x
      BY <1>1, ToSetOf
    <3>2. n # j
      BY <2>1, <3>1
    <3>3. \E i \in 1..(Len(s) - 1) : r[i] = x
      <4>1. CASE n < j
        <5>1. n \in 1..(Len(s) - 1)
          BY <1>1, <4>1
        <5> QED
          BY <2>2, <3>1, <4>1, <5>1
      <4>2. CASE ~(n < j)
        <5>1. n - 1 \in 1..(Len(s) - 1) /\ ~(n - 1 < j) /\ n - 1 + 1 = n
          BY <1>1, <3>2, <4>2
        <5> QED
          BY <2>2, <3>1, <5>1
      <4> QED
        BY <4>1, <4>2
    <3> QED
      BY <2>2, <3>3, ToSetOf
  <2>6. k \in 1..(Len(s) + 1) /\ \A i \in 1..Len(r) : i < k => r[i] = s[i]
    BY <1>1, <2>2
  <2> QED
    BY <1>3, <2>2, <2>3, <2>4, <2>5, <2>6 DEF r, k, Found
<1> QED
  BY <1>2, <1>3

\* SendPositions tells the sessions from k on their position.
LEMMA SendPositionsOf ==
  ASSUME NEW w \in Seq(Sessions), Distinct(w), NEW t \in [Sessions -> Nat],
         NEW k \in Nat \ {0},
         \A i \in 1..Len(w) : i < k => t[w[i]] = i
  PROVE  /\ SendPositions(w, t, k) \in [Sessions -> Nat]
         /\ \A i \in 1..Len(w) : SendPositions(w, t, k)[w[i]] = i
<1> DEFINE p == SendPositions(w, t, k)
<1>0. Len(w) \in Nat
  BY ToSetOf
<1>1. p \in [Sessions -> Nat]
  BY <1>0 DEF SendPositions
<1>2. ASSUME NEW i \in 1..Len(w)
      PROVE  p[w[i]] = i
  <2>1. w[i] \in Sessions
    OBVIOUS
  <2>2. CASE i < k
    <3>1. ~\E j \in k..Len(w) : w[j] = w[i]
      BY <1>0, <2>2 DEF Distinct
    <3> QED
      BY <2>1, <2>2, <3>1 DEF SendPositions
  <2>3. CASE ~(i < k)
    <3>1. i \in k..Len(w)
      BY <1>0, <2>3
    <3>2. \A j \in k..Len(w) : w[j] = w[i] => j = i
      BY <1>0 DEF Distinct
    <3>3. (CHOOSE j \in k..Len(w) : w[j] = w[i]) = i
      BY <3>1, <3>2
    <3> QED
      BY <2>1, <3>1, <3>3 DEF SendPositions
  <2> QED
    BY <2>2, <2>3
<1> QED
  BY <1>1, <1>2

\* RemoveQueuedPlayer(sess): sess is out, at most the front was accepted with
\* it, whoever left lost m_inQueue, and the others know their new position.
LEMMA RemoveQueuedPlayerOf ==
  ASSUME NEW q, QueueOK(q), NEW sess \in Sessions, NEW n
  PROVE  LET r == RemoveQueuedPlayer(q, sess, n)
         IN  /\ QueueOK(r)
             /\ r.inQueue \subseteq q.inQueue
             /\ ToSet(r.queue) \subseteq ToSet(q.queue) \ {sess}
             /\ (ToSet(q.queue) \ ToSet(r.queue)) \cap r.inQueue = {}
             /\ Len(r.queue) = Len(q.queue)
                  - (IF Found(q, sess) THEN 1 ELSE 0)
                  - (IF Accepts(q, sess, n) THEN 1 ELSE 0)
             /\ \E h : ToSet(q.queue) \ ToSet(r.queue) \subseteq
                         {sess} \cup (IF Accepts(q, sess, n) THEN {h} ELSE {})
<1> DEFINE r    == RemoveQueuedPlayer(q, sess, n)
           rest == Without(q, sess)
           w    == IF Accepts(q, sess, n) THEN Tail(rest) ELSE rest
           out  == Dequeued(q, sess, n)
           k    == NotifyFrom(q, sess, n)
           t    == [s \in Sessions |-> IF s \in out THEN 0 ELSE q.told[s]]
<1>1. /\ r.queue = w /\ r.inQueue = q.inQueue \ out
      /\ r.told = SendPositions(w, t, k)
  BY DEF RemoveQueuedPlayer
<1>2. /\ rest \in Seq(Sessions) /\ Distinct(rest) /\ Len(rest) \in Nat
      /\ ToSet(rest) = ToSet(q.queue) \ {sess}
      /\ Len(rest) = IF Found(q, sess) THEN Len(q.queue) - 1 ELSE Len(q.queue)
      /\ q.queue \in Seq(Sessions) /\ Len(q.queue) \in Nat
  BY WithoutOf, ToSetOf DEF QueueOK
<1>3. k = IF Accepts(q, sess, n) THEN 1 ELSE FirstAt(q.queue, sess)
  BY DEF NotifyFrom, FirstAt, SelectInSeq
<1>4. t \in [Sessions -> Nat]
  BY DEF QueueOK
<1>5. CASE ~Accepts(q, sess, n)
  <2>1. w = rest /\ out = IF Found(q, sess) THEN {sess} ELSE {}
    BY <1>5 DEF Dequeued
  <2>2. k \in Nat \ {0} /\ \A i \in 1..Len(rest) : i < k => rest[i] = q.queue[i]
    BY <1>2, <1>3, <1>5, WithoutOf
  <2>3. ASSUME NEW i \in 1..Len(rest), i < k
        PROVE  t[rest[i]] = i
    <3>1. rest[i] \in Sessions /\ rest[i] # sess
      BY <1>2, ToSetOf
    <3>2. q.told[q.queue[i]] = i
      BY <1>2, <2>3 DEF QueueOK
    <3> QED
      BY <2>1, <2>2, <2>3, <3>1, <3>2
  <2> HIDE DEF t, k, w, rest, out
  <2>4. /\ SendPositions(rest, t, k) \in [Sessions -> Nat]
        /\ \A i \in 1..Len(rest) : SendPositions(rest, t, k)[rest[i]] = i
    BY <1>2, <1>4, <2>2, <2>3, SendPositionsOf
  <2>5. QueueOK(r)
    BY <1>1, <1>2, <2>1, <2>4 DEF QueueOK
  <2>6. ToSet(q.queue) \ ToSet(rest) \subseteq out /\ out \subseteq {sess}
    BY <1>2, <2>1 DEF Found
  <2>7. Len(rest) = Len(q.queue) - (IF Found(q, sess) THEN 1 ELSE 0) - 0
    BY <1>2
  <2> QED
    BY <1>1, <1>2, <1>5, <2>1, <2>5, <2>6, <2>7
<1>6. CASE Accepts(q, sess, n)
  <2> DEFINE h == Head(rest)
  <2>1. /\ w = Tail(rest) /\ k = 1 /\ rest # <<>>
        /\ out = (IF Found(q, sess) THEN {sess} ELSE {}) \cup {h}
    BY <1>3, <1>6 DEF Dequeued, Accepts
  <2>2. /\ w \in Seq(Sessions) /\ Len(w) = Len(rest) - 1 /\ Distinct(w)
        /\ ToSet(w) = ToSet(rest) \ {h}
    BY <1>2, <2>1, TailOf, DistinctTail
  <2> HIDE DEF t, k, w, rest, out, h
  <2>3. ~\E i \in 1..Len(w) : i < k
    BY <1>2, <2>1, <2>2
  <2>4. k \in Nat \ {0}
    BY <2>1
  <2>5. /\ SendPositions(w, t, k) \in [Sessions -> Nat]
        /\ \A i \in 1..Len(w) : SendPositions(w, t, k)[w[i]] = i
    BY <1>4, <2>2, <2>3, <2>4, SendPositionsOf
  <2>6. QueueOK(r)
    BY <1>1, <2>2, <2>5 DEF QueueOK
  <2>7. ToSet(q.queue) \ ToSet(w) \subseteq out /\ out \subseteq {sess, h}
    BY <1>2, <2>1, <2>2 DEF Found
  <2>8. Len(w) = Len(q.queue) - (IF Found(q, sess) THEN 1 ELSE 0) - 1
    BY <1>2, <2>2
  <2>9. \E x : ToSet(q.queue) \ ToSet(r.queue) \subseteq
                 {sess} \cup (IF Accepts(q, sess, n) THEN {x} ELSE {})
    BY <1>1, <1>6, <2>7
  <2> QED
    BY <1>1, <1>2, <1>6, <2>2, <2>6, <2>7, <2>8, <2>9
<1> QED
  BY <1>5, <1>6

\* AddQueuedPlayer appends a session that does not wait yet.
LEMMA AddQueuedPlayerOf ==
  ASSUME NEW q, QueueOK(q), NEW sess \in Sessions, sess \notin ToSet(q.queue)
  PROVE  LET r == AddQueuedPlayer(q, sess)
         IN  /\ QueueOK(r)
             /\ r.inQueue = q.inQueue \cup {sess}
             /\ ToSet(r.queue) = ToSet(q.queue) \cup {sess}
             /\ Len(r.queue) = Len(q.queue) + 1
<1> DEFINE s == q.queue
           a == Append(s, sess)
           t == [q.told EXCEPT ![sess] = Len(s) + 1]
<1>1. /\ s \in Seq(Sessions) /\ Len(s) \in Nat /\ Distinct(s)
      /\ \A i \in 1..Len(s) : s[i] \in Sessions /\ s[i] # sess
      /\ q.told \in [Sessions -> Nat]
  BY ToSetOf DEF QueueOK
<1>2. /\ a \in Seq(Sessions) /\ Len(a) = Len(s) + 1
      /\ \A i \in 1..Len(s) : a[i] = s[i]
      /\ a[Len(s) + 1] = sess
  BY <1>1, AppendOf
<1>3. Distinct(a) /\ ToSet(a) = ToSet(s) \cup {sess}
  BY <1>1, DistinctAppend
<1> HIDE DEF a
<1>4. t \in [Sessions -> Nat]
  BY <1>1
<1>5. ASSUME NEW i \in 1..Len(a) PROVE t[a[i]] = i
  <2>1. CASE i \in 1..Len(s)
    <3>1. t[s[i]] = q.told[s[i]]
      BY <1>1, <2>1
    <3> QED
      BY <1>2, <2>1, <3>1 DEF QueueOK
  <2>2. CASE i = Len(s) + 1
    BY <1>1, <1>2, <2>2
  <2> QED
    BY <1>1, <1>2, <2>1, <2>2
<1> HIDE DEF t
<1>6. AddQueuedPlayer(q, sess) =
        [queue |-> a, inQueue |-> q.inQueue \cup {sess}, told |-> t]
  BY DEF AddQueuedPlayer, a, t
<1>7. q.inQueue \cup {sess} \in SUBSET Sessions
  BY DEF QueueOK
<1>8. QueueOK(AddQueuedPlayer(q, sess))
  <2>1. a \in Seq(Sessions) /\ Distinct(a)
    BY <1>2, <1>3
  <2> QED
    BY <1>4, <1>5, <1>6, <1>7, <2>1 DEF QueueOK
<1> QED
  BY <1>2, <1>3, <1>6, <1>8

-----------------------------------------------------------------------------
(* Who is where *)

\* m_sessions files every session under its own account.
Filed ==
  \A a \in Accounts : sessions[a] # NoSession => AccountOf[sessions[a]] = a

\* The loop of UpdateSessions comes to accounts that have a session: only the
\* loop itself erases from m_sessions.
Remaining == \A a \in toUpdate : sessions[a] # NoSession

\* A session that was handed over is there once, and it is neither in
\* m_sessions nor marked as waiting: AddSession_ may queue it.
Handed ==
  /\ Distinct(addSessQueue)
  /\ ToSet(addSessQueue) \cap (Listed \cup inQueue) = {}

\* The inductive invariant.
SessionInv ==
  /\ TypeOK
  /\ Filed
  /\ Remaining
  /\ Handed
  /\ QueueOK(QueueState)
  /\ Queued \subseteq Listed
  /\ counted \subseteq Listed \ Queued
  /\ NobodyStranded

\* The record of the queue has the queue's variables.
LEMMA QueueStateParts ==
  /\ QueueState.queue = queue
  /\ QueueState.inQueue = inQueue
  /\ QueueState.told = told
  BY DEF QueueState

\* At most one session of an account is listed.
LEMMA ListedOf ==
  ASSUME SessionInv
  PROVE  /\ \A s \in Sessions : s \in Listed <=> sessions[AccountOf[s]] = s
         /\ \A a \in Accounts : sessions[a] # NoSession =>
              /\ sessions[a] \in Listed /\ sessions[a] \in Sessions
              /\ AccountOf[sessions[a]] = a
         /\ Listed \subseteq Sessions
  BY WorldSessionsAssumption DEF SessionInv, Listed, Filed, TypeOK

\* AddSession_ in terms of the new session s, the account's old one, and the
\* queue q that is left when the old one is out.
Adds(s, old, q, full, free) ==
  /\ s \in Sessions /\ old \in Sessions \cup {NoSession}
  /\ s \in ToSet(addSessQueue) /\ s \notin Listed \cup inQueue
  /\ old = sessions[AccountOf[s]]
  /\ full <=> (limit > 0 /\
               Reaches(Scaled(Total([sessions EXCEPT ![AccountOf[s]] = s])),
                       ~(old # NoSession /\ old \in Queued)))
  /\ q = IF old # NoSession
         THEN RemoveQueuedPlayer(QueueState, old, Total(sessions))
         ELSE QueueState
  /\ QueueOK(q)
  /\ q.inQueue \subseteq inQueue
  /\ ToSet(q.queue) \subseteq Queued \ {old}
  /\ (Queued \ ToSet(q.queue)) \cap q.inQueue = {}
  /\ sessions' = [sessions EXCEPT ![AccountOf[s]] = s]
  /\ Listed' = (Listed \ {old}) \cup {s}
  /\ QueueOK(QueueState)'
  /\ IF full /\ ~free
     THEN /\ Queued' = ToSet(q.queue) \cup {s}
          /\ inQueue' = q.inQueue \cup {s}
          /\ Len(queue') = Len(q.queue) + 1
     ELSE queue' = q.queue /\ Queued' = ToSet(q.queue) /\ inQueue' = q.inQueue
  /\ addSessQueue' \in Seq(Sessions) /\ Distinct(addSessQueue')
  /\ ToSet(addSessQueue') = ToSet(addSessQueue) \ {s}
  /\ counted' = ((counted \cup ((Queued \ ToSet(q.queue)) \ {old})) \ {old})
                \cup (IF full THEN {} ELSE {s})
  /\ closed' = closed \ {old}
  /\ raised' = (raised /\ (q.queue # <<>> \/ (full /\ ~free)))
  /\ limit' = limit

\* Every AddSession_ step has this form.
LEMMA AddSessionStep ==
  ASSUME SessionInv, AddSession_
  PROVE  \E s, old, q, full, free : Adds(s, old, q, full, free)
<1> DEFINE s    == Head(addSessQueue)
           a    == AccountOf[s]
           old  == sessions[a]
           q    == IF old # NoSession
                   THEN RemoveQueuedPlayer(QueueState, old, Total(sessions))
                   ELSE QueueState
           full == limit > 0 /\ Reaches(Scaled(Total([sessions EXCEPT ![a] = s])),
                                        ~(old # NoSession /\ old \in Queued))
           free == s \in Bypass \/ HasRecentlyDisconnected(s)
<1>1. /\ addSessQueue \in Seq(Sessions) /\ Distinct(addSessQueue) /\ addSessQueue # <<>>
      /\ sessions \in [Accounts -> Sessions \cup {NoSession}]
  BY DEF SessionInv, Handed, TypeOK, AddSession_
<1>2. /\ s \in Sessions /\ s \in ToSet(addSessQueue)
      /\ Tail(addSessQueue) \in Seq(Sessions) /\ Distinct(Tail(addSessQueue))
      /\ ToSet(Tail(addSessQueue)) = ToSet(addSessQueue) \ {s}
  BY <1>1, DistinctTail, ToSetOf
<1>3. s \notin Listed \cup inQueue
  BY <1>2 DEF SessionInv, Handed
<1>4. a \in Accounts /\ old \in Sessions \cup {NoSession}
  BY <1>1, <1>2, WorldSessionsAssumption
<1>5. /\ addSessQueue' = Tail(addSessQueue)
      /\ sessions' = [sessions EXCEPT ![a] = s]
      /\ SetQueueState(IF full /\ ~free THEN AddQueuedPlayer(q, s) ELSE q)
      /\ counted' = ((counted \cup ((Queued \ ToSet(q.queue)) \ {old})) \ {old})
                    \cup (IF full THEN {} ELSE {s})
      /\ closed' = closed \ {old}
      /\ raised' = (raised /\ (q.queue # <<>> \/ (full /\ ~free)))
      /\ limit' = limit
  BY DEF AddSession_
<1> HIDE DEF s, full, free
<1>6. /\ QueueOK(q) /\ q.inQueue \subseteq inQueue
      /\ ToSet(q.queue) \subseteq Queued \ {old}
      /\ (Queued \ ToSet(q.queue)) \cap q.inQueue = {}
  <2>1. QueueOK(QueueState)
    BY DEF SessionInv
  <2>2. CASE old = NoSession
    <3>1. Queued \subseteq Sessions
      BY DEF SessionInv, Listed
    <3> QED
      BY <2>1, <2>2, <3>1, QueueStateParts, WorldSessionsAssumption DEF Queued
  <2>3. CASE old # NoSession
    <3>1. old \in Sessions /\ q = RemoveQueuedPlayer(QueueState, old, Total(sessions))
      BY <1>4, <2>3
    <3> HIDE DEF q, old
    <3> QED
      BY <2>1, <3>1, RemoveQueuedPlayerOf, QueueStateParts DEF Queued
  <2> QED
    BY <2>2, <2>3
<1> HIDE DEF q
<1>7. Listed' = (Listed \ {old}) \cup {s}
  <2>1. ASSUME NEW x \in Sessions
        PROVE  x \in Listed' <=> x \in (Listed \ {old}) \cup {s}
    <3>1. x \in Listed' <=> sessions'[AccountOf[x]] = x
      BY DEF Listed
    <3>2. x \in Listed <=> sessions[AccountOf[x]] = x
      BY DEF Listed
    <3>3. AccountOf[x] \in Accounts
      BY WorldSessionsAssumption
    <3>4. CASE AccountOf[x] = a
      BY <1>1, <1>4, <1>5, <3>1, <3>2, <3>4
    <3>5. CASE AccountOf[x] # a
      <4>1. x = old => AccountOf[x] = a
        BY <1>4, WorldSessionsAssumption DEF SessionInv, Filed
      <4> QED
        BY <1>1, <1>4, <1>5, <3>1, <3>2, <3>3, <3>5, <4>1
    <3> QED
      BY <3>4, <3>5
  <2>2. Listed \subseteq Sessions /\ Listed' \subseteq Sessions
    BY DEF Listed
  <2> QED
    BY <1>2, <2>1, <2>2
<1>8. QueueOK(QueueState)' /\
      (IF full /\ ~free
       THEN /\ Queued' = ToSet(q.queue) \cup {s} /\ inQueue' = q.inQueue \cup {s}
            /\ Len(queue') = Len(q.queue) + 1
       ELSE queue' = q.queue /\ Queued' = ToSet(q.queue) /\ inQueue' = q.inQueue)
  <2>1. CASE full /\ ~free
    <3>1. s \notin ToSet(q.queue)
      BY <1>3, <1>6 DEF SessionInv
    <3>2. LET r == AddQueuedPlayer(q, s)
          IN  /\ QueueOK(r) /\ r.inQueue = q.inQueue \cup {s}
              /\ ToSet(r.queue) = ToSet(q.queue) \cup {s}
              /\ Len(r.queue) = Len(q.queue) + 1
      BY <1>2, <1>6, <3>1, AddQueuedPlayerOf
    <3>3. SetQueueState(AddQueuedPlayer(q, s))
      BY <1>5, <2>1
    <3> QED
      BY <2>1, <3>2, <3>3 DEF SetQueueState, QueueState, QueueOK, Queued
  <2>2. CASE ~(full /\ ~free)
    <3>1. SetQueueState(q)
      BY <1>5, <2>2
    <3> QED
      BY <1>6, <2>2, <3>1 DEF SetQueueState, QueueState, QueueOK, Queued
  <2> QED
    BY <2>1, <2>2
<1>9. full <=> (limit > 0 /\ Reaches(Scaled(Total([sessions EXCEPT ![a] = s])),
                                     ~(old # NoSession /\ old \in Queued)))
  BY DEF full
<1>10. q = IF old # NoSession
           THEN RemoveQueuedPlayer(QueueState, old, Total(sessions))
           ELSE QueueState
  BY DEF q
<1> WITNESS s, old, q, full, free
<1> HIDE DEF s, a, old, q, full, free
<1> QED
  BY <1>2, <1>3, <1>4, <1>5, <1>6, <1>7, <1>8, <1>9, <1>10 DEF a, old, Adds

\* RemoveClosed in terms of the session s that goes and of the queue after the
\* first and after the second call of RemoveQueuedPlayer.
Removes(a, s, once, twice) ==
  /\ s = sessions[a] /\ s \in Sessions /\ s \in Listed
  /\ once = RemoveQueuedPlayer(QueueState, s, Total(sessions))
  /\ twice = RemoveQueuedPlayer(once, s, Total(sessions))
  /\ QueueOK(once) /\ ToSet(once.queue) \subseteq Queued \ {s}
  /\ QueueOK(QueueState)' /\ queue' = twice.queue /\ Queued' = ToSet(twice.queue)
  /\ inQueue' \subseteq inQueue
  /\ Queued' \subseteq Queued \ {s}
  /\ (Queued \ Queued') \cap inQueue' = {}
  /\ sessions' = [sessions EXCEPT ![a] = NoSession]
  /\ Listed' = Listed \ {s}
  /\ addSessQueue' = addSessQueue
  /\ counted' = (counted \cup ((Queued \ Queued') \ {s})) \ {s}
  /\ closed' = closed \ {s}
  /\ raised' = (raised /\ twice.queue # <<>>)
  /\ limit' = limit

\* Every RemoveClosed step has this form.
LEMMA RemoveClosedStep ==
  ASSUME SessionInv, NEW a \in Accounts, RemoveClosed(a)
  PROVE  \E s, once, twice : Removes(a, s, once, twice)
<1> DEFINE s     == sessions[a]
           once  == RemoveQueuedPlayer(QueueState, s, Total(sessions))
           twice == RemoveQueuedPlayer(once, s, Total(sessions))
<1>1. /\ SetQueueState(twice)
      /\ counted' = (counted \cup ((Queued \ ToSet(twice.queue)) \ {s})) \ {s}
      /\ sessions' = [sessions EXCEPT ![a] = NoSession]
      /\ closed' = closed \ {s}
      /\ raised' = (raised /\ twice.queue # <<>>)
      /\ addSessQueue' = addSessQueue /\ limit' = limit
      /\ s \in closed
  BY DEF RemoveClosed
<1>2. s \in Sessions /\ s \in Listed /\ AccountOf[s] = a
  BY <1>1, WorldSessionsAssumption DEF SessionInv, TypeOK, Filed, Listed
<1>3. /\ QueueOK(once) /\ once.inQueue \subseteq inQueue
      /\ ToSet(once.queue) \subseteq Queued \ {s}
      /\ (Queued \ ToSet(once.queue)) \cap once.inQueue = {}
  <2> HIDE DEF s
  <2>1. QueueOK(QueueState)
    BY DEF SessionInv
  <2> QED
    BY <1>2, <2>1, RemoveQueuedPlayerOf, QueueStateParts DEF Queued
<1>4. /\ QueueOK(twice) /\ twice.inQueue \subseteq once.inQueue
      /\ ToSet(twice.queue) \subseteq ToSet(once.queue)
      /\ (ToSet(once.queue) \ ToSet(twice.queue)) \cap twice.inQueue = {}
  <2> HIDE DEF s, once
  <2> QED
    BY <1>2, <1>3, RemoveQueuedPlayerOf
<1>5. Listed' = Listed \ {s}
  <2>1. sessions \in [Accounts -> Sessions \cup {NoSession}]
    BY DEF SessionInv, TypeOK
  <2>2. ASSUME NEW x \in Sessions PROVE x \in Listed' <=> x \in Listed \ {s}
    <3>1. x \in Listed' <=> sessions'[AccountOf[x]] = x
      BY DEF Listed
    <3>2. x \in Listed <=> sessions[AccountOf[x]] = x
      BY DEF Listed
    <3>3. AccountOf[x] \in Accounts /\ x # NoSession
      BY WorldSessionsAssumption
    <3> QED
      BY <1>1, <1>2, <2>1, <3>1, <3>2, <3>3
  <2>3. Listed \subseteq Sessions /\ Listed' \subseteq Sessions
    BY DEF Listed
  <2> QED
    BY <2>2, <2>3
<1>6. /\ queue' = twice.queue /\ inQueue' = twice.inQueue /\ told' = twice.told
      /\ Queued' = ToSet(twice.queue)
  BY <1>1 DEF SetQueueState, Queued
<1> HIDE DEF twice
<1>7. QueueOK(QueueState)'
  BY <1>4, <1>6 DEF QueueState, QueueOK
<1> WITNESS s, once, twice
<1> HIDE DEF s, once
<1> QED
  BY <1>1, <1>2, <1>3, <1>4, <1>5, <1>6, <1>7 DEF s, once, twice, Removes

\* The handlers keep the types.
LEMMA TypeStep ==
  ASSUME SessionInv, [Next]_vars, QueueOK(QueueState)',
         addSessQueue' \in Seq(Sessions), counted' \in SUBSET Sessions
  PROVE  TypeOK'
<1> USE DEF TypeOK, SessionInv
<1>0. queue' \in Seq(Sessions) /\ inQueue' \in SUBSET Sessions /\ told' \in [Sessions -> Nat]
  BY DEF QueueOK, QueueState
<1>1. ASSUME NEW s \in Sessions, AddSession(s) \/ CloseSocket(s) PROVE TypeOK'
  BY <1>0, <1>1 DEF AddSession, CloseSocket
<1>2. ASSUME NEW n \in Limits, SetPlayerAmountLimit(n) PROVE TypeOK'
  BY <1>0, <1>2 DEF SetPlayerAmountLimit
<1>3. CASE KickAll \/ KickAllLess
  BY <1>0, <1>3 DEF KickAll, KickAllLess, Listed
<1>4. CASE StartUpdate \/ StartLoop \/ EndUpdate \/ AddSession_Refused
  BY <1>0, <1>4 DEF StartUpdate, StartLoop, EndUpdate, AddSession_Refused
<1>5. CASE AddSession_
  BY <1>0, <1>5, WorldSessionsAssumption DEF AddSession_
<1>6. ASSUME NEW a \in Accounts, UpdateSession(a) PROVE TypeOK'
  <2>1. sessions[a] \in Sessions
    BY <1>6 DEF UpdateSession, Remaining
  <2>2. loading' \in SUBSET Sessions
    BY <1>6, <2>1 DEF UpdateSession
  <2> QED
    BY <1>0, <1>6, <2>2 DEF UpdateSession
<1>7. ASSUME NEW a \in Accounts, RemoveClosed(a) PROVE TypeOK'
  BY <1>0, <1>7, WorldSessionsAssumption DEF RemoveClosed
<1>8. CASE UNCHANGED vars
  BY <1>8 DEF vars
<1> QED
  BY <1>1, <1>2, <1>3, <1>4, <1>5, <1>6, <1>7, <1>8 DEF Next

\* A step of another handler than AddSession_ and RemoveClosed changes neither
\* m_sessions nor who has the flag, except for a session that is handed over.
LEMMA OtherSteps ==
  ASSUME SessionInv, [Next]_vars, ~AddSession_, \A a \in Accounts : ~RemoveClosed(a)
  PROVE  SessionInv'
<1> USE DEF SessionInv
<1>1. ASSUME NEW s \in Sessions, AddSession(s) PROVE SessionInv'
  <2>1. /\ addSessQueue \in Seq(Sessions) /\ Distinct(addSessQueue)
        /\ s \notin ToSet(addSessQueue) /\ s \notin Listed
        /\ told \in [Sessions -> Nat] /\ queue \in Seq(Sessions)
    BY <1>1 DEF AddSession, Handed, TypeOK
  <2>2. /\ addSessQueue' \in Seq(Sessions) /\ Distinct(addSessQueue')
        /\ ToSet(addSessQueue') = ToSet(addSessQueue) \cup {s}
    BY <1>1, <2>1, DistinctAppend DEF AddSession
  <2>3. Listed' = Listed /\ Queued' = Queued
    BY <1>1 DEF AddSession, Listed, Queued
  <2>4. Handed'
    BY <1>1, <2>1, <2>2, <2>3 DEF AddSession, Handed
  <2>5. \A i \in 1..Len(queue) : queue[i] # s /\ queue[i] \in Sessions
    BY <2>1, ToSetOf DEF Queued
  <2>6. QueueOK(QueueState)'
    BY <1>1, <2>1, <2>5 DEF AddSession, QueueOK, QueueState
  <2>7. NobodyStranded'
    BY <1>1, <2>1, <2>3 DEF AddSession, NobodyStranded
  <2>8. Filed' /\ Remaining' /\ counted' = counted
    BY <1>1 DEF AddSession, Filed, Remaining
  <2>9. TypeOK'
    BY <2>2, <2>6, <2>8, TypeStep DEF TypeOK
  <2> QED
    BY <2>3, <2>4, <2>6, <2>7, <2>8, <2>9
<1>2. CASE KickAll
  <2>1. queue' = <<>> /\ Queued' = {}
    BY <1>2 DEF KickAll, Queued, ToSet
  <2>2. QueueOK(QueueState)'
    BY <1>2, <2>1 DEF KickAll, QueueOK, QueueState, Distinct
  <2>3. Listed' = Listed
    BY <1>2 DEF KickAll, Listed
  <2>4. Filed' /\ Remaining' /\ Handed' /\ counted' = counted
    BY <1>2, <2>3 DEF KickAll, Filed, Remaining, Handed
  <2>5. NobodyStranded'
    BY <1>2, <2>3 DEF KickAll, NobodyStranded
  <2>6. TypeOK'
    BY <1>2, <2>2, <2>4, TypeStep DEF KickAll, TypeOK
  <2> QED
    BY <2>1, <2>2, <2>3, <2>4, <2>5, <2>6
<1>3. CASE AddSession_Refused
  <2>1. /\ addSessQueue' \in Seq(Sessions) /\ Distinct(addSessQueue')
        /\ ToSet(addSessQueue') \subseteq ToSet(addSessQueue)
    BY <1>3, DistinctTail DEF AddSession_Refused, Handed, TypeOK
  <2>2. Listed' = Listed /\ Queued' = Queued /\ QueueState' = QueueState
    BY <1>3 DEF AddSession_Refused, Listed, Queued, QueueState
  <2>3. Filed' /\ Remaining' /\ Handed' /\ counted' = counted /\ QueueOK(QueueState)'
    BY <1>3, <2>1, <2>2 DEF AddSession_Refused, Filed, Remaining, Handed, QueueOK, QueueState
  <2>4. NobodyStranded'
    BY <1>3, <2>2 DEF AddSession_Refused, NobodyStranded
  <2>5. TypeOK'
    BY <1>3, <2>1, <2>3, TypeStep DEF AddSession_Refused, TypeOK
  <2> QED
    BY <2>2, <2>3, <2>4, <2>5
<1>4. ASSUME UNCHANGED <<sessions, addSessQueue, queue, inQueue, told, counted>>,
             closed \subseteq closed',
             \A a \in toUpdate' : sessions[a] # NoSession
      PROVE  SessionInv'
  <2>1. Listed' = Listed /\ Queued' = Queued
    BY <1>4 DEF Listed, Queued
  <2>2. QueueOK(QueueState)'
    BY <1>4 DEF QueueOK, QueueState
  <2>3. Filed' /\ Remaining' /\ Handed'
    BY <1>4, <2>1 DEF Filed, Remaining, Handed
  <2>4. NobodyStranded'
    BY <1>4, <2>1 DEF NobodyStranded
  <2>5. TypeOK'
    BY <1>4, <2>2, TypeStep DEF TypeOK
  <2> QED
    BY <1>4, <2>1, <2>2, <2>3, <2>4, <2>5
<1>5. ASSUME NEW s \in Sessions, CloseSocket(s) PROVE SessionInv'
  BY <1>4, <1>5 DEF CloseSocket, Remaining
<1>6. ASSUME NEW n \in Limits, SetPlayerAmountLimit(n) PROVE SessionInv'
  BY <1>4, <1>6 DEF SetPlayerAmountLimit, Remaining
<1>7. CASE KickAllLess
  BY <1>4, <1>7 DEF KickAllLess, Remaining
<1>8. CASE StartUpdate \/ EndUpdate
  BY <1>4, <1>8 DEF StartUpdate, EndUpdate, Remaining
<1>9. CASE StartLoop
  BY <1>4, <1>9 DEF StartLoop
<1>10. ASSUME NEW a \in Accounts, UpdateSession(a) PROVE SessionInv'
  BY <1>4, <1>10 DEF UpdateSession, Remaining
<1>11. CASE UNCHANGED vars
  BY <1>4, <1>11 DEF vars, Remaining
<1> QED
  BY <1>1, <1>2, <1>3, <1>5, <1>6, <1>7, <1>8, <1>9, <1>10, <1>11 DEF Next

\* AddSession_ keeps the invariant.
LEMMA AddSessionKeeps ==
  ASSUME SessionInv, AddSession_
  PROVE  SessionInv'
<1> USE DEF Adds
<1>1. PICK s, old, q, full, free : Adds(s, old, q, full, free)
  BY AddSessionStep
<1>2. Queued \subseteq Listed /\ counted \subseteq Listed \ Queued /\ Listed \subseteq Sessions
  BY DEF SessionInv, Listed
<1>3. Queued' \subseteq Listed'
  BY <1>1, <1>2
<1>4. counted' \subseteq Listed' \ Queued'
  BY <1>1, <1>2
<1>5. Handed'
  BY <1>1 DEF SessionInv, Handed
<1>6. Filed'
  BY <1>1, WorldSessionsAssumption DEF SessionInv, TypeOK, Filed
<1>7. Remaining'
  <2>1. toUpdate' = toUpdate /\ toUpdate \subseteq Accounts
    BY DEF AddSession_, SessionInv, TypeOK
  <2> QED
    BY <1>1, <2>1, WorldSessionsAssumption DEF SessionInv, TypeOK, Remaining
<1>8. NobodyStranded'
  <2> SUFFICES ASSUME NEW x, x \in inQueue', x \in Listed', x \notin closed'
               PROVE  x \in Queued'
    BY DEF NobodyStranded
  <2>1. CASE x = s
    BY <1>1, <2>1
  <2>2. CASE x # s
    <3>1. x \in q.inQueue /\ x \in Listed /\ x \notin closed
      BY <1>1, <2>2
    <3>2. x \in Queued
      BY <1>1, <3>1 DEF SessionInv, NobodyStranded
    <3> QED
      BY <1>1, <3>1, <3>2
  <2> QED
    BY <2>1, <2>2
<1>9. TypeOK'
  BY <1>1, <1>2, <1>4, TypeStep DEF Next, Listed
<1> QED
  BY <1>1, <1>3, <1>4, <1>5, <1>6, <1>7, <1>8, <1>9 DEF SessionInv

\* RemoveClosed keeps the invariant.
LEMMA RemoveClosedKeeps ==
  ASSUME SessionInv, NEW a \in Accounts, RemoveClosed(a)
  PROVE  SessionInv'
<1> USE DEF Removes
<1>1. PICK s, once, twice : Removes(a, s, once, twice)
  BY RemoveClosedStep
<1>2. Queued \subseteq Listed /\ counted \subseteq Listed \ Queued /\ Listed \subseteq Sessions
  BY DEF SessionInv, Listed
<1>3. Queued' \subseteq Listed' /\ counted' \subseteq Listed' \ Queued'
  BY <1>1, <1>2
<1>4. Handed'
  BY <1>1 DEF SessionInv, Handed
<1>5. Filed'
  BY <1>1 DEF SessionInv, TypeOK, Filed
<1>6. Remaining'
  <2>1. toUpdate' = toUpdate \ {a} /\ toUpdate \subseteq Accounts
    BY DEF RemoveClosed, SessionInv, TypeOK
  <2> QED
    BY <1>1, <2>1 DEF SessionInv, TypeOK, Remaining
<1>7. NobodyStranded'
  BY <1>1, <1>2 DEF SessionInv, NobodyStranded
<1>8. TypeOK'
  <2>1. addSessQueue' \in Seq(Sessions) /\ counted' \in SUBSET Sessions
    BY <1>1, <1>2 DEF SessionInv, TypeOK
  <2> QED
    BY <1>1, <2>1, TypeStep DEF Next
<1> QED
  BY <1>1, <1>3, <1>4, <1>5, <1>6, <1>7, <1>8 DEF SessionInv

\* The invariant holds in every state, whatever the rate and the limits are.
THEOREM SessionsInvariant == Spec => []SessionInv
<1>1. Init => SessionInv
  <2> SUFFICES ASSUME Init PROVE SessionInv
    OBVIOUS
  <2>1. Queued = {} /\ ToSet(addSessQueue) = {}
    BY DEF Init, Queued, ToSet
  <2>2. QueueOK(QueueState)
    BY DEF Init, QueueOK, QueueState, Distinct
  <2>3. TypeOK
    <3>1. /\ told \in [Sessions -> Nat] /\ disconnects \in [Accounts -> Int]
          /\ sessions \in [Accounts -> Sessions \cup {NoSession}]
          /\ now \in 0..MaxTime
      BY WorldSessionsAssumption DEF Init
    <3>2. /\ phase \in {"idle", "adding", "updating"}
          /\ addSessQueue \in Seq(Sessions) /\ queue \in Seq(Sessions)
          /\ limit \in Limits
      BY DEF Init
    <3>3. {} \in SUBSET Sessions /\ {} \in SUBSET Accounts
      OBVIOUS
    <3>4. toUpdate = {} /\ inQueue = {} /\ closed = {} /\ loading = {} /\ counted = {}
      BY DEF Init
    <3>5. raised \in BOOLEAN
      BY Zenon DEF Init
    <3> QED
      BY <3>1, <3>2, <3>3, <3>4, <3>5 DEF TypeOK
  <2>4. Filed /\ Remaining /\ Handed /\ NobodyStranded
    BY <2>1 DEF Init, Filed, Remaining, Handed, NobodyStranded, Distinct
  <2> QED
    BY <2>1, <2>2, <2>3, <2>4 DEF Init, SessionInv
<1>2. SessionInv /\ [Next]_vars => SessionInv'
  BY OtherSteps, AddSessionKeeps, RemoveClosedKeeps
<1> QED
  BY <1>1, <1>2, PTL DEF Spec

\* m_QueuedPlayer never holds a session twice, nor a pointer to a session that
\* AddSession_ replaced or UpdateSessions deleted.
THEOREM QueueHoldsListedSessions == Spec => []NoDanglingQueueEntry
<1>1. SessionInv => NoDanglingQueueEntry
  <2> SUFFICES ASSUME SessionInv PROVE NoDanglingQueueEntry
    OBVIOUS
  <2>1. queue \in Seq(Sessions) /\ Distinct(queue)
    BY QueueStateParts DEF SessionInv, QueueOK
  <2> QED
    BY <2>1, DistinctCardinality DEF SessionInv, NoDanglingQueueEntry, Queued
<1> QED
  BY <1>1, SessionsInvariant, PTL

\* A session with m_inQueue set and an open socket is in m_QueuedPlayer, so
\* that RemoveQueuedPlayer will reach it.
THEOREM WaitingIsQueued == Spec => []NobodyStranded
<1>1. SessionInv => NobodyStranded
  BY DEF SessionInv
<1> QED
  BY <1>1, SessionsInvariant, PTL

\* Every waiting client was last told its present position.
THEOREM ClientsKnowTheirPosition == Spec => []PositionsKnown
<1>1. SessionInv => PositionsKnown
  BY QueueStateParts DEF SessionInv, QueueOK, PositionsKnown
<1> QED
  BY <1>1, SessionsInvariant, PTL

-----------------------------------------------------------------------------
(* Counting sessions *)

\* Multiplication keeps the order.
LEMMA TimesMonotone ==
  ASSUME NEW d \in Nat, NEW x \in Int, NEW y \in Int, x <= y
  PROVE  d * x <= d * y /\ d * x \in Int /\ d * y \in Int
  OBVIOUS

\* Division with truncation.
LEMMA DivBounds ==
  ASSUME NEW m \in Nat, NEW d \in Nat \ {0}
  PROVE  /\ m \div d \in Nat
         /\ d * (m \div d) <= m
         /\ m < d * ((m \div d) + 1)
  OBVIOUS

\* A larger count is not scaled to a smaller one.
LEMMA ScaledMonotone ==
  ASSUME NEW m \in Nat, NEW n \in Nat, m <= n
  PROVE  Scaled(m) \in Nat /\ Scaled(n) \in Nat /\ Scaled(m) <= Scaled(n)
<1> DEFINE a == Scaled(m)
           b == Scaled(n)
<1>0. RateNum \in Nat /\ RateDen \in Nat \ {0}
  BY WorldSessionsAssumption
<1>1. m * RateNum \in Nat /\ n * RateNum \in Nat /\ m * RateNum <= n * RateNum
  BY <1>0
<1>2. /\ a \in Nat /\ RateDen * a <= m * RateNum
      /\ b \in Nat /\ n * RateNum < RateDen * (b + 1)
  BY <1>0, <1>1, DivBounds DEF Scaled
<1> HIDE DEF a, b
<1>3. ASSUME b + 1 <= a PROVE FALSE
  <2>1. RateDen * (b + 1) <= RateDen * a /\ RateDen * (b + 1) \in Int /\ RateDen * a \in Int
    BY <1>0, <1>2, <1>3, TimesMonotone
  <2> QED
    BY <1>1, <1>2, <2>1
<1>4. a <= b
  BY <1>2, <1>3
<1> QED
  BY <1>2, <1>4 DEF a, b

\* With a rate of at least 1 the scaled count is at least the count, and one
\* session more shows.
LEMMA ScaledGrows ==
  ASSUME RateNum >= RateDen, NEW n \in Nat
  PROVE  Scaled(n) >= n /\ Scaled(n + 1) >= Scaled(n) + 1
<1> DEFINE a == Scaled(n)
           b == Scaled(n + 1)
<1>0. RateNum \in Nat /\ RateDen \in Nat \ {0}
  BY WorldSessionsAssumption
<1>1. /\ n * RateNum \in Nat /\ (n + 1) * RateNum \in Nat
      /\ (n + 1) * RateNum = n * RateNum + RateNum
      /\ RateDen * n <= n * RateNum /\ RateDen * n \in Nat
  BY <1>0
<1>2. /\ a \in Nat /\ RateDen * a <= n * RateNum /\ n * RateNum < RateDen * (a + 1)
      /\ b \in Nat /\ (n + 1) * RateNum < RateDen * (b + 1)
  BY <1>0, <1>1, DivBounds DEF Scaled
<1> HIDE DEF a, b
<1>3. ASSUME a + 1 <= n PROVE FALSE
  <2>1. RateDen * (a + 1) <= RateDen * n /\ RateDen * (a + 1) \in Int
    BY <1>0, <1>2, <1>3, TimesMonotone
  <2> QED
    BY <1>1, <1>2, <2>1
<1>4. ASSUME b + 1 <= a + 1 PROVE FALSE
  <2>1. /\ RateDen * (b + 1) <= RateDen * (a + 1)
        /\ RateDen * (b + 1) \in Int /\ RateDen * (a + 1) \in Int
    BY <1>0, <1>2, <1>4, TimesMonotone
  <2>2. RateDen * (a + 1) = RateDen * a + RateDen /\ RateDen * a \in Nat
    BY <1>0, <1>2
  <2> QED
    BY <1>0, <1>1, <1>2, <2>1, <2>2
<1>5. a >= n /\ b >= a + 1
  BY <1>2, <1>3, <1>4
<1> QED
  BY <1>5 DEF a, b

\* With a rate of 1 the count is what it is.
LEMMA ScaledExact ==
  ASSUME RateNum = RateDen, NEW n \in Nat
  PROVE  Scaled(n) = n
<1> DEFINE a == Scaled(n)
<1>0. RateNum \in Nat /\ RateDen \in Nat \ {0} /\ n * RateNum = RateDen * n
  BY WorldSessionsAssumption
<1>1. a \in Nat /\ RateDen * a <= RateDen * n /\ a >= n /\ n * RateNum \in Nat
  BY <1>0, DivBounds, ScaledGrows DEF Scaled
<1> HIDE DEF a
<1>2. ASSUME n + 1 <= a PROVE FALSE
  <2>1. RateDen * (n + 1) <= RateDen * a /\ RateDen * (n + 1) \in Int /\ RateDen * a \in Int
    BY <1>0, <1>1, <1>2, TimesMonotone
  <2>2. RateDen * (n + 1) = RateDen * n + RateDen /\ RateDen * n \in Nat
    BY <1>0
  <2> QED
    BY <1>0, <1>1, <2>1, <2>2
<1>3. a = n
  BY <1>1, <1>2
<1> QED
  BY <1>3 DEF a

\* m_sessions has as many entries as sessions are in it.
LEMMA TotalOf ==
  ASSUME NEW m \in [Accounts -> Sessions \cup {NoSession}],
         \A a \in Accounts : m[a] # NoSession => AccountOf[m[a]] = a,
         NEW L, L = {s \in Sessions : m[AccountOf[s]] = s}
  PROVE  IsFiniteSet(L) /\ Cardinality(L) \in Nat /\ Total(m) = Cardinality(L)
<1> DEFINE A == {a \in Accounts : m[a] # NoSession}
           f == [s \in L |-> AccountOf[s]]
<1>1. IsFiniteSet(L)
  BY WorldSessionsAssumption, FS_Subset
<1>2. f \in Bijection(L, A)
  <2>1. f \in [L -> A]
    BY WorldSessionsAssumption
  <2>2. f \in Injection(L, A)
    BY <2>1 DEF Injection, IsInjective
  <2>3. ASSUME NEW a \in A PROVE \E s \in L : f[s] = a
    <3>1. m[a] \in L /\ f[m[a]] = a
      OBVIOUS
    <3> QED
      BY <3>1
  <2>4. f \in Surjection(L, A)
    BY <2>1, <2>3 DEF Surjection
  <2> QED
    BY <2>2, <2>4 DEF Bijection
<1>3. Cardinality(A) = Cardinality(L)
  BY <1>1, <1>2, FS_Bijection DEF ExistsBijection
<1> QED
  BY <1>1, <1>3, FS_CardinalityType DEF Total

\* The sizes of m_sessions and of m_QueuedPlayer.
LEMMA SizesOf ==
  ASSUME SessionInv
  PROVE  /\ IsFiniteSet(Listed) /\ Total(sessions) = Cardinality(Listed)
         /\ Total(sessions) \in Nat
         /\ IsFiniteSet(Queued) /\ Len(queue) = Cardinality(Queued)
         /\ Len(queue) \in Nat /\ Len(queue) <= Total(sessions)
<1>1. /\ IsFiniteSet(Listed) /\ Cardinality(Listed) \in Nat
      /\ Total(sessions) = Cardinality(Listed)
  <2>1. /\ sessions \in [Accounts -> Sessions \cup {NoSession}]
        /\ \A a \in Accounts : sessions[a] # NoSession => AccountOf[sessions[a]] = a
    BY DEF SessionInv, TypeOK, Filed
  <2> QED
    BY <2>1, TotalOf DEF Listed
<1>2. queue \in Seq(Sessions) /\ Distinct(queue) /\ Queued \subseteq Listed
  BY QueueStateParts DEF SessionInv, QueueOK
<1>3. IsFiniteSet(Queued) /\ Len(queue) = Cardinality(Queued) /\ Len(queue) \in Nat
  BY <1>2, DistinctCardinality, ToSetOf DEF Queued
<1>4. Cardinality(Queued) <= Cardinality(Listed)
  BY <1>1, <1>2, FS_Subset
<1> QED
  BY <1>1, <1>3, <1>4

\* AddSession_ adds a session, or puts it in the place of the old one.
LEMMA AddCounts ==
  ASSUME SessionInv, NEW s, NEW old, NEW q, NEW full, NEW free,
         Adds(s, old, q, full, free)
  PROVE  /\ Total(sessions') = IF old = NoSession THEN Total(sessions) + 1 ELSE Total(sessions)
         /\ IsFiniteSet(Listed') /\ Total(sessions') = Cardinality(Listed')
<1>1. /\ IsFiniteSet(Listed) /\ Cardinality(Listed) \in Nat
      /\ Total(sessions) = Cardinality(Listed)
  BY SizesOf
<1>2. IsFiniteSet(Listed') /\ Total(sessions') = Cardinality(Listed')
  <2>1. /\ sessions' \in [Accounts -> Sessions \cup {NoSession}]
        /\ \A a \in Accounts : sessions'[a] # NoSession => AccountOf[sessions'[a]] = a
    BY WorldSessionsAssumption DEF SessionInv, TypeOK, Filed, Adds
  <2> QED
    BY <2>1, TotalOf DEF Listed
<1>3. Listed' = (Listed \ {old}) \cup {s} /\ s \notin Listed \ {old}
  BY DEF Adds
<1>4. IsFiniteSet(Listed \ {old})
  BY <1>1, FS_RemoveElement
<1>5. Cardinality(Listed') = Cardinality(Listed \ {old}) + 1
  BY <1>3, <1>4, FS_AddElement
<1>6. CASE old = NoSession
  <2>1. Listed \ {old} = Listed
    BY <1>6, WorldSessionsAssumption DEF Listed
  <2> QED
    BY <1>1, <1>2, <1>5, <1>6, <2>1
<1>7. CASE old # NoSession
  <2>1. old \in Listed
    BY <1>7, ListedOf, WorldSessionsAssumption DEF Adds
  <2>2. Cardinality(Listed \ {old}) = Cardinality(Listed) - 1
    BY <1>1, <2>1, FS_RemoveElement
  <2> QED
    BY <1>1, <1>2, <1>5, <1>7, <2>2
<1> QED
  BY <1>2, <1>6, <1>7

\* RemoveClosed takes one session away.
LEMMA RemoveCounts ==
  ASSUME SessionInv, NEW a \in Accounts, NEW s, NEW once, NEW twice,
         Removes(a, s, once, twice)
  PROVE  Total(sessions') = Total(sessions) - 1
<1>1. /\ IsFiniteSet(Listed) /\ Cardinality(Listed) \in Nat
      /\ Total(sessions) = Cardinality(Listed)
  BY SizesOf
<1>2. Total(sessions') = Cardinality(Listed')
  <2>1. /\ sessions' \in [Accounts -> Sessions \cup {NoSession}]
        /\ \A x \in Accounts : sessions'[x] # NoSession => AccountOf[sessions'[x]] = x
    BY DEF SessionInv, TypeOK, Filed, Removes
  <2> QED
    BY <2>1, TotalOf DEF Listed
<1> QED
  BY <1>1, <1>2, FS_RemoveElement DEF Removes

\* When the front of the queue is accepted, in numbers.
LEMMA AcceptsOf ==
  ASSUME NEW q, QueueOK(q), NEW sess \in Sessions, NEW n \in Nat,
         Len(q.queue) <= n
  PROVE  LET len    == Len(q.queue)
             active == Scaled(n - len)
         IN  /\ len \in Nat /\ active \in Nat
             /\ Accepts(q, sess, n) <=>
                  /\ limit = 0 \/ CountLeft(q, sess, n) < limit
                  /\ len > IF Found(q, sess) THEN 1 ELSE 0
             /\ CountLeft(q, sess, n) =
                  IF Found(q, sess) \/ active = 0 THEN active ELSE active - 1
             /\ Len(RemoveQueuedPlayer(q, sess, n).queue) =
                  len - (IF Found(q, sess) THEN 1 ELSE 0)
                      - (IF Accepts(q, sess, n) THEN 1 ELSE 0)
<1> DEFINE len    == Len(q.queue)
           active == Scaled(n - len)
<1>1. len \in Nat
  BY ToSetOf DEF QueueOK
<1>2. active \in Nat
  BY <1>1, ScaledMonotone
<1>3. CountLeft(q, sess, n) =
        IF Found(q, sess) \/ active = 0 THEN active ELSE active - 1
  BY <1>2 DEF CountLeft
<1>4. Without(q, sess) # <<>> <=> len > IF Found(q, sess) THEN 1 ELSE 0
  <2>1. /\ Without(q, sess) \in Seq(Sessions)
        /\ Len(Without(q, sess)) = IF Found(q, sess) THEN len - 1 ELSE len
    BY WithoutOf
  <2>2. Len(Without(q, sess)) \in Nat /\ (Without(q, sess) = <<>> <=> Len(Without(q, sess)) = 0)
    BY <2>1, ToSetOf
  <2> QED
    BY <1>1, <2>1, <2>2
<1>5. Len(RemoveQueuedPlayer(q, sess, n).queue) =
        len - (IF Found(q, sess) THEN 1 ELSE 0)
            - (IF Accepts(q, sess, n) THEN 1 ELSE 0)
  BY RemoveQueuedPlayerOf
<1>6. Accepts(q, sess, n) <=>
        /\ limit = 0 \/ CountLeft(q, sess, n) < limit
        /\ len > IF Found(q, sess) THEN 1 ELSE 0
  BY <1>4 DEF Accepts
<1> HIDE DEF active, len
<1> QED
  BY <1>1, <1>2, <1>3, <1>5, <1>6 DEF active, len

\* The same for a session that leaves in the present state.
LEMMA FirstCall ==
  ASSUME SessionInv, NEW sess \in Sessions
  PROVE  LET T      == Total(sessions)
             L      == Len(queue)
             found  == sess \in Queued
             active == Scaled(T - L)
             acc    == Accepts(QueueState, sess, T)
             left   == CountLeft(QueueState, sess, T)
         IN  /\ active \in Nat
             /\ acc <=> ((limit = 0 \/ left < limit) /\ L > IF found THEN 1 ELSE 0)
             /\ left = IF found \/ active = 0 THEN active ELSE active - 1
             /\ Len(RemoveQueuedPlayer(QueueState, sess, T).queue) =
                  L - (IF found THEN 1 ELSE 0) - (IF acc THEN 1 ELSE 0)
<1>1. QueueOK(QueueState) /\ Total(sessions) \in Nat /\ Len(queue) <= Total(sessions)
  BY SizesOf DEF SessionInv
<1>2. Found(QueueState, sess) <=> sess \in Queued
  BY QueueStateParts DEF Found, Queued
<1> QED
  BY <1>1, <1>2, AcceptsOf, QueueStateParts

-----------------------------------------------------------------------------
(* Nobody waits without need *)

\* While sessions wait and nobody raised the limit under them, the server would
\* be above the limit with one session more.  The count of the active sessions
\* alone may be below it: with a rate above 1 two sessions count for more.
FullInv ==
  queue # <<>> /\ ~raised =>
    limit # 0 /\ Scaled(Total(sessions) - Len(queue) + 1) > limit

\* AddSession_ keeps it: a session that is queued finds the server full, and
\* one that leaves is replaced when it made room.
LEMMA AddSessionFull ==
  ASSUME RateNum >= RateDen, SessionInv, SessionInv', FullInv, AddSession_
  PROVE  FullInv'
<1>1. PICK s, old, q, full, free : Adds(s, old, q, full, free)
  BY AddSessionStep
<1> DEFINE T  == Total(sessions)
           L  == Len(queue)
           T2 == Total(sessions')
           L1 == Len(q.queue)
           L2 == Len(queue')
<1>2. /\ T \in Nat /\ L \in Nat /\ L <= T /\ limit \in Nat /\ limit' = limit
      /\ (queue = <<>> <=> L = 0) /\ queue \in Seq(Sessions)
  <2>1. limit \in Nat /\ queue \in Seq(Sessions)
    BY WorldSessionsAssumption DEF SessionInv, TypeOK
  <2>2. limit' = limit
    BY <1>1 DEF Adds
  <2> QED
    BY <2>1, <2>2, SizesOf, ToSetOf
<1>3. T2 = IF old = NoSession THEN T + 1 ELSE T
  BY <1>1, AddCounts
<1>4. /\ L1 \in Nat /\ (q.queue = <<>> <=> L1 = 0)
      /\ L2 = IF full /\ ~free THEN L1 + 1 ELSE L1
      /\ L2 \in Nat /\ (queue' = <<>> <=> L2 = 0)
  <2>1. q.queue \in Seq(Sessions) /\ queue' \in Seq(Sessions)
    BY <1>1 DEF Adds, QueueOK, SessionInv, TypeOK
  <2> QED
    BY <1>1, <2>1, ToSetOf DEF Adds
<1>5. raised' = (raised /\ (q.queue # <<>> \/ (full /\ ~free)))
  BY <1>1 DEF Adds
<1>6. full => limit > 0 /\
       LET count == Scaled(T2)
       IN  IF old # NoSession /\ old \in Queued THEN count >= limit
           ELSE count = 0 \/ count - 1 >= limit
  BY <1>1 DEF Adds, Reaches
<1> SUFFICES ASSUME L2 # 0, ~raised
             PROVE  limit # 0 /\ Scaled(T2 - L2 + 1) > limit
  BY <1>2, <1>4, <1>5 DEF FullInv
<1>7. L # 0 => limit # 0 /\ Scaled(T - L + 1) > limit
  BY <1>2 DEF FullInv
<1> HIDE DEF T, L, T2, L1, L2
<1>8. ASSUME NEW x \in Nat, x <= T2 - L2 + 1, Scaled(x) > limit
      PROVE  Scaled(T2 - L2 + 1) > limit
  <2>1. T2 \in Nat
    BY <1>2, <1>3
  <2>2. T2 - L2 + 1 \in Nat
    BY <1>4, <1>8, <2>1
  <2>3. Scaled(x) \in Nat /\ Scaled(T2 - L2 + 1) \in Nat /\ Scaled(x) <= Scaled(T2 - L2 + 1)
    BY <1>8, <2>2, ScaledMonotone
  <2> QED
    BY <1>2, <1>8, <2>3
<1>9. CASE old = NoSession
  <2>1. L1 = L /\ T2 = T + 1
    BY <1>1, <1>3, <1>9 DEF Adds, QueueState, L, L1
  <2>2. CASE L # 0
    <3>1. T - L + 1 \in Nat /\ T - L + 1 <= T2 - L2 + 1
      BY <1>2, <1>4, <2>1
    <3> QED
      BY <1>7, <1>8, <2>2, <3>1
  <2>3. CASE L = 0
    <3>1. full /\ L2 = 1 /\ T2 \in Nat /\ T2 >= 1 /\ T2 - L2 + 1 = T2
      BY <1>2, <1>4, <2>1, <2>3
    <3>2. Scaled(T2) \in Nat /\ Scaled(T2) >= T2
      BY <3>1, ScaledGrows, ScaledMonotone
    <3> QED
      BY <1>2, <1>6, <1>9, <3>1, <3>2
  <2> QED
    BY <2>2, <2>3
<1>10. CASE old # NoSession
  <2> DEFINE acc    == Accepts(QueueState, old, T)
             found  == old \in Queued
             active == Scaled(T - L)
             left   == CountLeft(QueueState, old, T)
  <2>1. /\ active \in Nat
        /\ acc <=> ((limit = 0 \/ left < limit) /\ L > IF found THEN 1 ELSE 0)
        /\ left = IF found \/ active = 0 THEN active ELSE active - 1
        /\ L1 = L - (IF found THEN 1 ELSE 0) - (IF acc THEN 1 ELSE 0)
    <3>1. old \in Sessions /\ q = RemoveQueuedPlayer(QueueState, old, T)
      BY <1>1, <1>10 DEF Adds, T
    <3> QED
      BY <3>1, FirstCall DEF T, L, L1
  <2> HIDE DEF acc, found, active, left
  <2>2. T2 = T
    BY <1>3, <1>10
  <2>3. CASE L = 0
    <3>1. ~found /\ ~acc
      BY <1>2, <1>4, <2>1, <2>3
    <3>2. full /\ L2 = 1
      BY <1>2, <1>4, <2>1, <2>3, <3>1
    <3>3. T2 \in Nat /\ T2 - L2 + 1 = T2 /\ T2 >= 1
      <4>1. old \in Listed
        BY <1>1, <1>10, ListedOf, WorldSessionsAssumption DEF Adds
      <4>2. T # 0
        BY <4>1, SizesOf, FS_EmptySet DEF T
      <4> QED
        BY <1>2, <2>2, <3>2, <4>2
    <3>4. Scaled(T2) \in Nat /\ Scaled(T2) >= T2
      BY <3>3, ScaledGrows, ScaledMonotone
    <3> QED
      BY <1>2, <1>6, <1>10, <2>2, <3>1, <3>2, <3>3, <3>4 DEF found
  <2>4. CASE L # 0 /\ (found \/ acc \/ L2 <= L)
    <3>1. T - L + 1 \in Nat /\ T - L + 1 <= T2 - L2 + 1
      BY <1>2, <1>4, <2>1, <2>2, <2>4
    <3> QED
      BY <1>7, <1>8, <2>4, <3>1
  <2>5. CASE L # 0 /\ ~(found \/ acc \/ L2 <= L)
    <3>1. L2 = L + 1 /\ active > limit
      BY <1>2, <1>4, <1>7, <2>1, <2>5
    <3>2. T - L \in Nat /\ T - L <= T2 - L2 + 1
      BY <1>2, <2>2, <3>1
    <3> QED
      BY <1>7, <1>8, <2>5, <3>1, <3>2 DEF active
  <2> QED
    BY <2>3, <2>4, <2>5
<1> QED
  BY <1>9, <1>10

\* What the two calls of RemoveQueuedPlayer of one departure do, in numbers:
\* the second one finds a session that is no longer queued.
LEMMA BothCalls ==
  ASSUME SessionInv, NEW a \in Accounts, NEW s, NEW once, NEW twice,
         Removes(a, s, once, twice)
  PROVE  LET T     == Total(sessions)
             L     == Len(queue)
             found == s \in Queued
             acc1  == Accepts(QueueState, s, T)
             acc2  == Accepts(once, s, T)
             left1 == CountLeft(QueueState, s, T)
             left2 == CountLeft(once, s, T)
             L1    == Len(once.queue)
         IN  /\ T \in Nat /\ L \in Nat /\ L <= T /\ Total(sessions') = T - 1
             /\ Scaled(T - L) \in Nat /\ Scaled(T - L1) \in Nat
             /\ acc1 <=> ((limit = 0 \/ left1 < limit) /\ L > IF found THEN 1 ELSE 0)
             /\ left1 = IF found \/ Scaled(T - L) = 0 THEN Scaled(T - L)
                        ELSE Scaled(T - L) - 1
             /\ L1 = L - (IF found THEN 1 ELSE 0) - (IF acc1 THEN 1 ELSE 0)
             /\ L1 \in Nat
             /\ acc2 <=> ((limit = 0 \/ left2 < limit) /\ L1 > 0)
             /\ left2 = IF Scaled(T - L1) = 0 THEN 0 ELSE Scaled(T - L1) - 1
             /\ Len(queue') = L1 - (IF acc2 THEN 1 ELSE 0)
             /\ Len(queue') \in Nat
<1> DEFINE T  == Total(sessions)
           L  == Len(queue)
           L1 == Len(once.queue)
<1>1. T \in Nat /\ L \in Nat /\ L <= T /\ Total(sessions') = T - 1
  BY SizesOf, RemoveCounts
<1>2. s \in Sessions /\ once = RemoveQueuedPlayer(QueueState, s, T) /\ QueueOK(once)
  BY DEF Removes
<1>3. LET acc1  == Accepts(QueueState, s, T)
          left1 == CountLeft(QueueState, s, T)
          found == s \in Queued
      IN  /\ Scaled(T - L) \in Nat
          /\ acc1 <=> ((limit = 0 \/ left1 < limit) /\ L > IF found THEN 1 ELSE 0)
          /\ left1 = IF found \/ Scaled(T - L) = 0 THEN Scaled(T - L)
                     ELSE Scaled(T - L) - 1
          /\ L1 = L - (IF found THEN 1 ELSE 0) - (IF acc1 THEN 1 ELSE 0)
  BY <1>2, FirstCall
<1> HIDE DEF T
<1>4. L1 \in Nat /\ L1 <= T
  <2>1. L1 \in Nat
    BY <1>2, ToSetOf DEF QueueOK
  <2> HIDE DEF L1, L
  <2> QED
    BY <1>1, <1>3, <2>1
<1>5. ~Found(once, s)
  BY DEF Removes, Found
<1>6. queue' = RemoveQueuedPlayer(once, s, T).queue
  BY DEF Removes, T
<1>7. LET acc2  == Accepts(once, s, T)
          left2 == CountLeft(once, s, T)
      IN  /\ Scaled(T - L1) \in Nat
          /\ acc2 <=> ((limit = 0 \/ left2 < limit) /\ L1 > 0)
          /\ left2 = IF Scaled(T - L1) = 0 THEN 0 ELSE Scaled(T - L1) - 1
          /\ Len(queue') = L1 - (IF acc2 THEN 1 ELSE 0)
  <2> DEFINE acc2  == Accepts(once, s, T)
             left2 == CountLeft(once, s, T)
             L2    == Len(queue')
             n     == Scaled(T - L1)
             found == Found(once, s)
  <2>1. /\ n \in Nat
        /\ acc2 <=> ((limit = 0 \/ left2 < limit) /\ L1 > IF found THEN 1 ELSE 0)
        /\ left2 = IF found \/ n = 0 THEN n ELSE n - 1
        /\ L2 = L1 - (IF found THEN 1 ELSE 0) - (IF acc2 THEN 1 ELSE 0)
    BY <1>1, <1>2, <1>4, <1>6, AcceptsOf
  <2>2. ~found
    BY <1>5
  <2> HIDE DEF acc2, left2, L1, L2, n, found
  <2>3. /\ n \in Nat
        /\ acc2 <=> ((limit = 0 \/ left2 < limit) /\ L1 > 0)
        /\ left2 = IF n = 0 THEN 0 ELSE n - 1
        /\ L2 = L1 - (IF acc2 THEN 1 ELSE 0)
    BY <1>4, <2>1, <2>2
  <2> QED
    BY <2>3 DEF acc2, left2, L2, n
<1>8. Len(queue') \in Nat
  <2>1. queue' \in Seq(Sessions)
    BY QueueStateParts DEF Removes, QueueOK, QueueState
  <2> QED
    BY <2>1, ToSetOf
<1> HIDE DEF L1, L
<1> QED
  BY <1>1, <1>3, <1>4, <1>7, <1>8 DEF T, L, L1

\* RemoveClosed keeps it: when nobody was accepted although sessions wait, the
\* others reach the limit.
LEMMA RemoveClosedFull ==
  ASSUME SessionInv, FullInv, NEW a \in Accounts, RemoveClosed(a)
  PROVE  FullInv'
<1>1. PICK s, once, twice : Removes(a, s, once, twice)
  BY RemoveClosedStep
<1> DEFINE T     == Total(sessions)
           L     == Len(queue)
           L1    == Len(once.queue)
           T2    == Total(sessions')
           L2    == Len(queue')
           found == s \in Queued
           acc1  == Accepts(QueueState, s, T)
           acc2  == Accepts(once, s, T)
           left1 == CountLeft(QueueState, s, T)
<1>2. /\ T \in Nat /\ L \in Nat /\ L <= T /\ T2 = T - 1 /\ Scaled(T - L) \in Nat
      /\ acc1 <=> ((limit = 0 \/ left1 < limit) /\ L > IF found THEN 1 ELSE 0)
      /\ left1 = IF found \/ Scaled(T - L) = 0 THEN Scaled(T - L)
                 ELSE Scaled(T - L) - 1
      /\ L1 = L - (IF found THEN 1 ELSE 0) - (IF acc1 THEN 1 ELSE 0)
      /\ L1 \in Nat /\ L2 \in Nat /\ L2 = L1 - (IF acc2 THEN 1 ELSE 0)
  BY <1>1, BothCalls
<1>3. /\ limit \in Nat /\ limit' = limit
      /\ raised' = (raised /\ queue' # <<>>)
      /\ (queue = <<>> <=> L = 0) /\ (queue' = <<>> <=> L2 = 0)
  <2>1. limit \in Nat /\ queue \in Seq(Sessions)
    BY WorldSessionsAssumption DEF SessionInv, TypeOK
  <2>2. queue' \in Seq(Sessions) /\ limit' = limit /\ raised' = (raised /\ queue' # <<>>)
    BY <1>1 DEF Removes, QueueOK, QueueState
  <2> QED
    BY <2>1, <2>2, ToSetOf
<1> SUFFICES ASSUME L2 # 0, ~raised
             PROVE  limit # 0 /\ Scaled(T2 - L2 + 1) > limit
  BY <1>3 DEF FullInv
<1>4. L # 0 => limit # 0 /\ Scaled(T - L + 1) > limit
  BY <1>3 DEF FullInv
<1> HIDE DEF T, L, T2, L1, L2, found, acc1, acc2, left1
<1>5. L # 0
  BY <1>2
<1>6. CASE found \/ acc1 \/ acc2
  <2>1. T - L + 1 \in Nat /\ T2 - L2 + 1 \in Nat /\ T - L + 1 <= T2 - L2 + 1
    BY <1>2, <1>6
  <2>2. /\ Scaled(T - L + 1) \in Nat /\ Scaled(T2 - L2 + 1) \in Nat
        /\ Scaled(T - L + 1) <= Scaled(T2 - L2 + 1)
    BY <2>1, ScaledMonotone
  <2> QED
    BY <1>3, <1>4, <1>5, <2>2
<1>7. CASE ~(found \/ acc1 \/ acc2)
  <2>1. T2 - L2 + 1 = T - L /\ ~(left1 < limit) /\ limit # 0
    BY <1>2, <1>4, <1>5, <1>7
  <2>2. Scaled(T - L) > limit
    BY <1>2, <1>3, <1>7, <2>1
  <2> QED
    BY <2>1, <2>2
<1> QED
  BY <1>6, <1>7

\* The invariant of the queue against the limit, for a rate of at least 1: a
\* lower rate would let the server fill up behind a scaled count that stays.
THEOREM FullInvariant ==
  ASSUME RateNum >= RateDen
  PROVE  Spec => []FullInv
<1>1. Init => FullInv
  BY DEF Init, FullInv
<1>2. SessionInv /\ SessionInv' /\ FullInv /\ [Next]_vars => FullInv'
  <2> SUFFICES ASSUME SessionInv, SessionInv', FullInv, [Next]_vars
               PROVE  FullInv'
    OBVIOUS
  <2>1. ASSUME UNCHANGED <<sessions, queue, limit, raised>> PROVE FullInv'
    BY <2>1 DEF FullInv, Total
  <2>2. ASSUME NEW s \in Sessions, AddSession(s) \/ CloseSocket(s) PROVE FullInv'
    BY <2>1, <2>2 DEF AddSession, CloseSocket
  <2>3. ASSUME NEW n \in Limits, SetPlayerAmountLimit(n) PROVE FullInv'
    <3> DEFINE k == Scaled(Total(sessions) - Len(queue) + 1)
    <3>1. /\ limit' = n /\ n \in Nat /\ queue' = queue /\ sessions' = sessions
          /\ raised' = (queue # <<>> /\ (n = 0 \/ k <= n))
      BY <2>3, WorldSessionsAssumption DEF SetPlayerAmountLimit, Room
    <3>2. k \in Nat
      <4> DEFINE m == Total(sessions) - Len(queue)
      <4>1. m \in Nat
        BY SizesOf
      <4>2. k = Scaled(m + 1)
        OBVIOUS
      <4> HIDE DEF m, k
      <4>3. m + 1 \in Nat
        BY <4>1
      <4> QED
        BY <4>2, <4>3, ScaledMonotone
    <3>3. FullInv' <=> (queue # <<>> /\ ~raised' => n # 0 /\ k > n)
      BY <3>1 DEF FullInv, Total
    <3> HIDE DEF k
    <3>4. queue # <<>> /\ ~raised' => n # 0 /\ ~(k <= n)
      BY <3>1, Zenon
    <3> QED
      BY <3>1, <3>2, <3>3, <3>4
  <2>4. CASE KickAll
    BY <2>4 DEF KickAll, FullInv
  <2>5. CASE KickAllLess \/ StartUpdate \/ StartLoop \/ EndUpdate \/ AddSession_Refused
    BY <2>1, <2>5 DEF KickAllLess, StartUpdate, StartLoop, EndUpdate, AddSession_Refused
  <2>6. CASE AddSession_
    BY <2>6, AddSessionFull
  <2>7. ASSUME NEW a \in Accounts, UpdateSession(a) PROVE FullInv'
    BY <2>1, <2>7 DEF UpdateSession
  <2>8. ASSUME NEW a \in Accounts, RemoveClosed(a) PROVE FullInv'
    BY <2>8, RemoveClosedFull
  <2>9. CASE UNCHANGED vars
    BY <2>1, <2>9 DEF vars
  <2> QED
    BY <2>2, <2>3, <2>4, <2>5, <2>6, <2>7, <2>8, <2>9 DEF Next
<1> QED
  BY <1>1, <1>2, SessionsInvariant, PTL DEF Spec

\* Sessions wait only while one more, counted at Rate.Online, would be above the
\* limit, or while the limit was raised under them, for a rate of at least 1.
THEOREM NobodyWaitsInVain ==
  ASSUME RateNum >= RateDen
  PROVE  Spec => []WorkConserving
<1>1. SessionInv /\ FullInv => WorkConserving
  <2> SUFFICES ASSUME SessionInv, FullInv PROVE WorkConserving
    OBVIOUS
  <2> DEFINE m == Total(sessions) - Len(queue)
             k == Scaled(Total(sessions) - Len(queue) + 1)
  <2>1. m \in Nat /\ limit \in Nat
    BY SizesOf, WorldSessionsAssumption DEF SessionInv, TypeOK
  <2>2. k \in Nat
    <3>1. k = Scaled(m + 1)
      OBVIOUS
    <3> HIDE DEF m, k
    <3>2. m + 1 \in Nat
      BY <2>1
    <3> QED
      BY <3>1, <3>2, ScaledMonotone
  <2>3. /\ queue # <<>> /\ ~raised => limit # 0 /\ k > limit
        /\ WorkConserving <=> (queue # <<>> /\ (limit = 0 \/ k <= limit) => raised)
    BY DEF WorkConserving, Room, FullInv
  <2>4. k > limit => ~(k <= limit)
    BY <2>1, <2>2
  <2> HIDE DEF m, k
  <2> QED
    BY <2>3, <2>4, Zenon
<1> QED
  BY <1>1, SessionsInvariant, FullInvariant, PTL

\* At a rate of exactly 1 this is to say that the active sessions reach the limit.
\* With the default of 1.47 the count skips values, and a place between two of
\* them stays empty.
THEOREM NoIdlePlaceAtRateOne ==
  ASSUME RateNum = RateDen
  PROVE  Spec => []NoIdlePlace
<1>0. RateNum >= RateDen
  BY WorldSessionsAssumption
<1>1. SessionInv /\ FullInv => NoIdlePlace
  <2> SUFFICES ASSUME SessionInv, FullInv PROVE NoIdlePlace
    OBVIOUS
  <2> DEFINE k == Total(sessions) - Len(queue)
  <2>1. k \in Nat /\ limit \in Nat
    BY SizesOf, WorldSessionsAssumption DEF SessionInv, TypeOK
  <2>2. Scaled(k) = k /\ Scaled(k + 1) = k + 1
    BY <2>1, ScaledExact
  <2>3. Active = Scaled(k) /\ (queue # <<>> /\ ~raised => limit # 0 /\ Scaled(k + 1) > limit)
    BY DEF Active, FullInv
  <2> HIDE DEF k
  <2> QED
    BY <2>1, <2>2, <2>3 DEF NoIdlePlace
<1> QED
  BY <1>0, <1>1, SessionsInvariant, FullInvariant, PTL

-----------------------------------------------------------------------------
(* Admission *)

\* Sessions are only let in by AddSession_ and by the departure of another.
LEMMA CountedStep ==
  ASSUME [Next]_vars, counted' # counted
  PROVE  AddSession_ \/ \E a \in Accounts : RemoveClosed(a)
  BY DEF Next, vars, AddSession, CloseSocket, SetPlayerAmountLimit, KickAll,
         KickAllLess, StartUpdate, AddSession_Refused, StartLoop, UpdateSession,
         EndUpdate

\* A session that AddSession_ lets in while others go on waiting came to a
\* server that had no room for them.
LEMMA DirectlyLetIn ==
  ASSUME RateNum >= RateDen, SessionInv, SessionInv', FullInv,
         NEW s, NEW old, NEW q, NEW full, NEW free, Adds(s, old, q, full, free),
         ~full, ~raised
  PROVE  queue' = <<>>
<1> DEFINE T  == Total(sessions)
           L  == Len(queue)
           T2 == Total(sessions')
           L1 == Len(q.queue)
           x  == T - L + 1
<1>1. /\ T \in Nat /\ L \in Nat /\ L <= T /\ limit \in Nat
      /\ (queue = <<>> <=> L = 0)
  <2>1. limit \in Nat /\ queue \in Seq(Sessions)
    BY WorldSessionsAssumption DEF SessionInv, TypeOK
  <2> QED
    BY <2>1, SizesOf, ToSetOf
<1>2. T2 = IF old = NoSession THEN T + 1 ELSE T
  BY AddCounts
<1>3. queue' = q.queue /\ L1 \in Nat /\ (q.queue = <<>> <=> L1 = 0)
  <2>1. q.queue \in Seq(Sessions) /\ queue' = q.queue
    BY DEF Adds, QueueOK
  <2> QED
    BY <2>1, ToSetOf
<1> SUFFICES ASSUME L1 # 0 PROVE FALSE
  BY <1>3
<1>4. L # 0 => limit # 0 /\ Scaled(x) > limit
  BY <1>1 DEF FullInv
<1>5. ~(limit > 0 /\ IF old # NoSession /\ old \in Queued THEN Scaled(T2) >= limit
                     ELSE Scaled(T2) = 0 \/ Scaled(T2) - 1 >= limit)
  BY DEF Adds, Reaches
<1>6. ASSUME NEW n \in Nat, n <= T2
      PROVE  Scaled(n) \in Nat /\ Scaled(T2) \in Nat /\ Scaled(n) <= Scaled(T2)
  <2>1. T2 \in Nat
    BY <1>1, <1>2
  <2> HIDE DEF T2
  <2> QED
    BY <1>6, <2>1, ScaledMonotone
<1>7. x \in Nat /\ x + 1 \in Nat /\ T - L \in Nat
  BY <1>1
<1>8. Scaled(x + 1) >= Scaled(x) + 1
  BY <1>7, ScaledGrows
<1> HIDE DEF T2
<1>9. CASE old = NoSession
  <2>1. L1 = L
    BY <1>9 DEF Adds, QueueState
  <2>2. x <= T2 /\ x + 1 <= T2
    BY <1>1, <1>2, <1>9, <2>1
  <2>3. /\ Scaled(x) \in Nat /\ Scaled(x + 1) \in Nat /\ Scaled(T2) \in Nat
        /\ Scaled(x + 1) <= Scaled(T2)
    BY <1>6, <1>7, <2>2
  <2> HIDE DEF T, L, L1, x
  <2> QED
    BY <1>1, <1>4, <1>5, <1>8, <1>9, <2>1, <2>3
<1>10. CASE old # NoSession
  <2> DEFINE acc    == Accepts(QueueState, old, T)
             found  == old \in Queued
             active == Scaled(T - L)
             left   == CountLeft(QueueState, old, T)
  <2>1. /\ active \in Nat
        /\ acc <=> ((limit = 0 \/ left < limit) /\ L > IF found THEN 1 ELSE 0)
        /\ left = IF found \/ active = 0 THEN active ELSE active - 1
        /\ L1 = L - (IF found THEN 1 ELSE 0) - (IF acc THEN 1 ELSE 0)
    <3>1. old \in Sessions /\ q = RemoveQueuedPlayer(QueueState, old, T)
      BY <1>10 DEF Adds
    <3> QED
      BY <3>1, FirstCall
  <2>2. ~(limit > 0 /\ IF found THEN Scaled(T2) >= limit
                       ELSE Scaled(T2) = 0 \/ Scaled(T2) - 1 >= limit)
    BY <1>5, <1>10
  <2> HIDE DEF T, L1, acc, found, left
  <2>3. L # 0 /\ T2 = T
    <3> HIDE DEF L, active
    <3> QED
      BY <1>1, <1>2, <1>3, <1>10, <2>1
  <2>4. x <= T2 /\ T - L <= T2
    BY <1>1, <2>3
  <2>5. /\ Scaled(x) \in Nat /\ Scaled(T2) \in Nat /\ Scaled(x) <= Scaled(T2)
        /\ active <= Scaled(T2)
    BY <1>6, <1>7, <2>4
  <2>6. CASE found
    <3> HIDE DEF L, x, active
    <3> QED
      BY <1>1, <1>4, <2>2, <2>3, <2>5, <2>6
  <2>7. CASE ~found /\ acc
    <3>1. x + 1 <= T2
      <4> HIDE DEF active
      <4> QED
        BY <1>1, <1>3, <2>1, <2>3, <2>7
    <3>2. Scaled(x + 1) \in Nat /\ Scaled(x + 1) <= Scaled(T2)
      BY <1>6, <1>7, <3>1
    <3> HIDE DEF L, x, active
    <3> QED
      BY <1>1, <1>4, <1>8, <2>2, <2>3, <2>5, <2>7, <3>2
  <2>8. CASE ~found /\ ~acc
    <3> HIDE DEF L, x, active
    <3> QED
      BY <1>1, <1>4, <2>1, <2>2, <2>3, <2>5, <2>8
  <2> QED
    BY <2>6, <2>7, <2>8
<1> QED
  BY <1>9, <1>10

\* A session without a privilege is never let in past sessions that wait, for
\* a rate of at least 1, unless the limit was raised under them.
THEOREM InOrderOfArrival ==
  ASSUME RateNum >= RateDen
  PROVE  Spec => NoOvertaking
<1>1. SessionInv /\ SessionInv' /\ FullInv /\ [Next]_vars =>
        [(\E s \in ToSet(addSessQueue) : s \in counted' \ counted) =>
           queue' = <<>> \/ raised]_vars
  <2> SUFFICES ASSUME SessionInv, SessionInv', FullInv, [Next]_vars,
                      NEW x \in ToSet(addSessQueue), x \in counted' \ counted,
                      ~raised
               PROVE  queue' = <<>>
    OBVIOUS
  <2>1. x \notin Listed /\ Queued \subseteq Listed
    BY DEF SessionInv, Handed
  <2>2. CASE AddSession_
    <3>1. PICK s, old, q, full, free : Adds(s, old, q, full, free)
      BY <2>2, AddSessionStep
    <3>2. ~full
      BY <2>1, <3>1 DEF Adds
    <3> QED
      BY <3>1, <3>2, DirectlyLetIn
  <2>3. ASSUME NEW a \in Accounts, RemoveClosed(a) PROVE FALSE
    <3>1. PICK s, once, twice : Removes(a, s, once, twice)
      BY <2>3, RemoveClosedStep
    <3> QED
      BY <2>1, <3>1 DEF Removes
  <2> QED
    BY <2>2, <2>3, CountedStep
<1> QED
  BY <1>1, SessionsInvariant, FullInvariant, PTL DEF Spec, NoOvertaking

\* The sessions counted against the limit are active: when sess is gone and the
\* sessions of H are in, at most so many are counted.
LEMMA PlacesTaken ==
  ASSUME SessionInv, NEW sess \in Listed, NEW H, IsFiniteSet(H),
         NEW C, C \subseteq (counted \ {sess}) \cup H
  PROVE  Cardinality(C) \in Nat /\ Cardinality(H) \in Nat /\
         Cardinality(C) <= Total(sessions) - Len(queue)
                           - (IF sess \in Queued THEN 0 ELSE 1) + Cardinality(H)
<1> DEFINE A == Listed \ Queued
           B == A \ {sess}
           T == Total(sessions)
           L == Len(queue)
<1>1. /\ IsFiniteSet(Listed) /\ Cardinality(Listed) = T /\ T \in Nat
      /\ Cardinality(Queued) = L /\ L \in Nat /\ L <= T
      /\ Queued \subseteq Listed /\ counted \subseteq A
  BY SizesOf DEF SessionInv
<1>2. IsFiniteSet(A) /\ Cardinality(A) = T - L
  <2>1. Listed \cap Queued = Queued
    BY <1>1
  <2>2. IsFiniteSet(A) /\ Cardinality(A) = Cardinality(Listed) - Cardinality(Listed \cap Queued)
    BY <1>1, FS_Difference
  <2> QED
    BY <1>1, <2>1, <2>2
<1>3. /\ IsFiniteSet(B)
      /\ Cardinality(B) = T - L - (IF sess \in Queued THEN 0 ELSE 1)
  <2>1. sess \in A <=> sess \notin Queued
    OBVIOUS
  <2> HIDE DEF A, T, L
  <2>2. /\ IsFiniteSet(B)
        /\ Cardinality(B) = IF sess \in A THEN Cardinality(A) - 1 ELSE Cardinality(A)
    BY <1>2, FS_RemoveElement
  <2> QED
    BY <1>1, <1>2, <2>1, <2>2
<1>4. C \subseteq B \cup H
  BY <1>1
<1> HIDE DEF B
<1>5. /\ IsFiniteSet(B \cup H) /\ Cardinality(B \cup H) <= Cardinality(B) + Cardinality(H)
      /\ Cardinality(B) \in Nat /\ Cardinality(H) \in Nat
  <2>1. IsFiniteSet(B \cap H) /\ Cardinality(B \cap H) \in Nat
    BY <1>3, FS_Intersection, FS_CardinalityType
  <2>2. Cardinality(B) \in Nat /\ Cardinality(H) \in Nat
    BY <1>3, FS_CardinalityType
  <2>3. /\ IsFiniteSet(B \cup H)
        /\ Cardinality(B \cup H) = Cardinality(B) + Cardinality(H) - Cardinality(B \cap H)
    BY <1>3, FS_Union
  <2> QED
    BY <2>1, <2>2, <2>3
<1>6. IsFiniteSet(C) /\ Cardinality(C) <= Cardinality(B \cup H)
  BY <1>4, <1>5, FS_Subset
<1>7. Cardinality(C) \in Nat /\ Cardinality(B \cup H) \in Nat
  BY <1>5, <1>6, FS_CardinalityType
<1> HIDE DEF T, L
<1>8. Cardinality(C) <= Cardinality(B) + Cardinality(H)
  BY <1>5, <1>6, <1>7
<1> QED
  BY <1>1, <1>3, <1>5, <1>7, <1>8 DEF T, L

\* The sessions that AddSession_ lets in fit under the limit.
LEMMA AddSessionWithin ==
  ASSUME RateNum >= RateDen, SessionInv, SessionInv', AddSession_,
         counted' \ counted # {}, limit # 0
  PROVE  Cardinality(counted') <= limit
<1>1. PICK s, old, q, full, free : Adds(s, old, q, full, free)
  BY AddSessionStep
<1> DEFINE T  == Total(sessions)
           L  == Len(queue)
           T2 == Total(sessions')
<1>2. T \in Nat /\ L \in Nat /\ L <= T /\ limit \in Nat
  BY SizesOf, WorldSessionsAssumption DEF SessionInv, TypeOK
<1>3. /\ T2 = IF old = NoSession THEN T + 1 ELSE T
      /\ IsFiniteSet(Listed') /\ T2 = Cardinality(Listed')
  BY <1>1, AddCounts
<1>4. CASE ~full
  <2>1. counted' \subseteq Listed'
    BY DEF SessionInv
  <2>2. Cardinality(counted') <= T2 /\ IsFiniteSet(counted')
    BY <1>3, <2>1, FS_Subset
  <2>3. T2 \in Nat /\ Cardinality(counted') \in Nat
    BY <1>3, <2>2, FS_CardinalityType
  <2>4. Scaled(T2) \in Nat /\ Scaled(T2) >= T2
    <3> HIDE DEF T2
    <3> QED
      BY <2>3, ScaledGrows, ScaledMonotone
  <2>5. ~(IF old # NoSession /\ old \in Queued THEN Scaled(T2) >= limit
          ELSE Scaled(T2) = 0 \/ Scaled(T2) - 1 >= limit)
    BY <1>1, <1>2, <1>4 DEF Adds, Reaches
  <2> HIDE DEF T2
  <2>6. Scaled(T2) <= limit
    BY <1>2, <2>4, <2>5
  <2> QED
    BY <1>2, <2>2, <2>3, <2>4, <2>6
<1>5. CASE full
  <2> DEFINE acc    == Accepts(QueueState, old, T)
             found  == old \in Queued
             active == Scaled(T - L)
             left   == CountLeft(QueueState, old, T)
  <2>1. counted' = (counted \cup ((Queued \ ToSet(q.queue)) \ {old})) \ {old}
    BY <1>1, <1>5 DEF Adds
  <2>2. old # NoSession
    <3>1. old = NoSession => Queued \ ToSet(q.queue) = {}
      BY <1>1 DEF Adds, Queued, QueueState
    <3> QED
      BY <2>1, <3>1
  <2>3. old \in Sessions /\ old \in Listed /\ q = RemoveQueuedPlayer(QueueState, old, T)
    BY <1>1, <2>2, ListedOf, WorldSessionsAssumption DEF Adds
  <2>4. PICK h : Queued \ ToSet(q.queue) \subseteq {old} \cup (IF acc THEN {h} ELSE {})
    <3>1. QueueOK(QueueState) /\ Queued = ToSet(QueueState.queue)
      BY QueueStateParts DEF SessionInv, Queued
    <3> HIDE DEF T
    <3> QED
      BY <2>3, <3>1, RemoveQueuedPlayerOf
  <2>5. acc
    BY <2>1, <2>4
  <2>6. counted' \subseteq (counted \ {old}) \cup {h}
    BY <2>1, <2>4
  <2>7. /\ active \in Nat
        /\ acc <=> ((limit = 0 \/ left < limit) /\ L > IF found THEN 1 ELSE 0)
        /\ left = IF found \/ active = 0 THEN active ELSE active - 1
    BY <2>3, FirstCall
  <2>8. IsFiniteSet({h}) /\ Cardinality({h}) = 1
    BY FS_Singleton
  <2>9. /\ Cardinality(counted') \in Nat
        /\ Cardinality(counted') <= T - L - (IF found THEN 0 ELSE 1) + 1
    <3>1. /\ Cardinality(counted') \in Nat
          /\ Cardinality(counted') <= T - L - (IF found THEN 0 ELSE 1) + Cardinality({h})
      BY <2>3, <2>6, <2>8, PlacesTaken
    <3> QED
      BY <2>8, <3>1
  <2>10. T - L \in Nat
    BY <1>2
  <2>11. active >= T - L
    <3> HIDE DEF T, L
    <3> QED
      BY <2>10, ScaledGrows
  <2> HIDE DEF T, L, acc, found, active, left
  <2> QED
    BY <1>2, <2>5, <2>7, <2>9, <2>10, <2>11
<1> QED
  BY <1>4, <1>5

\* The sessions that come in for one that leaves fit under the limit, although
\* RemoveQueuedPlayer runs twice.
LEMMA RemoveClosedWithin ==
  ASSUME RateNum >= RateDen, SessionInv, NEW a \in Accounts, RemoveClosed(a),
         counted' \ counted # {}, limit # 0
  PROVE  Cardinality(counted') <= limit
<1>1. PICK s, once, twice : Removes(a, s, once, twice)
  BY RemoveClosedStep
<1> DEFINE T     == Total(sessions)
           L     == Len(queue)
           L1    == Len(once.queue)
           found == s \in Queued
           acc1  == Accepts(QueueState, s, T)
           acc2  == Accepts(once, s, T)
           left1 == CountLeft(QueueState, s, T)
           left2 == CountLeft(once, s, T)
<1>2. /\ T \in Nat /\ L \in Nat /\ L <= T /\ L1 \in Nat
      /\ Scaled(T - L) \in Nat /\ Scaled(T - L1) \in Nat
      /\ acc1 <=> ((limit = 0 \/ left1 < limit) /\ L > IF found THEN 1 ELSE 0)
      /\ left1 = IF found \/ Scaled(T - L) = 0 THEN Scaled(T - L)
                 ELSE Scaled(T - L) - 1
      /\ L1 = L - (IF found THEN 1 ELSE 0) - (IF acc1 THEN 1 ELSE 0)
      /\ acc2 <=> ((limit = 0 \/ left2 < limit) /\ L1 > 0)
      /\ left2 = IF Scaled(T - L1) = 0 THEN 0 ELSE Scaled(T - L1) - 1
  BY <1>1, BothCalls
<1>3. limit \in Nat
  BY WorldSessionsAssumption DEF SessionInv, TypeOK
<1>4. PICK h1 : Queued \ ToSet(once.queue) \subseteq {s} \cup (IF acc1 THEN {h1} ELSE {})
  <2>1. /\ QueueOK(QueueState) /\ Queued = ToSet(QueueState.queue)
        /\ s \in Sessions /\ once = RemoveQueuedPlayer(QueueState, s, T)
    BY <1>1, QueueStateParts DEF SessionInv, Queued, Removes
  <2> HIDE DEF T
  <2> QED
    BY <2>1, RemoveQueuedPlayerOf
<1>5. PICK h2 : ToSet(once.queue) \ Queued' \subseteq {s} \cup (IF acc2 THEN {h2} ELSE {})
  <2>1. /\ QueueOK(once) /\ s \in Sessions
        /\ Queued' = ToSet(RemoveQueuedPlayer(once, s, T).queue)
    BY <1>1 DEF Removes
  <2> HIDE DEF T
  <2> QED
    BY <2>1, RemoveQueuedPlayerOf
<1> DEFINE H1 == IF acc1 THEN {h1} ELSE {}
           H2 == IF acc2 THEN {h2} ELSE {}
<1>6. counted' = (counted \cup ((Queued \ Queued') \ {s})) \ {s} /\ s \in Listed
  BY <1>1 DEF Removes
<1>7. counted' \subseteq (counted \ {s}) \cup (H1 \cup H2) /\ (acc1 \/ acc2)
  <2>1. (Queued \ Queued') \ {s} \subseteq H1 \cup H2
    BY <1>4, <1>5
  <2>2. ~(acc1 \/ acc2) => H1 \cup H2 = {}
    OBVIOUS
  <2> HIDE DEF H1, H2, acc1, acc2
  <2> QED
    BY <1>6, <2>1, <2>2
<1>8. /\ IsFiniteSet(H1 \cup H2) /\ Cardinality(H1 \cup H2) \in Nat
      /\ Cardinality(H1 \cup H2) <= (IF acc1 THEN 1 ELSE 0) + (IF acc2 THEN 1 ELSE 0)
  <2>1. IsFiniteSet(H1) /\ Cardinality(H1) = IF acc1 THEN 1 ELSE 0
    BY FS_Singleton, FS_EmptySet
  <2>2. IsFiniteSet(H2) /\ Cardinality(H2) = IF acc2 THEN 1 ELSE 0
    BY FS_Singleton, FS_EmptySet
  <2> HIDE DEF H1, H2, acc1, acc2
  <2>3. IsFiniteSet(H1 \cap H2) /\ Cardinality(H1 \cap H2) \in Nat
    BY <2>1, FS_Intersection, FS_CardinalityType
  <2>4. /\ IsFiniteSet(H1 \cup H2)
        /\ Cardinality(H1 \cup H2) = Cardinality(H1) + Cardinality(H2) - Cardinality(H1 \cap H2)
    BY <2>1, <2>2, FS_Union
  <2>5. Cardinality(H1 \cup H2) \in Nat
    BY <2>4, FS_CardinalityType
  <2> QED
    BY <2>1, <2>2, <2>3, <2>4, <2>5
<1> HIDE DEF H1, H2
<1>9. /\ Cardinality(counted') \in Nat
      /\ Cardinality(counted') <= T - L - (IF found THEN 0 ELSE 1) + Cardinality(H1 \cup H2)
  <2> DEFINE H == H1 \cup H2
  <2>1. s \in Listed /\ IsFiniteSet(H) /\ counted' \subseteq (counted \ {s}) \cup H
    BY <1>6, <1>7, <1>8
  <2> HIDE DEF H
  <2>2. /\ Cardinality(counted') \in Nat
        /\ Cardinality(counted') <= T - L - (IF found THEN 0 ELSE 1) + Cardinality(H)
    BY <2>1, PlacesTaken
  <2> QED
    BY <2>2 DEF H
<1> HIDE DEF T, L, L1, found, acc1, acc2, left1, left2
<1>10. T - L \in Nat /\ T - L1 \in Nat
  BY <1>2
<1>11. Scaled(T - L) >= T - L /\ Scaled(T - L1) >= T - L1
  BY <1>10, ScaledGrows
<1>12. CASE acc2
  <2>1. left2 < limit /\ left2 >= T - L1 - 1
    BY <1>2, <1>3, <1>10, <1>11, <1>12
  <2>2. T - L1 = T - L + (IF found THEN 1 ELSE 0) + (IF acc1 THEN 1 ELSE 0)
    BY <1>2
  <2>3. Cardinality(counted') <= T - L - (IF found THEN 0 ELSE 1) + (IF acc1 THEN 1 ELSE 0) + 1
    BY <1>2, <1>8, <1>9, <1>12
  <2> QED
    BY <1>2, <1>3, <1>9, <2>1, <2>2, <2>3
<1>13. CASE ~acc2
  <2>1. acc1 /\ left1 < limit
    BY <1>2, <1>3, <1>7, <1>13
  <2>2. Cardinality(counted') <= T - L - (IF found THEN 0 ELSE 1) + 1
    BY <1>2, <1>8, <1>9, <1>13, <2>1
  <2> QED
    BY <1>2, <1>3, <1>9, <1>11, <2>1, <2>2
<1> QED
  BY <1>12, <1>13

\* Letting a session in never brings the sessions counted against the limit
\* above it, for a rate of at least 1.
THEOREM LimitIsKept ==
  ASSUME RateNum >= RateDen
  PROVE  Spec => AdmissionWithinLimit
<1>1. SessionInv /\ SessionInv' /\ [Next]_vars =>
        [counted' \ counted # {} => limit' = 0 \/ Cardinality(counted') <= limit']_vars
  <2> SUFFICES ASSUME SessionInv, SessionInv', [Next]_vars,
                      counted' \ counted # {}, limit' # 0
               PROVE  Cardinality(counted') <= limit'
    OBVIOUS
  <2>1. CASE AddSession_
    <3>1. limit' = limit
      BY <2>1 DEF AddSession_
    <3> QED
      BY <2>1, <3>1, AddSessionWithin
  <2>2. ASSUME NEW a \in Accounts, RemoveClosed(a)
        PROVE  Cardinality(counted') <= limit'
    <3>1. limit' = limit
      BY <2>2 DEF RemoveClosed
    <3> QED
      BY <2>2, <3>1, RemoveClosedWithin
  <2> QED
    BY <2>1, <2>2, CountedStep
<1> QED
  BY <1>1, SessionsInvariant, PTL DEF Spec, AdmissionWithinLimit

=============================================================================
