----------------------- MODULE BattlegroundQueueProofs ----------------------
(***************************************************************************)
(* Proofs about BattlegroundQueue for any players, parties, sizes and      *)
(* number of battlegrounds.                                                *)
(***************************************************************************)
EXTENDS BattlegroundQueue, NaturalsInduction, WellFoundedInduction, FiniteSetTheorems, TLAPS

-----------------------------------------------------------------------------
(* Loops *)

\* A set of naturals that is not empty has a least element.
LEMMA LeastElement ==
  ASSUME NEW T, T \subseteq Nat, T # {}
  PROVE  \E n \in T : \A m \in T : n <= m
<1>1. IsWellFoundedOn(OpToRel(<, Nat), Nat)
  BY NatLessThanWellFounded
<1>2. PICK n \in T : \A m \in T : <<m, n>> \notin OpToRel(<, Nat)
  BY <1>1, WFMin
<1>3. \A m \in T : ~(m < n)
  BY <1>2 DEF OpToRel
<1> QED
  BY <1>3

\* What holds before a loop and is kept by every round holds at its end.
LEMMA LoopKeeps ==
  ASSUME NEW S, NEW n \in Nat, NEW f, f[0] \in S,
         \A i \in 1..n : f[i - 1] \in S => f[i] \in S
  PROVE  \A i \in 0..n : f[i] \in S
<1> DEFINE T == {i \in 0..n : f[i] \notin S}
<1>1. CASE T # {}
  <2>0. T \subseteq Nat
    OBVIOUS
  <2>1. PICK k \in T : \A m \in T : k <= m
    BY <1>1, <2>0, LeastElement
  <2>2. k \in 1..n /\ k - 1 \in 0..n /\ k - 1 \notin T
    BY <2>1
  <2> QED
    BY <2>1, <2>2
<1>2. CASE T = {}
  BY <1>2
<1> QED
  BY <1>1, <1>2

\* The rounds of a loop stay in S, and f is what they lead to from start.
Rounds(S, n, F) == \A x \in S : \A i \in 1..n : F[<<x, i>>] \in S
Run(S, start, n, F, f) ==
  f \in [0..n -> S] /\ f[0] = start /\ \A i \in 1..n : f[i] = F[<<f[i - 1], i>>]

\* A loop whose rounds stay in S has a value after each of its rounds.
LEMMA LoopExists ==
  ASSUME NEW S, NEW start \in S, NEW n \in Nat, NEW F, Rounds(S, n, F)
  PROVE  \E f : Run(S, start, n, F, f)
<1> DEFINE Upto(k) == \E f \in [0..k -> S] :
                         f[0] = start /\ \A i \in 1..k : f[i] = F[<<f[i - 1], i>>]
           T == {k \in 0..n : ~Upto(k)}
<1>1. Upto(0)
  <2> DEFINE f == [i \in 0..0 |-> start]
  <2>1. f \in [0..0 -> S] /\ f[0] = start /\ \A i \in 1..0 : f[i] = F[<<f[i - 1], i>>]
    OBVIOUS
  <2> QED
    BY <2>1
<1>2. ASSUME NEW k \in 1..n, Upto(k - 1) PROVE Upto(k)
  <2>1. PICK f \in [0..(k - 1) -> S] :
           f[0] = start /\ \A i \in 1..(k - 1) : f[i] = F[<<f[i - 1], i>>]
    BY <1>2
  <2> DEFINE e == [i \in 0..k |-> IF i = k THEN F[<<f[k - 1], k>>] ELSE f[i]]
  <2>2. f[k - 1] \in S /\ F[<<f[k - 1], k>>] \in S
    BY <2>1 DEF Rounds
  <2>3. e \in [0..k -> S] /\ e[0] = start /\ \A i \in 0..(k - 1) : e[i] = f[i]
    BY <2>1, <2>2
  <2>4. ASSUME NEW i \in 1..k PROVE e[i] = F[<<e[i - 1], i>>]
    <3>1. CASE i = k
      <4>1. e[k] = F[<<f[k - 1], k>>] /\ e[k - 1] = f[k - 1]
        BY <2>3
      <4> HIDE DEF e
      <4> QED
        BY <3>1, <4>1
    <3>2. CASE i # k
      <4>1. i \in 1..(k - 1) /\ i \in 0..(k - 1) /\ i - 1 \in 0..(k - 1)
        BY <3>2
      <4>2. e[i] = f[i] /\ e[i - 1] = f[i - 1]
        BY <2>3, <4>1
      <4> HIDE DEF e
      <4> QED
        BY <2>1, <4>1, <4>2
    <3> QED
      BY <3>1, <3>2
  <2> QED
    BY <2>3, <2>4
<1> HIDE DEF Upto
<1>3. CASE T # {}
  <2>0. T \subseteq Nat
    OBVIOUS
  <2>1. PICK k \in T : \A m \in T : k <= m
    BY <1>3, <2>0, LeastElement
  <2>2. k \in 1..n /\ k - 1 \in 0..n /\ k - 1 \notin T
    BY <1>1, <2>1
  <2> QED
    BY <1>2, <2>1, <2>2
<1>4. CASE T = {}
  <2>1. Upto(n)
    BY <1>4
  <2> QED
    BY <2>1 DEF Upto, Run
<1> QED
  BY <1>3, <1>4

-----------------------------------------------------------------------------
(* Sequences *)

\* The range of a sequence are its elements.
LEMMA RangeOf ==
  ASSUME NEW S, NEW s \in Seq(S)
  PROVE  /\ Range(s) \subseteq S /\ Len(s) \in Nat
         /\ \A x : x \in Range(s) <=> \E i \in 1..Len(s) : s[i] = x
  BY DEF Range

\* One sequence followed by another.
LEMMA ConcatOf ==
  ASSUME NEW S, NEW s \in Seq(S), NEW t \in Seq(S)
  PROVE  /\ s \o t \in Seq(S) /\ Len(s) \in Nat /\ Len(t) \in Nat
         /\ Len(s \o t) = Len(s) + Len(t)
         /\ \A i \in 1..Len(s) : (s \o t)[i] = s[i]
         /\ \A i \in 1..Len(t) : (s \o t)[Len(s) + i] = t[i]
  OBVIOUS

\* One element is erased, the others stay.
LEMMA RemoveAtOf ==
  ASSUME NEW S, NEW s \in Seq(S), NEW k \in 1..Len(s)
  PROVE  /\ RemoveAt(s, k) \in Seq(S) /\ Range(RemoveAt(s, k)) \subseteq Range(s)
         /\ \A i \in 1..Len(s) : i # k => s[i] \in Range(RemoveAt(s, k))
<1> DEFINE f == SubSeq(s, 1, k - 1)
           b == SubSeq(s, k + 1, Len(s))
           c == f \o b
<1>0. Len(s) \in Nat
  OBVIOUS
<1>1. f \in Seq(S) /\ Len(f) = k - 1 /\ \A i \in 1..(k - 1) : f[i] = s[i]
  BY <1>0
<1>2. b \in Seq(S) /\ Len(b) = Len(s) - k /\ \A i \in 1..(Len(s) - k) : b[i] = s[i + k]
  BY <1>0
<1> HIDE DEF f, b
<1>3. /\ c \in Seq(S) /\ Len(c) = Len(f) + Len(b)
      /\ \A i \in 1..Len(f) : c[i] = f[i]
      /\ \A i \in 1..Len(b) : c[Len(f) + i] = b[i]
  <2>1. f \in Seq(S) /\ b \in Seq(S)
    BY <1>1, <1>2
  <2> QED
    BY <2>1, ConcatOf
<1>4. c = RemoveAt(s, k)
  BY DEF RemoveAt, f, b
<1> HIDE DEF c
<1>5. ASSUME NEW i \in 1..Len(c) PROVE c[i] \in Range(s)
  <2>1. CASE i <= k - 1
    <3>1. i \in 1..Len(f) /\ i \in 1..(k - 1) /\ i \in 1..Len(s)
      BY <1>0, <1>1, <2>1
    <3>2. c[i] = s[i]
      BY <1>1, <1>3, <3>1
    <3> QED
      BY <3>1, <3>2, RangeOf
  <2>2. CASE ~(i <= k - 1)
    <3> DEFINE j == i - (k - 1)
    <3>1. j \in 1..Len(b) /\ j \in 1..(Len(s) - k) /\ Len(f) + j = i /\ j + k \in 1..Len(s)
      BY <1>0, <1>1, <1>2, <1>3, <2>2
    <3> HIDE DEF j
    <3>2. c[i] = s[j + k]
      BY <1>2, <1>3, <3>1
    <3> QED
      BY <3>1, <3>2, RangeOf
  <2> QED
    BY <2>1, <2>2
<1>6. ASSUME NEW i \in 1..Len(s), i # k PROVE s[i] \in Range(c)
  <2>1. CASE i <= k - 1
    <3>1. i \in 1..Len(f) /\ i \in 1..(k - 1) /\ i \in 1..Len(c)
      BY <1>0, <1>1, <1>2, <1>3, <2>1
    <3>2. c[i] = s[i]
      BY <1>1, <1>3, <3>1
    <3> QED
      BY <1>3, <3>1, <3>2, RangeOf
  <2>2. CASE ~(i <= k - 1)
    <3> DEFINE j == i - k
    <3>1. j \in 1..Len(b) /\ j \in 1..(Len(s) - k) /\ Len(f) + j \in 1..Len(c) /\ j + k = i
      BY <1>0, <1>1, <1>2, <1>3, <1>6, <2>2
    <3> HIDE DEF j
    <3>2. c[Len(f) + j] = s[i]
      BY <1>2, <1>3, <3>1
    <3> QED
      BY <1>3, <3>1, <3>2, RangeOf
  <2> QED
    BY <2>1, <2>2
<1> QED
  BY <1>3, <1>4, <1>5, <1>6, RangeOf

\* The least element of a set of positions.
LEMMA FirstPosition ==
  ASSUME NEW n \in Nat, NEW I, I \subseteq 1..n, I # {}
  PROVE  Min(I) \in I
<1>1. I \subseteq Nat
  OBVIOUS
<1>2. \E i \in I : \A m \in I : i <= m
  BY <1>1, LeastElement
<1> QED
  BY <1>2 DEF Min

\* Erasing the first occurrence of e.
LEMMA RemoveFirstOf ==
  ASSUME NEW S, NEW s \in Seq(S), NEW e
  PROVE  RemoveFirst(s, e) \in Seq(S)
<1> DEFINE I == {i \in 1..Len(s) : s[i] = e}
<1>1. CASE I = {}
  <2>1. RemoveFirst(s, e) = s
    BY <1>1 DEF RemoveFirst
  <2> QED
    BY <2>1
<1>2. CASE I # {}
  <2>1. PICK k : k = Min(I)
    OBVIOUS
  <2>0. Len(s) \in Nat /\ I \subseteq 1..Len(s)
    OBVIOUS
  <2>2. k \in I
    BY <1>2, <2>0, <2>1, FirstPosition
  <2>3. RemoveFirst(s, e) = RemoveAt(s, k)
    BY <1>2, <2>1 DEF RemoveFirst, SelectInSeq
  <2> QED
    BY <2>2, <2>3, RemoveAtOf
<1> QED
  BY <1>1, <1>2

-----------------------------------------------------------------------------
(* The inductive invariant *)

Kinds == {"premade", "normal"} \X Teams

\* A group, a battleground, a player, a timer and the lists of groups.
Entry == [members : SUBSET Players, invited : 0..MaxGrounds, left : 0..InviteTime]
Field == [status : {"free", "join", "progress", "leave"}, invited : [Teams -> 0..(Wrap - 1)],
          members : SUBSET Players, offline : Seq(Players)]
Person == [queued : BOOLEAN, invite : 0..MaxGrounds, bg : 0..MaxGrounds,
           place : {"world", "loading", "entering", "in", "offline"}]
Timer == [player : Players, bg : Grounds, left : 0..InviteTime]
Queues == [Kinds -> Seq(Entry)]

\* Player p is in a group of the queue q, and in one that is invited to b.
Member(q, p) == \E g \in GroupsIn(q) : p \in g.members
Promised(q, p, b) == \E g \in GroupsIn(q) : p \in g.members /\ g.invited = b

\* Nobody is in two groups, and a list has players of its team only.
QueueOK(q) ==
  /\ q \in Queues
  /\ \A g, h \in GroupsIn(q) : \A p \in g.members \cap h.members : g = h
  /\ \A x \in Kinds : \A g \in Range(q[x]) : \A p \in g.members : TeamOf[p] = x[2]

\* What has been deleted expects nobody.
FieldOK(gr) ==
  /\ gr \in [Grounds -> Field]
  /\ \A b \in Grounds : gr[b].status = "free" => gr[b] = NoGround

\* Who is in a battleground or on his way knows which, and why.
Seated(x) ==
  /\ x.place \in {"entering", "in"} => x.bg # 0
  /\ x.place = "entering" => x.invite = x.bg

\* Where a player is: in the queue, on his way, or on the list of the
\* battleground he remembers; who is in a group knows whether it is invited.
PlayersOK(q, gr, pl) ==
  /\ pl \in [Players -> Person]
  /\ \A p \in Players, b \in Grounds :
       p \in gr[b].members => pl[p].bg = b /\ pl[p].place \in {"in", "offline"}
  /\ \A p \in Players : Member(q, p) => pl[p].queued /\ pl[p].place \in {"world", "loading"}
  /\ \A p \in Players : Seated(pl[p])
  /\ \A g \in GroupsIn(q) : \A p \in g.members : pl[p].invite = g.invited

\* Battleground b has to reckon with player p, and with these of team t.
Expects(q, gr, pl, b, p) ==
  \/ Promised(q, p, b)
  \/ pl[p].place = "entering" /\ pl[p].bg = b
  \/ p \in gr[b].members
Reckoned(q, gr, pl, b, t) == {p \in Players : TeamOf[p] = t /\ Expects(q, gr, pl, b, p)}

\* The counter is their number, and there is room for them.
CountOK(q, gr, pl) ==
  \A b \in Grounds, t \in Teams :
     /\ gr[b].invited[t] = Cardinality(Reckoned(q, gr, pl, b, t))
     /\ gr[b].invited[t] <= MaxPlayersPerTeam

BgInv ==
  /\ QueueOK(queue) /\ FieldOK(ground)
  /\ PlayersOK(queue, ground, player) /\ CountOK(queue, ground, player)
  /\ freeQ \in Seq(Grounds) /\ timers \subseteq Timer

-----------------------------------------------------------------------------
(* Groups *)

\* The groups of a queue are those of its lists.
LEMMA GroupsOf ==
  ASSUME NEW q \in Queues
  PROVE  /\ \A g : g \in GroupsIn(q) <=> \E x \in Kinds : g \in Range(q[x])
         /\ GroupsIn(q) \subseteq Entry
         /\ \A x \in Kinds : q[x] \in Seq(Entry) /\ Range(q[x]) \subseteq Entry
<1>1. DOMAIN q = Kinds /\ \A x \in Kinds : q[x] \in Seq(Entry)
  BY DEF Queues
<1>2. \A g : g \in GroupsIn(q) <=> \E x \in Kinds : g \in Range(q[x])
  BY <1>1 DEF GroupsIn
<1>3. \A x \in Kinds : Range(q[x]) \subseteq Entry
  BY <1>1, RangeOf
<1> QED
  BY <1>1, <1>2, <1>3

\* F makes the groups of r out of groups of q, adds nobody, and lets no group
\* change sides.
MadeFrom(q, r, F) ==
  /\ \A g \in GroupsIn(q) : F[g].members \subseteq g.members
  /\ \A x \in Kinds : \A h \in Range(r[x]) :
        \E y \in Kinds : y[2] = x[2] /\ \E g \in Range(q[y]) : h = F[g]

\* Such lists are a queue again.
LEMMA Derived ==
  ASSUME NEW q, QueueOK(q), NEW r \in Queues, NEW F, MadeFrom(q, r, F)
  PROVE  QueueOK(r)
<1>1. q \in Queues
  BY DEF QueueOK
<1>2. ASSUME NEW x \in Kinds, NEW h \in Range(r[x])
      PROVE  \E g \in GroupsIn(q) : h = F[g] /\ \A p \in h.members : TeamOf[p] = x[2]
  <2>1. PICK y \in Kinds : y[2] = x[2] /\ \E g \in Range(q[y]) : h = F[g]
    BY DEF MadeFrom
  <2>2. PICK g \in Range(q[y]) : h = F[g]
    BY <2>1
  <2>3. g \in GroupsIn(q)
    BY <1>1, <2>2, GroupsOf
  <2>4. \A p \in g.members : TeamOf[p] = y[2]
    BY <2>2 DEF QueueOK
  <2> QED
    BY <2>1, <2>2, <2>3, <2>4 DEF MadeFrom
<1>3. ASSUME NEW h \in GroupsIn(r) PROVE \E g \in GroupsIn(q) : h = F[g]
  BY <1>2, GroupsOf
<1>4. ASSUME NEW h \in GroupsIn(r), NEW k \in GroupsIn(r), NEW p \in h.members \cap k.members
      PROVE  h = k
  <2>1. PICK g \in GroupsIn(q) : h = F[g]
    BY <1>3
  <2>2. PICK e \in GroupsIn(q) : k = F[e]
    BY <1>3
  <2>3. p \in g.members \cap e.members
    BY <2>1, <2>2 DEF MadeFrom
  <2>4. g = e
    BY <2>3 DEF QueueOK
  <2> QED
    BY <2>1, <2>2, <2>4
<1> QED
  BY <1>2, <1>4 DEF QueueOK

\* A group without p.
Shrunk(p) == [g \in Entry |-> [g EXCEPT !.members = @ \ {p}]]

\* What RemovePlayer does to one list.
LEMMA CutOf ==
  ASSUME NEW p, NEW s \in Seq(Entry), NEW r,
         r = RemoveFirstMatch([i \in DOMAIN s |-> [s[i] EXCEPT !.members = @ \ {p}]],
                              LAMBDA g : g.members = {})
  PROVE  /\ r \in Seq(Entry)
         /\ \A h \in Range(r) : \E g \in Range(s) : h = Shrunk(p)[g]
         /\ \A g \in Range(s) : g.members \ {p} # {} => Shrunk(p)[g] \in Range(r)
<1> DEFINE c == [i \in DOMAIN s |-> [s[i] EXCEPT !.members = @ \ {p}]]
           I == {i \in 1..Len(c) : c[i].members = {}}
<1>1. /\ c \in Seq(Entry) /\ Len(c) = Len(s) /\ Len(s) \in Nat
      /\ \A i \in 1..Len(s) : c[i] = Shrunk(p)[s[i]] /\ s[i] \in Entry
                              /\ c[i].members = s[i].members \ {p}
  <2>1. Len(s) \in Nat /\ DOMAIN s = 1..Len(s) /\ \A i \in 1..Len(s) : s[i] \in Entry
    OBVIOUS
  <2>2. \A g \in Entry : /\ [g EXCEPT !.members = @ \ {p}] \in Entry
                         /\ [g EXCEPT !.members = @ \ {p}].members = g.members \ {p}
    BY DEF Entry
  <2>3. c = [i \in 1..Len(s) |-> Shrunk(p)[s[i]]]
    BY <2>1 DEF Shrunk
  <2>4. \A g \in Entry : Shrunk(p)[g] \in Entry /\ Shrunk(p)[g].members = g.members \ {p}
    BY <2>2 DEF Shrunk
  <2> HIDE DEF c
  <2>5. c \in Seq(Entry) /\ Len(c) = Len(s)
    BY <2>1, <2>3, <2>4
  <2> QED
    BY <2>1, <2>3, <2>4, <2>5
<1>2. r = IF I # {} THEN RemoveAt(c, Min(I)) ELSE c
  <2>1. (\E i \in 1..Len(c) : c[i].members = {}) <=> I # {}
    BY Zenon
  <2>2. r = RemoveFirstMatch(c, LAMBDA g : g.members = {})
    OBVIOUS
  <2> HIDE DEF c
  <2> QED
    BY <2>1, <2>2 DEF RemoveFirstMatch, SelectInSeq
<1> HIDE DEF c
<1>3. \A h \in Range(c) : \E g \in Range(s) : h = Shrunk(p)[g]
  BY <1>1, RangeOf
<1>4. CASE I = {}
  <2>1. \A g \in Range(s) : Shrunk(p)[g] \in Range(c)
    BY <1>1, RangeOf
  <2> QED
    BY <1>1, <1>2, <1>3, <1>4, <2>1
<1>5. CASE I # {}
  <2>1. PICK k : k = Min(I)
    OBVIOUS
  <2>2. k \in I
    <3>1. I \subseteq 1..Len(s)
      BY <1>1
    <3> QED
      BY <1>1, <1>5, <2>1, <3>1, FirstPosition
  <2>3. r = RemoveAt(c, k)
    BY <1>2, <1>5, <2>1
  <2>4. /\ r \in Seq(Entry) /\ Range(r) \subseteq Range(c)
        /\ \A i \in 1..Len(c) : i # k => c[i] \in Range(r)
    <3>1. c \in Seq(Entry) /\ k \in 1..Len(c)
      BY <1>1, <2>2
    <3> QED
      BY <2>3, <3>1, RemoveAtOf
  <2>5. ASSUME NEW g \in Range(s), g.members \ {p} # {}
        PROVE  Shrunk(p)[g] \in Range(r)
    <3>1. PICK i \in 1..Len(s) : s[i] = g
      BY RangeOf
    <3>2. c[i] = Shrunk(p)[g] /\ c[i].members # {} /\ i \in 1..Len(c)
      BY <1>1, <2>5, <3>1
    <3>3. i # k
      BY <2>2, <3>2
    <3> QED
      BY <2>4, <3>2, <3>3
  <2> QED
    BY <1>3, <2>4, <2>5
<1> QED
  BY <1>4, <1>5

\* RemovePlayer takes p out of his group and changes nobody else's.
LEMMA WithoutOf ==
  ASSUME QueueOK(queue), NEW p \in Players
  PROVE  /\ QueueOK(Without(p))
         /\ \A h \in GroupsIn(Without(p)) : \E g \in GroupsIn(queue) : h = Shrunk(p)[g]
         /\ \A r \in Players : Member(Without(p), r) <=> r # p /\ Member(queue, r)
         /\ \A r \in Players : \A b : Promised(Without(p), r, b) <=> r # p /\ Promised(queue, r, b)
<1> DEFINE W == Without(p)
<1>0. queue \in Queues /\ DOMAIN queue = Kinds
  BY DEF QueueOK, Queues
<1>1. ASSUME NEW x \in Kinds
      PROVE  /\ W[x] \in Seq(Entry)
             /\ \A h \in Range(W[x]) : \E g \in Range(queue[x]) : h = Shrunk(p)[g]
             /\ \A g \in Range(queue[x]) : g.members \ {p} # {} => Shrunk(p)[g] \in Range(W[x])
  <2>1. W[x] = RemoveFirstMatch([i \in DOMAIN queue[x] |-> [queue[x][i] EXCEPT !.members = @ \ {p}]],
                                LAMBDA g : g.members = {})
    BY <1>0 DEF Without
  <2>2. queue[x] \in Seq(Entry)
    BY <1>0, GroupsOf
  <2> HIDE DEF W
  <2> QED
    BY <2>1, <2>2, CutOf
<1>2. W \in Queues
  <2>1. W = [x \in Kinds |-> W[x]]
    BY <1>0 DEF Without
  <2> HIDE DEF W
  <2> QED
    BY <1>1, <2>1 DEF Queues
<1> HIDE DEF W
<1>3. \A g \in Entry : Shrunk(p)[g].members = g.members \ {p} /\ Shrunk(p)[g].invited = g.invited
  BY DEF Shrunk, Entry
<1>4. QueueOK(W)
  <2>0. PICK F : F = Shrunk(p)
    OBVIOUS
  <2>1. \A g \in GroupsIn(queue) : F[g].members \subseteq g.members
    BY <1>0, <1>3, <2>0, GroupsOf
  <2>2. ASSUME NEW x \in Kinds, NEW h \in Range(W[x])
        PROVE  \E y \in Kinds : y[2] = x[2] /\ \E g \in Range(queue[y]) : h = F[g]
    BY <1>1, <2>0
  <2> QED
    <3>1. MadeFrom(queue, W, F)
      BY <2>1, <2>2 DEF MadeFrom
    <3> QED
      BY <1>2, <3>1, Derived
<1>5. ASSUME NEW h \in GroupsIn(W) PROVE \E g \in GroupsIn(queue) : h = Shrunk(p)[g]
  <2>1. PICK x \in Kinds : h \in Range(W[x])
    BY <1>2, GroupsOf
  <2>2. PICK g \in Range(queue[x]) : h = Shrunk(p)[g]
    BY <1>1, <2>1
  <2> QED
    BY <1>0, <2>2, GroupsOf
<1>6. \A g \in GroupsIn(queue) : g.members \ {p} # {} => Shrunk(p)[g] \in GroupsIn(W)
  BY <1>0, <1>1, <1>2, GroupsOf
<1>7. GroupsIn(queue) \subseteq Entry
  BY <1>0, GroupsOf
<1>8. ASSUME NEW r \in Players PROVE Member(W, r) <=> r # p /\ Member(queue, r)
  <2>1. ASSUME NEW h \in GroupsIn(W), r \in h.members PROVE r # p /\ Member(queue, r)
    BY <1>3, <1>5, <1>7, <2>1 DEF Member
  <2>2. ASSUME NEW g \in GroupsIn(queue), r \in g.members, r # p PROVE Member(W, r)
    BY <1>3, <1>6, <1>7, <2>2 DEF Member
  <2> QED
    BY <2>1, <2>2 DEF Member
<1>9. ASSUME NEW r \in Players, NEW b
      PROVE  Promised(W, r, b) <=> r # p /\ Promised(queue, r, b)
  <2>1. ASSUME NEW h \in GroupsIn(W), r \in h.members, h.invited = b
        PROVE  r # p /\ Promised(queue, r, b)
    BY <1>3, <1>5, <1>7, <2>1 DEF Promised
  <2>2. ASSUME NEW g \in GroupsIn(queue), r \in g.members, r # p, g.invited = b
        PROVE  Promised(W, r, b)
    BY <1>3, <1>6, <1>7, <2>2 DEF Promised
  <2> QED
    BY <2>1, <2>2 DEF Promised
<1> QED
  BY <1>4, <1>5, <1>8, <1>9 DEF W

\* Groups that change in place: their times, or their invitations.
LEMMA MappedOf ==
  ASSUME NEW q, QueueOK(q), NEW F \in [Entry -> Entry],
         \A g \in Entry : F[g].members = g.members,
         NEW r, r = [x \in Kinds |-> [i \in DOMAIN q[x] |-> F[q[x][i]]]]
  PROVE  /\ QueueOK(r)
         /\ \A h : h \in GroupsIn(r) <=> \E g \in GroupsIn(q) : h = F[g]
         /\ \A p : Member(r, p) <=> Member(q, p)
<1>0. q \in Queues
  BY DEF QueueOK
<1>1. ASSUME NEW x \in Kinds
      PROVE  /\ r[x] \in Seq(Entry)
             /\ \A h : h \in Range(r[x]) <=> \E g \in Range(q[x]) : h = F[g]
  <2>1. q[x] \in Seq(Entry)
    BY <1>0, GroupsOf
  <2> DEFINE s == q[x]
             c == r[x]
  <2>2. Len(s) \in Nat /\ DOMAIN s = 1..Len(s) /\ \A i \in 1..Len(s) : s[i] \in Entry
    BY <2>1
  <2>3. c = [i \in 1..Len(s) |-> F[s[i]]]
    BY <2>2
  <2> HIDE DEF s, c
  <2>4. c \in Seq(Entry) /\ Len(c) = Len(s)
    BY <2>2, <2>3
  <2>5. ASSUME NEW h PROVE h \in Range(c) <=> \E i \in 1..Len(s) : h = F[s[i]]
    <3>1. h \in Range(c) <=> \E i \in 1..Len(c) : c[i] = h
      BY <2>4, RangeOf
    <3>2. \A i \in 1..Len(s) : c[i] = F[s[i]]
      BY <2>2, <2>3
    <3> QED
      BY <2>4, <3>1, <3>2
  <2>6. \A g : g \in Range(s) <=> \E i \in 1..Len(s) : s[i] = g
    BY <2>1, RangeOf DEF s
  <2>7. \A h : h \in Range(c) <=> \E g \in Range(s) : h = F[g]
    BY <2>5, <2>6
  <2> QED
    BY <2>4, <2>7 DEF s, c
<1>2. r \in Queues
  BY <1>1 DEF Queues
<1>3. MadeFrom(q, r, F)
  <2>1. \A g \in GroupsIn(q) : F[g].members \subseteq g.members
    BY <1>0, GroupsOf
  <2>2. ASSUME NEW x \in Kinds, NEW h \in Range(r[x])
        PROVE  \E y \in Kinds : y[2] = x[2] /\ \E g \in Range(q[y]) : h = F[g]
    BY <1>1
  <2> QED
    BY <2>1, <2>2 DEF MadeFrom
<1>4. QueueOK(r)
  BY <1>2, <1>3, Derived
<1>5. \A h : h \in GroupsIn(r) <=> \E x \in Kinds : h \in Range(r[x])
  BY <1>2, GroupsOf
<1>6. \A h : h \in GroupsIn(q) <=> \E x \in Kinds : h \in Range(q[x])
  BY <1>0, GroupsOf
<1>7. \A h : h \in GroupsIn(r) <=> \E g \in GroupsIn(q) : h = F[g]
  <2>1. ASSUME NEW h \in GroupsIn(r) PROVE \E g \in GroupsIn(q) : h = F[g]
    <3>1. PICK x \in Kinds : h \in Range(r[x])
      BY <1>5
    <3>2. PICK g \in Range(q[x]) : h = F[g]
      BY <1>1, <3>1
    <3> QED
      BY <1>6, <3>2
  <2>2. ASSUME NEW g \in GroupsIn(q) PROVE F[g] \in GroupsIn(r)
    BY <1>1, <1>5, <1>6
  <2> QED
    BY <2>1, <2>2
<1>8. \A p : Member(r, p) <=> Member(q, p)
  <2>1. GroupsIn(q) \subseteq Entry
    BY <1>0, GroupsOf
  <2>2. ASSUME NEW p, NEW h \in GroupsIn(r), p \in h.members PROVE Member(q, p)
    BY <1>7, <2>1, <2>2 DEF Member
  <2>3. ASSUME NEW p, NEW g \in GroupsIn(q), p \in g.members PROVE Member(r, p)
    BY <1>7, <2>1, <2>3 DEF Member
  <2> QED
    BY <2>2, <2>3 DEF Member
<1> QED
  BY <1>4, <1>7, <1>8

\* A new group at the end of a list.
LEMMA JoinedOf ==
  ASSUME QueueOK(queue), NEW x \in Kinds, NEW g \in Entry,
         \A p \in g.members : TeamOf[p] = x[2] /\ ~Member(queue, p),
         NEW r, r = [queue EXCEPT ![x] = Append(@, g)]
  PROVE  QueueOK(r) /\ GroupsIn(r) = GroupsIn(queue) \cup {g}
<1>0. queue \in Queues /\ \A y \in Kinds : queue[y] \in Seq(Entry)
  BY GroupsOf DEF QueueOK
<1>1. r[x] = Append(queue[x], g) /\ \A y \in Kinds : y # x => r[y] = queue[y]
  BY <1>0 DEF Queues
<1>2. Append(queue[x], g) \in Seq(Entry) /\ Range(Append(queue[x], g)) = Range(queue[x]) \cup {g}
  <2> DEFINE s == queue[x]
             a == Append(s, g)
  <2>1. s \in Seq(Entry) /\ Len(s) \in Nat
    BY <1>0
  <2> HIDE DEF s
  <2>2. /\ a \in Seq(Entry) /\ Len(a) = Len(s) + 1
        /\ \A i \in 1..Len(s) : a[i] = s[i]
        /\ a[Len(s) + 1] = g
    BY <2>1
  <2> HIDE DEF a
  <2>3. ASSUME NEW h PROVE h \in Range(a) <=> h \in Range(s) \/ h = g
    <3>1. h \in Range(a) <=> \E i \in 1..Len(a) : a[i] = h
      BY <2>2, RangeOf
    <3>2. h \in Range(s) <=> \E i \in 1..Len(s) : s[i] = h
      BY <2>1, RangeOf
    <3>3. \A i : i \in 1..Len(a) <=> i \in 1..Len(s) \/ i = Len(s) + 1
      BY <2>1, <2>2
    <3> QED
      BY <2>2, <3>1, <3>2, <3>3
  <2> QED
    BY <2>2, <2>3 DEF s, a
<1>3. r \in Queues
  BY <1>0, <1>1, <1>2 DEF Queues
<1>4. GroupsIn(r) = GroupsIn(queue) \cup {g}
  <2>1. \A h : h \in GroupsIn(r) <=> \E y \in Kinds : h \in Range(r[y])
    BY <1>3, GroupsOf
  <2>2. \A h : h \in GroupsIn(queue) <=> \E y \in Kinds : h \in Range(queue[y])
    BY <1>0, GroupsOf
  <2>3. ASSUME NEW h \in GroupsIn(r) PROVE h \in GroupsIn(queue) \cup {g}
    BY <1>1, <1>2, <2>1, <2>2
  <2>4. ASSUME NEW h \in GroupsIn(queue) \cup {g} PROVE h \in GroupsIn(r)
    BY <1>1, <1>2, <2>1, <2>2
  <2> QED
    BY <2>3, <2>4
<1>5. ASSUME NEW h \in GroupsIn(r), NEW k \in GroupsIn(r), NEW p \in h.members \cap k.members
      PROVE  h = k
  <2>1. CASE h \in GroupsIn(queue) /\ k \in GroupsIn(queue)
    BY <2>1 DEF QueueOK
  <2>2. CASE h = g /\ k = g
    BY <2>2
  <2>3. CASE h = g /\ k \in GroupsIn(queue)
    BY <2>3 DEF Member
  <2>4. CASE k = g /\ h \in GroupsIn(queue)
    BY <2>4 DEF Member
  <2> QED
    BY <1>4, <2>1, <2>2, <2>3, <2>4
<1>6. ASSUME NEW y \in Kinds, NEW h \in Range(r[y]), NEW p \in h.members
      PROVE  TeamOf[p] = y[2]
  <2>1. CASE h \in Range(queue[y])
    BY <2>1 DEF QueueOK
  <2>2. CASE h \notin Range(queue[y])
    BY <1>1, <1>2, <2>2
  <2> QED
    BY <2>1, <2>2
<1> QED
  BY <1>3, <1>4, <1>5, <1>6 DEF QueueOK

\* Who is in the queue, in the words of the model.
LEMMA QueuedOf ==
  ASSUME QueueOK(queue), NEW p
  PROVE  /\ Queued(p) <=> Member(queue, p)
         /\ \A b : Invited(p, b) <=> Promised(queue, p, b)
         /\ Queued(p) => GroupOf(p) \in GroupsIn(queue) /\ p \in GroupOf(p).members
         /\ \A g \in GroupsIn(queue) : p \in g.members => g = GroupOf(p)
<1>1. Queued(p) <=> Member(queue, p)
  BY DEF Queued, Member
<1>2. Queued(p) => GroupOf(p) \in GroupsIn(queue) /\ p \in GroupOf(p).members
  BY DEF Queued, GroupOf
<1>3. ASSUME NEW g \in GroupsIn(queue), p \in g.members PROVE g = GroupOf(p)
  <2>1. GroupOf(p) \in GroupsIn(queue) /\ p \in GroupOf(p).members
    BY <1>2, <1>3 DEF Queued
  <2> QED
    BY <1>3, <2>1 DEF QueueOK
<1>4. \A b : Invited(p, b) <=> Promised(queue, p, b)
  BY <1>2, <1>3 DEF Invited, Promised, Queued
<1> QED
  BY <1>1, <1>2, <1>3, <1>4

-----------------------------------------------------------------------------
(* Counting *)

\* Sets of players are finite, and none is larger than the counter.
LEMMA PlayersFinite ==
  ASSUME NEW S, S \subseteq Players
  PROVE  IsFiniteSet(S) /\ Cardinality(S) \in Nat /\ Cardinality(S) < Wrap
<1>1. IsFiniteSet(Players) /\ Cardinality(Players) \in Nat
  BY TeamsAssumption, FS_CardinalityType
<1>2. IsFiniteSet(S) /\ Cardinality(S) <= Cardinality(Players)
  BY <1>1, FS_Subset
<1>3. Cardinality(S) \in Nat
  BY <1>2, FS_CardinalityType
<1> QED
  BY <1>1, <1>2, <1>3, SizesAssumption

\* A number below the bound is not changed by wrapping around.
LEMMA NoWrap ==
  ASSUME NEW n \in Nat, n < Wrap
  PROVE  n % Wrap = n
  BY SizesAssumption

\* Taking S out of the sets and its size off the counter.
LEMMA CountLess ==
  ASSUME NEW A, A \subseteq Players, NEW S, S \subseteq Players, NEW t \in Teams,
         {p \in S : TeamOf[p] = t} \subseteq A
  PROVE  Cardinality(A \ {p \in S : TeamOf[p] = t}) = (Cardinality(A) - Size(S, t)) % Wrap
<1> DEFINE B == {p \in S : TeamOf[p] = t}
<1>1. IsFiniteSet(A) /\ Cardinality(A) \in Nat /\ Cardinality(A) < Wrap
  BY PlayersFinite
<1>2. IsFiniteSet(B) /\ Cardinality(B) \in Nat
  BY PlayersFinite
<1>3. A \cap B = B /\ Size(S, t) = Cardinality(B)
  BY DEF Size
<1> HIDE DEF B
<1>4. Cardinality(A \ B) = Cardinality(A) - Cardinality(A \cap B) /\ IsFiniteSet(A \ B)
  BY <1>1, FS_Difference
<1>5. Cardinality(A \ B) \in Nat
  BY <1>4, FS_CardinalityType
<1>6. Cardinality(A \cap B) = Cardinality(B)
  BY <1>3, Zenon
<1>7. Cardinality(A \ B) = Cardinality(A) - Size(S, t) /\ Cardinality(A \ B) < Wrap
  <2>1. Cardinality(A \ B) = Cardinality(A) - Cardinality(B)
    BY <1>4, <1>6, Zenon
  <2> QED
    BY <1>1, <1>2, <1>3, <2>1, SizesAssumption
<1> QED
  BY <1>5, <1>7, NoWrap DEF B

\* Adding S, which was not there before.
LEMMA CountMore ==
  ASSUME NEW A, A \subseteq Players, NEW S, S \subseteq Players, NEW t \in Teams,
         A \cap S = {}
  PROVE  /\ Cardinality(A \cup {p \in S : TeamOf[p] = t}) = Cardinality(A) + Size(S, t)
         /\ Cardinality(A \cup {p \in S : TeamOf[p] = t}) = (Cardinality(A) + Size(S, t)) % Wrap
<1> DEFINE B == {p \in S : TeamOf[p] = t}
<1>1. IsFiniteSet(A) /\ Cardinality(A) \in Nat
  BY PlayersFinite
<1>2. IsFiniteSet(B) /\ Cardinality(B) \in Nat
  BY PlayersFinite
<1>3. A \cap B = {} /\ Size(S, t) = Cardinality(B) /\ A \cup B \subseteq Players
  BY DEF Size
<1> HIDE DEF B
<1>4. Cardinality(A \cup B) = Cardinality(A) + Cardinality(B) - Cardinality(A \cap B)
  BY <1>1, <1>2, FS_Union
<1>5. Cardinality({}) = 0
  BY FS_EmptySet
<1>6. Cardinality(A \cup B) \in Nat /\ Cardinality(A \cup B) < Wrap
  BY <1>3, PlayersFinite
<1>7. Cardinality(A \cup B) = Cardinality(A) + Cardinality(B)
  <2>1. Cardinality(A \cap B) = 0
    BY <1>3, <1>5, Zenon
  <2> QED
    BY <1>1, <1>2, <1>4, <2>1
<1> QED
  BY <1>3, <1>6, <1>7, NoWrap DEF B

\* Nobody comes and nobody goes, here by step and there by name.
LEMMA CountSame ==
  ASSUME NEW q, NEW gr, NEW pl, CountOK(q, gr, pl), NEW q2, NEW gr2, NEW pl2,
         \A b \in Grounds, t \in Teams : gr2[b].invited[t] = gr[b].invited[t],
         \A b \in Grounds, p \in Players : Expects(q2, gr2, pl2, b, p) <=> Expects(q, gr, pl, b, p)
  PROVE  CountOK(q2, gr2, pl2)
<1>1. ASSUME NEW b \in Grounds, NEW t \in Teams
      PROVE  Reckoned(q2, gr2, pl2, b, t) = Reckoned(q, gr, pl, b, t)
  BY DEF Reckoned
<1> QED
  BY <1>1 DEF CountOK

\* Battleground c no longer reckons with the players of S.
Drops(q, gr, pl, q2, gr2, pl2, c, S) ==
  /\ \A t \in Teams : gr2[c].invited[t] = (gr[c].invited[t] - Size(S, t)) % Wrap
  /\ \A p \in S : Expects(q, gr, pl, c, p)
  /\ \A p \in Players : Expects(q2, gr2, pl2, c, p) <=> Expects(q, gr, pl, c, p) /\ p \notin S
  /\ \A b \in Grounds \ {c} : \A t \in Teams : gr2[b].invited[t] = gr[b].invited[t]
  /\ \A b \in Grounds \ {c} : \A p \in Players :
        Expects(q2, gr2, pl2, b, p) <=> Expects(q, gr, pl, b, p)

\* Then its counter is right again.
LEMMA CountDropped ==
  ASSUME NEW q, NEW gr, NEW pl, CountOK(q, gr, pl), NEW q2, NEW gr2, NEW pl2,
         NEW c \in Grounds, NEW S, S \subseteq Players, Drops(q, gr, pl, q2, gr2, pl2, c, S)
  PROVE  CountOK(q2, gr2, pl2)
<1>1. ASSUME NEW t \in Teams
      PROVE  /\ gr2[c].invited[t] = Cardinality(Reckoned(q2, gr2, pl2, c, t))
             /\ gr2[c].invited[t] <= MaxPlayersPerTeam
  <2> DEFINE A == Reckoned(q, gr, pl, c, t)
             B == {p \in S : TeamOf[p] = t}
             R == Reckoned(q2, gr2, pl2, c, t)
  <2>1. A \subseteq Players /\ B \subseteq A
    BY DEF Reckoned, Drops
  <2>2. R = A \ B
    BY DEF Reckoned, Drops
  <2>3. gr[c].invited[t] = Cardinality(A) /\ gr[c].invited[t] <= MaxPlayersPerTeam
    BY DEF CountOK
  <2>4. gr2[c].invited[t] = (gr[c].invited[t] - Size(S, t)) % Wrap
    BY DEF Drops
  <2> HIDE DEF A, R
  <2>5. Cardinality(A \ B) = (Cardinality(A) - Size(S, t)) % Wrap
    BY <2>1, CountLess
  <2> HIDE DEF B
  <2>6. gr2[c].invited[t] = Cardinality(R)
    BY <2>2, <2>3, <2>4, <2>5
  <2>7. IsFiniteSet(A) /\ Cardinality(A) \in Nat
    BY <2>1, PlayersFinite
  <2>8. Cardinality(R) <= Cardinality(A) /\ Cardinality(R) \in Nat
    <3>1. R \subseteq A /\ R \subseteq Players
      BY <2>1, <2>2
    <3> QED
      BY <2>7, <3>1, FS_Subset, PlayersFinite
  <2> QED
    BY <2>3, <2>6, <2>7, <2>8, SizesAssumption DEF R
<1>2. ASSUME NEW b \in Grounds \ {c}, NEW t \in Teams
      PROVE  /\ gr2[b].invited[t] = Cardinality(Reckoned(q2, gr2, pl2, b, t))
             /\ gr2[b].invited[t] <= MaxPlayersPerTeam
  <2>1. Reckoned(q2, gr2, pl2, b, t) = Reckoned(q, gr, pl, b, t)
    BY DEF Reckoned, Drops
  <2> QED
    BY <2>1 DEF CountOK, Drops
<1> QED
  BY <1>1, <1>2 DEF CountOK

\* Battleground c reckons with the players of S from now on.
Adds(q, gr, pl, q2, gr2, pl2, c, S) ==
  /\ \A t \in Teams : /\ gr2[c].invited[t] = (gr[c].invited[t] + Size(S, t)) % Wrap
                      /\ gr[c].invited[t] + Size(S, t) <= MaxPlayersPerTeam
  /\ \A p \in S : ~Expects(q, gr, pl, c, p)
  /\ \A p \in Players : Expects(q2, gr2, pl2, c, p) <=> Expects(q, gr, pl, c, p) \/ p \in S
  /\ \A b \in Grounds \ {c} : \A t \in Teams : gr2[b].invited[t] = gr[b].invited[t]
  /\ \A b \in Grounds \ {c} : \A p \in Players :
        Expects(q2, gr2, pl2, b, p) <=> Expects(q, gr, pl, b, p)

\* Then its counter is right again.
LEMMA CountAdded ==
  ASSUME NEW q, NEW gr, NEW pl, CountOK(q, gr, pl), NEW q2, NEW gr2, NEW pl2,
         NEW c \in Grounds, NEW S, S \subseteq Players, Adds(q, gr, pl, q2, gr2, pl2, c, S)
  PROVE  CountOK(q2, gr2, pl2)
<1>1. ASSUME NEW t \in Teams
      PROVE  /\ gr2[c].invited[t] = Cardinality(Reckoned(q2, gr2, pl2, c, t))
             /\ gr2[c].invited[t] <= MaxPlayersPerTeam
  <2> DEFINE A == Reckoned(q, gr, pl, c, t)
             B == {p \in S : TeamOf[p] = t}
             R == Reckoned(q2, gr2, pl2, c, t)
  <2>1. A \subseteq Players /\ A \cap S = {}
    BY DEF Reckoned, Adds
  <2>2. R = A \cup B
    BY DEF Reckoned, Adds
  <2>3. gr[c].invited[t] = Cardinality(A)
    BY DEF CountOK
  <2>4. /\ gr2[c].invited[t] = (gr[c].invited[t] + Size(S, t)) % Wrap
        /\ gr[c].invited[t] + Size(S, t) <= MaxPlayersPerTeam
    BY DEF Adds
  <2> HIDE DEF A, R
  <2>5. /\ Cardinality(A \cup B) = (Cardinality(A) + Size(S, t)) % Wrap
        /\ Cardinality(A \cup B) = Cardinality(A) + Size(S, t)
    BY <2>1, CountMore
  <2> HIDE DEF B
  <2> QED
    BY <2>2, <2>3, <2>4, <2>5 DEF R
<1>2. ASSUME NEW b \in Grounds \ {c}, NEW t \in Teams
      PROVE  /\ gr2[b].invited[t] = Cardinality(Reckoned(q2, gr2, pl2, b, t))
             /\ gr2[b].invited[t] <= MaxPlayersPerTeam
  <2>1. Reckoned(q2, gr2, pl2, b, t) = Reckoned(q, gr, pl, b, t)
    BY DEF Reckoned, Adds
  <2> QED
    BY <2>1 DEF CountOK, Adds
<1> QED
  BY <1>1, <1>2 DEF CountOK

\* The size of a single player.
LEMMA SizeOfOne ==
  ASSUME NEW p \in Players, NEW t \in Teams
  PROVE  Size({p}, t) = IF TeamOf[p] = t THEN 1 ELSE 0
<1>1. CASE TeamOf[p] = t
  <2>1. {r \in {p} : TeamOf[r] = t} = {p}
    BY <1>1
  <2>2. Cardinality({p}) = 1
    BY FS_Singleton
  <2> QED
    BY <1>1, <2>1, <2>2, Zenon DEF Size
<1>2. CASE TeamOf[p] # t
  <2>1. {r \in {p} : TeamOf[r] = t} = {}
    BY <1>2
  <2>2. Cardinality({}) = 0
    BY FS_EmptySet
  <2> QED
    BY <1>2, <2>1, <2>2, Zenon DEF Size
<1> QED
  BY <1>1, <1>2

\* DecreaseInvitedCount for one player.
LEMMA DecreasedOf ==
  ASSUME NEW g \in Field, NEW p \in Players
  PROVE  /\ DecreaseInvitedCount(g, TeamOf[p], 1) \in Field
         /\ DecreaseInvitedCount(g, TeamOf[p], 1).members = g.members
         /\ DecreaseInvitedCount(g, TeamOf[p], 1).status = g.status
         /\ \A t \in Teams : DecreaseInvitedCount(g, TeamOf[p], 1).invited[t] =
                               (g.invited[t] - Size({p}, t)) % Wrap
<1> DEFINE d == DecreaseInvitedCount(g, TeamOf[p], 1)
           n == (g.invited[TeamOf[p]] - 1) % Wrap
<1>1. TeamOf[p] \in Teams /\ \A t \in Teams : g.invited[t] \in 0..(Wrap - 1)
  BY TeamsAssumption DEF Field
<1>2. n \in 0..(Wrap - 1)
  <2>1. Wrap \in Nat \ {0} /\ g.invited[TeamOf[p]] - 1 \in Int
    BY <1>1, SizesAssumption
  <2> QED
    BY <2>1
<1>3. d = [g EXCEPT !.invited = [@ EXCEPT ![TeamOf[p]] = n]]
  BY DEF DecreaseInvitedCount, Field
<1> HIDE DEF n, d
<1>4. /\ d \in Field /\ d.members = g.members /\ d.status = g.status
      /\ d.invited = [g.invited EXCEPT ![TeamOf[p]] = n]
  BY <1>2, <1>3 DEF Field
<1>5. ASSUME NEW t \in Teams PROVE d.invited[t] = (g.invited[t] - Size({p}, t)) % Wrap
  <2>1. CASE TeamOf[p] = t
    BY <1>4, <2>1, SizeOfOne DEF n, Field
  <2>2. CASE TeamOf[p] # t
    <3>1. d.invited[t] = g.invited[t] /\ Size({p}, t) = 0
      BY <1>4, <2>2, SizeOfOne DEF Field
    <3>2. g.invited[t] - 0 = g.invited[t] /\ g.invited[t] \in Nat /\ g.invited[t] < Wrap
      BY <1>1, SizesAssumption
    <3> QED
      BY <3>1, <3>2, NoWrap
  <2> QED
    BY <2>1, <2>2
<1> QED
  BY <1>4, <1>5 DEF d

\* Somebody is promised a place only where there is a battleground.
LEMMA NotFree ==
  ASSUME FieldOK(ground), CountOK(queue, ground, player), NEW b \in Grounds,
         NEW p \in Players, Expects(queue, ground, player, b, p)
  PROVE  ground[b].status # "free"
<1> SUFFICES ASSUME ground[b].status = "free" PROVE FALSE
  OBVIOUS
<1> DEFINE t == TeamOf[p]
           R == Reckoned(queue, ground, player, b, t)
<1>1. t \in Teams /\ p \in R /\ R \subseteq Players
  BY TeamsAssumption DEF Reckoned
<1>2. ground[b] = NoGround
  BY DEF FieldOK
<1>3. ground[b].invited[t] = 0
  BY <1>1, <1>2 DEF NoGround
<1>4. Cardinality(R) = 0
  BY <1>1, <1>3 DEF CountOK
<1> HIDE DEF R
<1>5. R = {}
  BY <1>1, <1>4, PlayersFinite, FS_EmptySet
<1> QED
  BY <1>1, <1>5

-----------------------------------------------------------------------------
(* The packet handlers *)

\* The changes that handlers make to a player.
LEMMA PersonOf ==
  ASSUME NEW x \in Person
  PROVE  /\ [x EXCEPT !.queued = TRUE, !.invite = 0] \in Person
         /\ [x EXCEPT !.queued = TRUE, !.invite = 0].queued
         /\ [x EXCEPT !.queued = TRUE, !.invite = 0].invite = 0
         /\ [x EXCEPT !.queued = TRUE, !.invite = 0].bg = x.bg
         /\ [x EXCEPT !.queued = TRUE, !.invite = 0].place = x.place
         /\ [x EXCEPT !.queued = FALSE, !.invite = 0] \in Person
         /\ [x EXCEPT !.queued = FALSE, !.invite = 0].place = x.place
         /\ \A n \in 0..MaxGrounds : [x EXCEPT !.invite = n] \in Person
         /\ \A b \in Grounds : [x EXCEPT !.bg = b, !.place = "entering"] \in Person
<1>0. 0 \in 0..MaxGrounds /\ Grounds \subseteq 0..MaxGrounds
  BY SizesAssumption DEF Grounds
<1>1. [x EXCEPT !.queued = TRUE, !.invite = 0] \in Person
  BY <1>0 DEF Person
<1>2. [x EXCEPT !.queued = TRUE, !.invite = 0].queued
  BY DEF Person
<1>3. /\ [x EXCEPT !.queued = TRUE, !.invite = 0].invite = 0
      /\ [x EXCEPT !.queued = TRUE, !.invite = 0].bg = x.bg
      /\ [x EXCEPT !.queued = TRUE, !.invite = 0].place = x.place
      /\ [x EXCEPT !.queued = FALSE, !.invite = 0].place = x.place
  BY DEF Person
<1>4. [x EXCEPT !.queued = FALSE, !.invite = 0] \in Person
  BY <1>0 DEF Person
<1>5. ASSUME NEW n \in 0..MaxGrounds PROVE [x EXCEPT !.invite = n] \in Person
  BY DEF Person
<1>6. ASSUME NEW b \in Grounds PROVE [x EXCEPT !.bg = b, !.place = "entering"] \in Person
  <2>1. b \in 0..MaxGrounds
    BY <1>0
  <2> QED
    BY <2>1 DEF Person
<1> QED
  BY <1>1, <1>2, <1>3, <1>4, <1>5, <1>6

\* Somebody in the queue is taken out of it and struck off: he refuses, logs
\* out or has run out of time.
LEMMA RemovedOf ==
  ASSUME BgInv, NEW p \in Players, Queued(p), RemovePlayer(p, TRUE),
         NEW pl \in [Players -> Person], pl[p].place \notin {"entering", "in"},
         \A r \in Players \ {p} : pl[r] = player[r]
  PROVE  /\ QueueOK(queue') /\ FieldOK(ground')
         /\ PlayersOK(queue', ground', pl) /\ CountOK(queue', ground', pl)
<1> DEFINE g == GroupOf(p)
           c == g.invited
<1>0. QueueOK(queue) /\ FieldOK(ground) /\ PlayersOK(queue, ground, player)
      /\ CountOK(queue, ground, player)
  BY DEF BgInv
<1>1. g \in GroupsIn(queue) /\ p \in g.members /\ Member(queue, p)
  BY <1>0, QueuedOf
<1>2. g \in Entry /\ c \in 0..MaxGrounds
  <2>1. g \in Entry
    BY <1>0, <1>1, GroupsOf DEF QueueOK
  <2> QED
    BY <2>1 DEF Entry
<1>3. queue' = Without(p)
  BY DEF RemovePlayer
<1>4. /\ QueueOK(queue')
      /\ \A h \in GroupsIn(queue') : \E e \in GroupsIn(queue) : h = Shrunk(p)[e]
      /\ \A r \in Players : Member(queue', r) <=> r # p /\ Member(queue, r)
      /\ \A r \in Players : \A b : Promised(queue', r, b) <=> r # p /\ Promised(queue, r, b)
  BY <1>0, <1>3, WithoutOf
<1>5. \A b : Promised(queue, p, b) <=> b = c
  BY <1>0, <1>1, QueuedOf DEF Promised
<1>6. \A b \in Grounds : p \notin ground[b].members
  BY <1>0, <1>1 DEF PlayersOK
<1>7. player[p].place # "entering"
  BY <1>0, <1>1 DEF PlayersOK
<1>8. c # 0 => c \in Grounds /\ ground[c].status # "free"
  <2>1. c # 0 => c \in Grounds /\ Expects(queue, ground, player, c, p)
    BY <1>2, <1>5, SizesAssumption DEF Grounds, Expects
  <2> QED
    BY <1>0, <2>1, NotFree
<1>9. ground \in [Grounds -> Field]
  BY <1>0 DEF FieldOK
<1>10. /\ ground' \in [Grounds -> Field]
       /\ \A b \in Grounds : ground'[b].members = ground[b].members
                             /\ ground'[b].status = ground[b].status
       /\ \A b \in Grounds : b # c => ground'[b] = ground[b]
       /\ c # 0 => \A t \in Teams : ground'[c].invited[t] =
                                      (ground[c].invited[t] - Size({p}, t)) % Wrap
  <2>1. CASE c = 0
    <3>1. ground' = ground
      BY <2>1 DEF RemovePlayer
    <3> QED
      BY <1>9, <2>1, <3>1
  <2>2. CASE c # 0
    <3> DEFINE d == DecreaseInvitedCount(ground[c], TeamOf[p], 1)
    <3>1. ground' = [ground EXCEPT ![c] = d]
      BY <1>8, <2>2 DEF RemovePlayer
    <3>2. /\ d \in Field /\ d.members = ground[c].members /\ d.status = ground[c].status
          /\ \A t \in Teams : d.invited[t] = (ground[c].invited[t] - Size({p}, t)) % Wrap
      BY <1>8, <1>9, <2>2, DecreasedOf
    <3> HIDE DEF d
    <3>3. ground'[c] = d /\ \A b \in Grounds \ {c} : ground'[b] = ground[b]
      BY <1>8, <1>9, <2>2, <3>1
    <3>4. ground' \in [Grounds -> Field]
      BY <1>9, <3>1, <3>2
    <3> QED
      BY <3>2, <3>3, <3>4
  <2> QED
    BY <2>1, <2>2
<1> HIDE DEF g, c
<1>11. FieldOK(ground')
  <2>1. \A b \in Grounds : ground'[b].status = "free" => ground'[b] = NoGround
    <3>1. ASSUME NEW b \in Grounds, ground'[b].status = "free" PROVE ground'[b] = NoGround
      <4>1. ground[b].status = "free"
        BY <1>10, <3>1
      <4>2. b # c
        BY <1>8, <4>1, SizesAssumption DEF Grounds
      <4> QED
        BY <1>0, <1>10, <4>1, <4>2 DEF FieldOK
    <3> QED
      BY <3>1
  <2> QED
    BY <1>10, <2>1 DEF FieldOK
<1>12. ASSUME NEW b \in Grounds, NEW r \in Players
       PROVE  Expects(queue', ground', pl, b, r) <=>
                Expects(queue, ground, player, b, r) /\ ~(r = p /\ b = c)
  <2>1. CASE r = p
    BY <1>4, <1>5, <1>6, <1>7, <1>10, <2>1 DEF Expects
  <2>2. CASE r # p
    <3>1. pl[r] = player[r]
      BY <2>2
    <3> QED
      BY <1>4, <1>10, <2>2, <3>1 DEF Expects
  <2> QED
    BY <2>1, <2>2
<1>13. CountOK(queue', ground', pl)
  <2>1. CASE c = 0
    <3>1. \A b \in Grounds : b # c
      BY <2>1 DEF Grounds
    <3> QED
      BY <1>0, <1>10, <1>12, <3>1, CountSame
  <2>2. CASE c # 0
    <3>1. Expects(queue, ground, player, c, p)
      BY <1>5 DEF Expects
    <3>2. Drops(queue, ground, player, queue', ground', pl, c, {p})
      BY <1>8, <1>10, <1>12, <2>2, <3>1 DEF Drops
    <3>3. c \in Grounds /\ {p} \subseteq Players
      BY <1>8, <2>2
    <3> QED
      BY <1>0, <3>2, <3>3, CountDropped
  <2> QED
    BY <2>1, <2>2
<1>14. PlayersOK(queue', ground', pl)
  <2>1. ASSUME NEW r \in Players, NEW b \in Grounds, r \in ground'[b].members
        PROVE  pl[r].bg = b /\ pl[r].place \in {"in", "offline"}
    <3>1. r \in ground[b].members /\ r # p
      BY <1>6, <1>10, <2>1
    <3>2. pl[r] = player[r]
      BY <3>1
    <3> QED
      BY <1>0, <3>1, <3>2 DEF PlayersOK
  <2>2. ASSUME NEW r \in Players, Member(queue', r)
        PROVE  pl[r].queued /\ pl[r].place \in {"world", "loading"}
    <3>1. Member(queue, r) /\ pl[r] = player[r]
      BY <1>4, <2>2
    <3> QED
      BY <1>0, <3>1 DEF PlayersOK
  <2>3. ASSUME NEW r \in Players PROVE Seated(pl[r])
    <3>1. CASE r = p
      BY <3>1 DEF Seated
    <3>2. CASE r # p
      BY <1>0, <3>2 DEF PlayersOK
    <3> QED
      BY <3>1, <3>2
  <2>4. ASSUME NEW h \in GroupsIn(queue'), NEW r \in h.members
        PROVE  pl[r].invite = h.invited
    <3>1. PICK e \in GroupsIn(queue) : h = Shrunk(p)[e]
      BY <1>4
    <3>2. e \in Entry
      BY <1>0, <3>1, GroupsOf DEF QueueOK
    <3>3. r \in e.members /\ r # p /\ h.invited = e.invited /\ r \in Players
      BY <3>1, <3>2 DEF Shrunk, Entry
    <3>4. pl[r] = player[r]
      BY <3>3
    <3> QED
      BY <1>0, <3>3, <3>4 DEF PlayersOK
  <2> QED
    BY <2>1, <2>2, <2>3, <2>4 DEF PlayersOK
<1> QED
  BY <1>4, <1>11, <1>13, <1>14

\* What a step may do to one player, and to the lists he is on, without a
\* change of the queue or of a counter.
Moves(p, gr, pl) ==
  /\ pl \in [Players -> Person]
  /\ \A r \in Players \ {p} : pl[r] = player[r]
  /\ \A b \in Grounds, t \in Teams : gr[b].invited[t] = ground[b].invited[t]
  /\ \A b \in Grounds, r \in Players \ {p} : r \in gr[b].members <=> r \in ground[b].members
  /\ \A b \in Grounds : Expects(queue, gr, pl, b, p) <=> Expects(queue, ground, player, b, p)
  /\ \A b \in Grounds : p \in gr[b].members => pl[p].bg = b /\ pl[p].place \in {"in", "offline"}
  /\ Member(queue, p) => /\ pl[p].queued /\ pl[p].place \in {"world", "loading"}
                         /\ pl[p].invite = player[p].invite
  /\ Seated(pl[p])

\* Such a step keeps the invariant.
LEMMA MovedOf ==
  ASSUME BgInv, NEW p \in Players, NEW gr, NEW pl, Moves(p, gr, pl)
  PROVE  PlayersOK(queue, gr, pl) /\ CountOK(queue, gr, pl)
<1>0. QueueOK(queue) /\ PlayersOK(queue, ground, player) /\ CountOK(queue, ground, player)
  BY DEF BgInv
<1>1. CountOK(queue, gr, pl)
  <2>1. ASSUME NEW b \in Grounds, NEW r \in Players
        PROVE  Expects(queue, gr, pl, b, r) <=> Expects(queue, ground, player, b, r)
    <3>1. CASE r = p
      BY <3>1 DEF Moves
    <3>2. CASE r # p
      <4>1. pl[r] = player[r] /\ (r \in gr[b].members <=> r \in ground[b].members)
        BY <3>2 DEF Moves
      <4> QED
        BY <4>1 DEF Expects
    <3> QED
      BY <3>1, <3>2
  <2>2. \A b \in Grounds, t \in Teams : gr[b].invited[t] = ground[b].invited[t]
    BY DEF Moves
  <2> QED
    BY <1>0, <2>1, <2>2, CountSame
<1>2. ASSUME NEW r \in Players, NEW b \in Grounds, r \in gr[b].members
      PROVE  pl[r].bg = b /\ pl[r].place \in {"in", "offline"}
  BY <1>0, <1>2 DEF Moves, PlayersOK
<1>3. ASSUME NEW r \in Players, Member(queue, r)
      PROVE  pl[r].queued /\ pl[r].place \in {"world", "loading"}
  BY <1>0, <1>3 DEF Moves, PlayersOK
<1>4. ASSUME NEW r \in Players PROVE Seated(pl[r])
  BY <1>0 DEF Moves, PlayersOK
<1>5. ASSUME NEW h \in GroupsIn(queue), NEW r \in h.members
      PROVE  pl[r].invite = h.invited
  <2>1. r \in Players /\ Member(queue, r)
    BY <1>0, GroupsOf DEF QueueOK, Entry, Member
  <2> QED
    BY <1>0, <2>1 DEF Moves, PlayersOK
<1> QED
  BY <1>1, <1>2, <1>3, <1>4, <1>5 DEF Moves, PlayersOK

\* Joining the queue, alone or as a group.
LEMMA JoinKeeps ==
  ASSUME BgInv, NEW leader \in Players, NEW party \in SUBSET Players,
         \A r \in party : TeamOf[r] = TeamOf[leader],
         NEW asGroup, NEW absent, Join(leader, party, asGroup, absent)
  PROVE  /\ BgInv' /\ \A r \in party : player'[r].place = "world"
         /\ \A r \in Players \ party : player'[r] = player[r] /\ (Member(queue', r) => Member(queue, r))
<1> DEFINE kind == IF asGroup /\ Cardinality(party) + absent >= MinPlayersPerTeam
                   THEN "premade" ELSE "normal"
           x == <<kind, TeamOf[leader]>>
           g == [members |-> party, invited |-> 0, left |-> 0]
<1>0. QueueOK(queue) /\ FieldOK(ground) /\ PlayersOK(queue, ground, player)
      /\ CountOK(queue, ground, player)
  BY DEF BgInv
<1>1. kind \in {"premade", "normal"} /\ x \in Kinds /\ x[2] = TeamOf[leader]
  BY TeamsAssumption DEF Kinds
<1>2. g \in Entry
  BY SizesAssumption DEF Entry
<1>3. queue' = [queue EXCEPT ![x] = Append(@, g)]
  BY DEF Join
<1> HIDE DEF kind, x
<1>4. \A r \in g.members : TeamOf[r] = x[2] /\ ~Member(queue, r)
  BY <1>0, <1>1 DEF Join, PlayersOK
<1>5. QueueOK(queue') /\ GroupsIn(queue') = GroupsIn(queue) \cup {g}
  BY <1>0, <1>1, <1>2, <1>3, <1>4, JoinedOf
<1>6. player \in [Players -> Person]
  BY <1>0 DEF PlayersOK
<1>7. /\ player' \in [Players -> Person]
      /\ \A r \in Players \ party : player'[r] = player[r]
      /\ \A r \in party : /\ player'[r].queued /\ player'[r].invite = 0
                          /\ player'[r].place = player[r].place /\ player'[r].place = "world"
                          /\ player'[r].bg = player[r].bg
  <2>1. player' = [r \in Players |-> IF r \in party THEN [player[r] EXCEPT !.queued = TRUE, !.invite = 0]
                                     ELSE player[r]]
    BY DEF Join
  <2>2. \A r \in Players : player[r] \in Person
    BY <1>6
  <2>3. ASSUME NEW r \in Players
        PROVE  /\ [player[r] EXCEPT !.queued = TRUE, !.invite = 0] \in Person
               /\ [player[r] EXCEPT !.queued = TRUE, !.invite = 0].queued
               /\ [player[r] EXCEPT !.queued = TRUE, !.invite = 0].invite = 0
               /\ [player[r] EXCEPT !.queued = TRUE, !.invite = 0].place = player[r].place
               /\ [player[r] EXCEPT !.queued = TRUE, !.invite = 0].bg = player[r].bg
    BY <2>2, PersonOf
  <2>4. \A r \in party : player[r].place = "world"
    BY DEF Join
  <2> QED
    BY <2>1, <2>2, <2>3, <2>4
<1>8. ground' = ground /\ freeQ' = freeQ /\ timers' = timers
  BY DEF Join
<1>9. CountOK(queue', ground', player')
  <2>1. ASSUME NEW b \in Grounds, NEW r \in Players
        PROVE  Expects(queue', ground', player', b, r) <=> Expects(queue, ground, player, b, r)
    <3>1. Promised(queue', r, b) <=> Promised(queue, r, b)
      <4>1. b # 0
        BY DEF Grounds
      <4> QED
        BY <1>5, <4>1 DEF Promised
    <3>2. player'[r].place = player[r].place /\ player'[r].bg = player[r].bg
      BY <1>7
    <3> QED
      BY <1>8, <3>1, <3>2 DEF Expects
  <2> QED
    BY <1>0, <1>8, <2>1, CountSame
<1>10. PlayersOK(queue', ground', player')
  <2>1. ASSUME NEW r \in Players, NEW b \in Grounds, r \in ground'[b].members
        PROVE  player'[r].bg = b /\ player'[r].place \in {"in", "offline"}
    <3>1. player[r].bg = b /\ player[r].place \in {"in", "offline"}
      BY <1>0, <1>8, <2>1 DEF PlayersOK
    <3> QED
      BY <1>7, <3>1
  <2>2. ASSUME NEW r \in Players, Member(queue', r)
        PROVE  player'[r].queued /\ player'[r].place \in {"world", "loading"}
    <3>1. CASE r \in party
      BY <1>7, <3>1
    <3>2. CASE r \notin party
      <4>1. Member(queue, r) /\ player'[r] = player[r]
        BY <1>5, <1>7, <2>2, <3>2 DEF Member
      <4> QED
        BY <1>0, <4>1 DEF PlayersOK
    <3> QED
      BY <3>1, <3>2
  <2>3. ASSUME NEW r \in Players PROVE Seated(player'[r])
    <3>1. CASE r \in party
      BY <1>7, <3>1 DEF Seated
    <3>2. CASE r \notin party
      BY <1>0, <1>7, <3>2 DEF PlayersOK
    <3> QED
      BY <3>1, <3>2
  <2>4. ASSUME NEW h \in GroupsIn(queue'), NEW r \in h.members
        PROVE  player'[r].invite = h.invited
    <3>1. CASE h = g
      BY <1>7, <3>1
    <3>2. CASE h \in GroupsIn(queue)
      <4>1. r \in Players /\ Member(queue, r)
        BY <1>0, <3>2, GroupsOf DEF QueueOK, Entry, Member
      <4>2. r \notin party
        BY <1>4, <4>1
      <4> QED
        BY <1>0, <1>7, <3>2, <4>1, <4>2 DEF PlayersOK
    <3> QED
      BY <1>5, <3>1, <3>2
  <2> QED
    BY <1>7, <2>1, <2>2, <2>3, <2>4 DEF PlayersOK
<1>11. BgInv'
  BY <1>0, <1>5, <1>8, <1>9, <1>10 DEF BgInv
<1>12. \A r \in Players \ party : Member(queue', r) => Member(queue, r)
  BY <1>5 DEF Member
<1> QED
  BY <1>7, <1>11, <1>12

\* Refusing an invitation, or the queue.
LEMMA LeaveQueueKeeps ==
  ASSUME BgInv, NEW p \in Players, LeaveQueue(p)
  PROVE  BgInv'
<1>1. /\ Queued(p) /\ RemovePlayer(p, TRUE) /\ player[p].place = "world"
      /\ freeQ' = freeQ /\ timers' = timers
  BY DEF LeaveQueue
<1>2. player \in [Players -> Person]
  BY DEF BgInv, PlayersOK
<1>3. player' = [r \in Players |-> IF r \in {p} THEN [player[r] EXCEPT !.queued = FALSE, !.invite = 0]
                                   ELSE player[r]]
  BY DEF LeaveQueue, RemoveBattlegroundQueueId
<1>4. /\ player' \in [Players -> Person] /\ player'[p].place \notin {"entering", "in"}
      /\ \A r \in Players \ {p} : player'[r] = player[r]
  <2>1. /\ [player[p] EXCEPT !.queued = FALSE, !.invite = 0] \in Person
        /\ [player[p] EXCEPT !.queued = FALSE, !.invite = 0].place = "world"
    <3>1. player[p] \in Person
      BY <1>2
    <3> QED
      BY <1>1, <3>1, PersonOf
  <2> QED
    BY <1>2, <1>3, <2>1
<1>5. /\ QueueOK(queue') /\ FieldOK(ground')
      /\ PlayersOK(queue', ground', player') /\ CountOK(queue', ground', player')
  BY <1>1, <1>4, RemovedOf
<1> QED
  BY <1>1, <1>5 DEF BgInv

\* Going to the battle: the promise of a place becomes a seat in the teleport.
LEMMA EnterBattleKeeps ==
  ASSUME BgInv, NEW p \in Players, EnterBattle(p)
  PROVE  BgInv'
<1>0. QueueOK(queue) /\ FieldOK(ground) /\ PlayersOK(queue, ground, player)
      /\ CountOK(queue, ground, player)
  BY DEF BgInv
<1>1. PICK b \in Grounds :
        /\ GroupOf(p).invited = b /\ RemovePlayer(p, FALSE)
        /\ player' = [player EXCEPT ![p].bg = b, ![p].place = "entering"]
  BY DEF EnterBattle
<1>2. Queued(p) /\ player[p].place = "world" /\ freeQ' = freeQ /\ timers' = timers
  BY DEF EnterBattle
<1>3. queue' = Without(p) /\ ground' = ground
  BY <1>1, <1>2 DEF RemovePlayer
<1>4. /\ QueueOK(queue')
      /\ \A h \in GroupsIn(queue') : \E e \in GroupsIn(queue) : h = Shrunk(p)[e]
      /\ \A r \in Players : Member(queue', r) <=> r # p /\ Member(queue, r)
      /\ \A r \in Players : \A c : Promised(queue', r, c) <=> r # p /\ Promised(queue, r, c)
  BY <1>0, <1>3, WithoutOf
<1>5. /\ Member(queue, p) /\ player[p].invite = b
      /\ \A c : Promised(queue, p, c) <=> c = b
  <2>1. /\ GroupOf(p) \in GroupsIn(queue) /\ p \in GroupOf(p).members
        /\ \A g \in GroupsIn(queue) : p \in g.members => g = GroupOf(p)
    BY <1>0, <1>2, QueuedOf
  <2>2. player[p].invite = b
    BY <1>0, <1>1, <2>1 DEF PlayersOK
  <2> QED
    BY <1>1, <2>1, <2>2 DEF Member, Promised
<1>6. player \in [Players -> Person] /\ player[p] \in Person
  BY <1>0 DEF PlayersOK
<1>7. /\ player' \in [Players -> Person]
      /\ \A r \in Players \ {p} : player'[r] = player[r]
      /\ player'[p].bg = b /\ player'[p].place = "entering" /\ player'[p].invite = b
  <2> DEFINE x == [player[p] EXCEPT !.bg = b, !.place = "entering"]
  <2>1. /\ x \in Person /\ x.bg = b /\ x.place = "entering" /\ x.invite = player[p].invite
    <3>1. x \in Person
      BY <1>6, PersonOf
    <3> QED
      BY <1>6, <3>1 DEF Person
  <2>2. player' = [player EXCEPT ![p] = x]
    BY <1>1, <1>6
  <2> HIDE DEF x
  <2> QED
    BY <1>5, <1>6, <2>1, <2>2
<1>8. ASSUME NEW c \in Grounds, NEW r \in Players
      PROVE  Expects(queue', ground', player', c, r) <=> Expects(queue, ground, player, c, r)
  <2>1. CASE r = p
    <3>1. p \notin ground[c].members
      BY <1>0, <1>5 DEF PlayersOK
    <3>2. Expects(queue, ground, player, c, p) <=> c = b
      BY <1>2, <1>5, <3>1 DEF Expects
    <3>3. Expects(queue', ground', player', c, p) <=> c = b
      BY <1>3, <1>4, <1>7, <3>1 DEF Expects
    <3> QED
      BY <2>1, <3>2, <3>3
  <2>2. CASE r # p
    <3>1. player'[r] = player[r] /\ (Promised(queue', r, c) <=> Promised(queue, r, c))
      BY <1>4, <1>7, <2>2
    <3> QED
      BY <1>3, <3>1 DEF Expects
  <2> QED
    BY <2>1, <2>2
<1>9. CountOK(queue', ground', player')
  BY <1>0, <1>3, <1>8, CountSame
<1>10. PlayersOK(queue', ground', player')
  <2>1. ASSUME NEW r \in Players, NEW c \in Grounds, r \in ground'[c].members
        PROVE  player'[r].bg = c /\ player'[r].place \in {"in", "offline"}
    <3>1. player[r].bg = c /\ player[r].place \in {"in", "offline"}
      BY <1>0, <1>3, <2>1 DEF PlayersOK
    <3> QED
      BY <1>2, <1>7, <3>1
  <2>2. ASSUME NEW r \in Players, Member(queue', r)
        PROVE  player'[r].queued /\ player'[r].place \in {"world", "loading"}
    <3>1. Member(queue, r) /\ player'[r] = player[r]
      BY <1>4, <1>7, <2>2
    <3> QED
      BY <1>0, <3>1 DEF PlayersOK
  <2>3. ASSUME NEW r \in Players PROVE Seated(player'[r])
    <3>1. CASE r = p
      BY <1>7, <3>1 DEF Grounds, Seated
    <3>2. CASE r # p
      BY <1>0, <1>7, <3>2 DEF PlayersOK
    <3> QED
      BY <3>1, <3>2
  <2>4. ASSUME NEW h \in GroupsIn(queue'), NEW r \in h.members
        PROVE  player'[r].invite = h.invited
    <3>1. PICK e \in GroupsIn(queue) : h = Shrunk(p)[e]
      BY <1>4
    <3>2. e \in Entry
      BY <1>0, <3>1, GroupsOf DEF QueueOK
    <3>3. r \in e.members /\ r # p /\ h.invited = e.invited /\ r \in Players
      BY <3>1, <3>2 DEF Shrunk, Entry
    <3> QED
      BY <1>0, <1>7, <3>3 DEF PlayersOK
  <2> QED
    BY <1>7, <2>1, <2>2, <2>3, <2>4 DEF PlayersOK
<1> QED
  BY <1>0, <1>2, <1>3, <1>4, <1>9, <1>10 DEF BgInv

\* The seat becomes a place on the list; there is always a battleground left.
LEMMA AddPlayerOf ==
  ASSUME BgInv, NEW p \in Players, player[p].place = "entering"
  PROVE  /\ player[p].bg \in Grounds /\ ground[player[p].bg].status # "free"
         /\ ~Member(queue, p)
         /\ AddPlayer(p) \in [Grounds -> Field]
         /\ p \in AddPlayer(p)[player[p].bg].members
         /\ \A b \in Grounds : /\ AddPlayer(p)[b].invited = ground[b].invited
                               /\ AddPlayer(p)[b].status = ground[b].status
                               /\ b # player[p].bg => AddPlayer(p)[b] = ground[b]
         /\ \A b \in Grounds : \A r \in Players \ {p} :
              r \in AddPlayer(p)[b].members <=> r \in ground[b].members
<1> DEFINE b == player[p].bg
<1>0. FieldOK(ground) /\ PlayersOK(queue, ground, player) /\ CountOK(queue, ground, player)
  BY DEF BgInv
<1>1. b \in Grounds /\ player[p].invite = b /\ ~Member(queue, p)
  <2>1. b \in 0..MaxGrounds /\ b # 0 /\ player[p].invite = b /\ ~Member(queue, p)
    BY <1>0 DEF PlayersOK, Person, Seated
  <2> QED
    BY <2>1, SizesAssumption DEF Grounds
<1>2. ground[b].status # "free"
  <2>1. Expects(queue, ground, player, b, p)
    BY DEF Expects
  <2> QED
    BY <1>0, <1>1, <2>1, NotFree
<1>3. AddPlayer(p) = [ground EXCEPT ![b].members = @ \union {p}]
  BY <1>1, <1>2 DEF AddPlayer
<1> HIDE DEF b
<1>4. ground \in [Grounds -> Field]
  BY <1>0 DEF FieldOK
<1> DEFINE f == [ground[b] EXCEPT !.members = @ \union {p}]
           G == AddPlayer(p)
<1>5. /\ f \in Field /\ f.members = ground[b].members \cup {p}
      /\ f.invited = ground[b].invited /\ f.status = ground[b].status
  BY <1>1, <1>4 DEF Field
<1>6. G = [ground EXCEPT ![b] = f]
  BY <1>3, <1>4
<1> HIDE DEF f, G
<1>7. G \in [Grounds -> Field] /\ G[b] = f /\ \A c \in Grounds \ {b} : G[c] = ground[c]
  BY <1>1, <1>4, <1>5, <1>6
<1> QED
  BY <1>1, <1>2, <1>5, <1>7 DEF b, G

\* Coming out of the loading screen in the battleground.
LEMMA ArriveKeeps ==
  ASSUME BgInv, NEW p \in Players, Arrive(p)
  PROVE  BgInv'
<1>0. QueueOK(queue) /\ FieldOK(ground) /\ PlayersOK(queue, ground, player)
  BY DEF BgInv
<1>1. /\ player[p].place = "entering" /\ ground' = AddPlayer(p)
      /\ queue' = queue /\ freeQ' = freeQ /\ timers' = timers
  BY DEF Arrive
<1> DEFINE b == player[p].bg
<1>2. /\ b \in Grounds /\ ground[b].status # "free" /\ ~Member(queue, p)
      /\ ground' \in [Grounds -> Field] /\ p \in ground'[b].members
      /\ \A c \in Grounds : /\ ground'[c].invited = ground[c].invited
                            /\ ground'[c].status = ground[c].status
                            /\ c # b => ground'[c] = ground[c]
      /\ \A c \in Grounds : \A r \in Players \ {p} :
           r \in ground'[c].members <=> r \in ground[c].members
  BY <1>1, AddPlayerOf
<1>3. player' = [player EXCEPT ![p].place = "in"]
  BY <1>2 DEF Arrive
<1>4. player \in [Players -> Person] /\ player[p] \in Person
  BY <1>0 DEF PlayersOK
<1>5. /\ player' \in [Players -> Person]
      /\ \A r \in Players \ {p} : player'[r] = player[r]
      /\ player'[p].bg = b /\ player'[p].place = "in"
  <2> DEFINE x == [player[p] EXCEPT !.place = "in"]
  <2>1. x \in Person /\ x.bg = b /\ x.place = "in"
    BY <1>4 DEF Person
  <2>2. player' = [player EXCEPT ![p] = x]
    BY <1>3, <1>4
  <2> HIDE DEF x
  <2> QED
    BY <1>4, <2>1, <2>2
<1>6. \A c \in Grounds : p \notin ground[c].members /\ ~Promised(queue, p, c)
  <2>1. \A c \in Grounds : p \notin ground[c].members
    BY <1>0, <1>1 DEF PlayersOK
  <2>2. \A c \in Grounds : ~Promised(queue, p, c)
    BY <1>2 DEF Promised, Member
  <2> QED
    BY <2>1, <2>2
<1> HIDE DEF b
<1>7. Moves(p, ground', player')
  <2>1. ASSUME NEW c \in Grounds
        PROVE  Expects(queue, ground', player', c, p) <=> Expects(queue, ground, player, c, p)
    <3>1. p \in ground'[c].members <=> c = b
      BY <1>2, <1>6
    <3>2. Expects(queue, ground, player, c, p) <=> c = b
      BY <1>1, <1>6 DEF Expects, b
    <3>3. Expects(queue, ground', player', c, p) <=> c = b
      BY <1>5, <1>6, <3>1 DEF Expects
    <3> QED
      BY <3>2, <3>3
  <2>2. \A c \in Grounds : p \in ground'[c].members =>
          player'[p].bg = c /\ player'[p].place \in {"in", "offline"}
    BY <1>2, <1>5, <1>6
  <2>3. Seated(player'[p])
    BY <1>2, <1>5 DEF Seated, Grounds
  <2> QED
    BY <1>2, <1>5, <2>1, <2>2, <2>3 DEF Moves
<1>8. PlayersOK(queue, ground', player') /\ CountOK(queue, ground', player')
  BY <1>7, MovedOf
<1>9. FieldOK(ground')
  BY <1>0, <1>2 DEF FieldOK
<1> QED
  BY <1>0, <1>1, <1>8, <1>9 DEF BgInv

\* A loading screen on another map, in and out.
LEMMA ZoneKeeps ==
  ASSUME BgInv, NEW p \in Players, ZoneOut(p) \/ ZoneIn(p)
  PROVE  BgInv'
<1>0. QueueOK(queue) /\ FieldOK(ground) /\ PlayersOK(queue, ground, player)
  BY DEF BgInv
<1>1. PICK w \in {"loading", "world"} : player' = [player EXCEPT ![p].place = w]
  BY DEF ZoneOut, ZoneIn
<1>2. /\ player[p].place \in {"world", "loading"}
      /\ queue' = queue /\ ground' = ground /\ freeQ' = freeQ /\ timers' = timers
  BY DEF ZoneOut, ZoneIn
<1>3. player \in [Players -> Person] /\ player[p] \in Person
  BY <1>0 DEF PlayersOK
<1> DEFINE x == [player[p] EXCEPT !.place = w]
<1>4. x \in Person /\ x.invite = player[p].invite /\ x.place = w
  BY <1>3 DEF Person
<1>5. x.queued = player[p].queued
  BY <1>3 DEF Person
<1>6. player' = [player EXCEPT ![p] = x]
  BY <1>1, <1>3
<1> HIDE DEF x
<1>7. /\ player' \in [Players -> Person] /\ player'[p] = x
      /\ \A r \in Players \ {p} : player'[r] = player[r]
  BY <1>3, <1>4, <1>6
<1>8. Moves(p, ground, player')
  <2>1. \A b \in Grounds : p \notin ground[b].members
    BY <1>0, <1>2 DEF PlayersOK
  <2>2. \A b \in Grounds : Expects(queue, ground, player', b, p) <=> Expects(queue, ground, player, b, p)
    BY <1>2, <1>4, <1>7, <2>1 DEF Expects
  <2>3. Member(queue, p) => player'[p].queued
    BY <1>0, <1>5, <1>7, Zenon DEF PlayersOK
  <2>4. /\ player'[p].place \in {"world", "loading"} /\ player'[p].invite = player[p].invite
        /\ Seated(player'[p])
    BY <1>4, <1>7 DEF Seated
  <2> QED
    BY <1>7, <2>1, <2>2, <2>3, <2>4 DEF Moves
<1>9. PlayersOK(queue, ground, player') /\ CountOK(queue, ground, player')
  BY <1>8, MovedOf
<1> QED
  BY <1>0, <1>2, <1>9 DEF BgInv

\* The players of S, listed in battleground b, leave it: the list and the
\* counter of b are gr[b] now, and pl is what the players know.
Departs(S, b, gr, pl) ==
  /\ gr \in [Grounds -> Field] /\ gr[b].members = ground[b].members \ S
  /\ gr[b].status # "free"
  /\ \A t \in Teams : gr[b].invited[t] = (ground[b].invited[t] - Size(S, t)) % Wrap
  /\ \A c \in Grounds \ {b} : gr[c] = ground[c]
  /\ pl \in [Players -> Person]
  /\ \A r \in Players \ S : pl[r] = player[r]
  /\ \A r \in S : pl[r].place \in {"world", "loading", "offline"}

\* Then b no longer reckons with them.
LEMMA DepartedOf ==
  ASSUME BgInv, NEW b \in Grounds, NEW S, S \subseteq ground[b].members,
         NEW gr, NEW pl, Departs(S, b, gr, pl)
  PROVE  FieldOK(gr) /\ PlayersOK(queue, gr, pl) /\ CountOK(queue, gr, pl)
<1>0. /\ QueueOK(queue) /\ FieldOK(ground) /\ PlayersOK(queue, ground, player)
      /\ CountOK(queue, ground, player)
  BY DEF BgInv
<1>1. S \subseteq Players
  BY <1>0 DEF FieldOK, Field
<1>6. FieldOK(gr)
  BY <1>0 DEF FieldOK, Departs
<1>8. /\ pl \in [Players -> Person]
      /\ \A r \in Players \ S : pl[r] = player[r]
      /\ \A r \in S : pl[r].place \in {"world", "loading", "offline"} /\ ~Member(queue, r)
  <2>1. \A r \in S : ~Member(queue, r)
    BY <1>0, <1>1 DEF PlayersOK
  <2> QED
    BY <2>1 DEF Departs
<1>9. \A r \in S : player[r].bg = b /\ player[r].place \in {"in", "offline"}
                   /\ \A c \in Grounds : ~Promised(queue, r, c)
  BY <1>0, <1>1, <1>8 DEF PlayersOK, Promised, Member
<1>10. \A c \in Grounds : \A r \in Players : r \in gr[c].members <=> r \in ground[c].members /\ r \notin S
  <2>1. ASSUME NEW c \in Grounds \ {b}, NEW r \in S PROVE r \notin ground[c].members
    BY <1>0, <1>1, <1>9 DEF PlayersOK
  <2> QED
    BY <2>1 DEF Departs
<1>11. CountOK(queue, gr, pl)
  <2>1. ASSUME NEW c \in Grounds, NEW r \in Players
        PROVE  Expects(queue, gr, pl, c, r) <=>
                 Expects(queue, ground, player, c, r) /\ r \notin S
    <3>1. CASE r \in S
      BY <1>8, <1>9, <1>10, <3>1 DEF Expects
    <3>2. CASE r \notin S
      BY <1>8, <1>10, <3>2 DEF Expects
    <3> QED
      BY <3>1, <3>2
  <2>2. ASSUME NEW c \in Grounds \ {b}, NEW r \in S PROVE ~Expects(queue, ground, player, c, r)
    <3>1. r \in Players /\ r \notin ground[c].members
      BY <1>0, <1>1, <1>9 DEF PlayersOK
    <3> QED
      BY <1>9, <3>1 DEF Expects
  <2>3. \A r \in S : Expects(queue, ground, player, b, r)
    BY DEF Expects
  <2>4. \A c \in Grounds \ {b} : \A r \in Players :
          Expects(queue, gr, pl, c, r) <=> Expects(queue, ground, player, c, r)
    BY <2>1, <2>2
  <2>5. \A t \in Teams : gr[b].invited[t] = (ground[b].invited[t] - Size(S, t)) % Wrap
    BY DEF Departs
  <2>6. \A c \in Grounds \ {b} : \A t \in Teams : gr[c].invited[t] = ground[c].invited[t]
    BY DEF Departs
  <2>7. Drops(queue, ground, player, queue, gr, pl, b, S)
    BY <2>1, <2>3, <2>4, <2>5, <2>6 DEF Drops
  <2> QED
    BY <1>0, <1>1, <2>7, CountDropped
<1>12. PlayersOK(queue, gr, pl)
  <2>1. ASSUME NEW r \in Players, NEW c \in Grounds, r \in gr[c].members
        PROVE  pl[r].bg = c /\ pl[r].place \in {"in", "offline"}
    BY <1>0, <1>8, <1>10, <2>1 DEF PlayersOK
  <2>2. ASSUME NEW r \in Players, Member(queue, r)
        PROVE  pl[r].queued /\ pl[r].place \in {"world", "loading"}
    BY <1>0, <1>8, <2>2 DEF PlayersOK
  <2>3. ASSUME NEW r \in Players PROVE Seated(pl[r])
    <3>1. CASE r \in S
      BY <1>8, <3>1 DEF Seated
    <3>2. CASE r \notin S
      BY <1>0, <1>8, <3>2 DEF PlayersOK
    <3> QED
      BY <3>1, <3>2
  <2>4. ASSUME NEW h \in GroupsIn(queue), NEW r \in h.members
        PROVE  pl[r].invite = h.invited
    <3>1. r \in Players /\ Member(queue, r)
      BY <1>0, GroupsOf DEF QueueOK, Entry, Member
    <3>2. pl[r] = player[r]
      BY <1>8, <3>1
    <3> QED
      BY <1>0, <3>2 DEF PlayersOK
  <2> QED
    BY <1>8, <2>1, <2>2, <2>3, <2>4 DEF PlayersOK
<1> QED
  BY <1>6, <1>11, <1>12

\* Some of the players listed in battleground b leave it.
LEMMA LeftOf ==
  ASSUME BgInv, NEW b \in Grounds, NEW S, S \subseteq ground[b].members,
         NEW g \in Field, g.members = ground[b].members, g.invited = ground[b].invited,
         g.status # "free", RemovePlayersAtLeave(S, b, g)
  PROVE  /\ FieldOK(ground') /\ PlayersOK(queue, ground', player')
         /\ CountOK(queue, ground', player') /\ freeQ' \in Seq(Grounds)
<1>0. /\ QueueOK(queue) /\ FieldOK(ground) /\ PlayersOK(queue, ground, player)
      /\ CountOK(queue, ground, player) /\ freeQ \in Seq(Grounds)
  BY DEF BgInv
<1>1. ground \in [Grounds -> Field] /\ player \in [Players -> Person] /\ S \subseteq Players
  BY <1>0 DEF FieldOK, PlayersOK, Field
<1> DEFINE f == [g EXCEPT !.members = @ \ S,
                          !.invited = [t \in Teams |-> (@[t] - Size(S, t)) % Wrap]]
<1>2. ground' = [ground EXCEPT ![b] = f]
  BY DEF RemovePlayersAtLeave
<1>3. \A t \in Teams : (g.invited[t] - Size(S, t)) % Wrap \in 0..(Wrap - 1)
  <2>1. ASSUME NEW t \in Teams PROVE (g.invited[t] - Size(S, t)) % Wrap \in 0..(Wrap - 1)
    <3>1. g.invited[t] \in Int /\ Size(S, t) \in Int
      <4>1. {p \in S : TeamOf[p] = t} \subseteq Players
        BY <1>1
      <4>2. Size(S, t) \in Nat
        BY <4>1, PlayersFinite DEF Size
      <4>3. g.invited[t] \in 0..(Wrap - 1)
        BY DEF Field
      <4> QED
        BY <4>2, <4>3, SizesAssumption
    <3>2. Wrap \in Nat \ {0}
      <4>1. Cardinality({}) < Wrap /\ Cardinality({}) \in Nat
        BY PlayersFinite
      <4> QED
        BY <4>1, SizesAssumption
    <3> QED
      BY <3>1, <3>2
  <2> QED
    BY <2>1
<1>4. /\ f \in Field /\ f.members = ground[b].members \ S /\ f.status # "free"
      /\ \A t \in Teams : f.invited[t] = (ground[b].invited[t] - Size(S, t)) % Wrap
  <2> DEFINE inv == [t \in Teams |-> (g.invited[t] - Size(S, t)) % Wrap]
  <2>1. inv \in [Teams -> 0..(Wrap - 1)]
    BY <1>3
  <2>2. f = [g EXCEPT !.members = @ \ S, !.invited = inv]
    OBVIOUS
  <2>3. \A t \in Teams : inv[t] = (ground[b].invited[t] - Size(S, t)) % Wrap
    OBVIOUS
  <2> HIDE DEF inv, f
  <2> QED
    BY <2>1, <2>2, <2>3 DEF Field
<1> HIDE DEF f
<1>5. ground' \in [Grounds -> Field] /\ ground'[b] = f /\ \A c \in Grounds \ {b} : ground'[c] = ground[c]
  BY <1>1, <1>2, <1>4
<1>7. player' = [p \in Players |->
                   IF p \in S /\ FindPlayer(p)
                   THEN [queued |-> FALSE, invite |-> 0, bg |-> 0, place |-> "loading"]
                   ELSE player[p]]
  BY DEF RemovePlayersAtLeave
<1>8. /\ player' \in [Players -> Person]
      /\ \A r \in Players \ S : player'[r] = player[r]
      /\ \A r \in S : player'[r].place \in {"loading", "offline"}
  <2>1. [queued |-> FALSE, invite |-> 0, bg |-> 0, place |-> "loading"] \in Person
    <3>1. 0 \in 0..MaxGrounds
      BY SizesAssumption
    <3> QED
      BY <3>1 DEF Person
  <2>2. \A r \in S : player[r].place \in {"in", "offline"}
    BY <1>0, <1>1 DEF PlayersOK
  <2> QED
    BY <1>1, <1>7, <2>1, <2>2 DEF FindPlayer
<1>9. Departs(S, b, ground', player')
  BY <1>4, <1>5, <1>8 DEF Departs
<1>10. FieldOK(ground') /\ PlayersOK(queue, ground', player') /\ CountOK(queue, ground', player')
  BY <1>9, DepartedOf
<1>13. freeQ' \in Seq(Grounds)
  <2>1. freeQ' = freeQ \/ freeQ' = <<b>> \o freeQ
    BY DEF RemovePlayersAtLeave
  <2>2. <<b>> \in Seq(Grounds)
    OBVIOUS
  <2>3. <<b>> \o freeQ \in Seq(Grounds)
    BY <1>0, <2>2, ConcatOf
  <2> QED
    BY <1>0, <2>1, <2>3
<1> QED
  BY <1>10, <1>13

\* Leaving a battleground by packet.
LEMMA LeaveBattlegroundKeeps ==
  ASSUME BgInv, NEW p \in Players, LeaveBattleground(p)
  PROVE  BgInv'
<1> DEFINE b == player[p].bg
<1>0. QueueOK(queue) /\ FieldOK(ground) /\ PlayersOK(queue, ground, player) /\ timers \subseteq Timer
  BY DEF BgInv
<1>1. /\ p \in ground[b].members /\ RemovePlayersAtLeave({p}, b, ground[b])
      /\ player[p].place = "in" /\ queue' = queue /\ timers' = timers
  BY DEF LeaveBattleground
<1>2. b \in Grounds
  <2>1. b \in 0..MaxGrounds /\ b # 0
    BY <1>0, <1>1 DEF PlayersOK, Person, Seated
  <2> QED
    BY <2>1, SizesAssumption DEF Grounds
<1>3. ground[b] \in Field /\ ground[b].status # "free"
  BY <1>0, <1>1, <1>2 DEF FieldOK, NoGround
<1> HIDE DEF b
<1>4. {p} \subseteq ground[b].members
  BY <1>1
<1>5. /\ FieldOK(ground') /\ PlayersOK(queue, ground', player')
      /\ CountOK(queue, ground', player') /\ freeQ' \in Seq(Grounds)
  BY <1>1, <1>2, <1>3, <1>4, LeftOf
<1> QED
  BY <1>0, <1>1, <1>5 DEF BgInv

\* A participant logs out and stays listed; anybody else leaves the queue.
LEMMA LogoutKeeps ==
  ASSUME BgInv, NEW p \in Players, Logout(p)
  PROVE  BgInv'
<1> DEFINE b == player[p].bg
           arrived == IF player[p].place = "entering" THEN AddPlayer(p) ELSE ground
<1>0. QueueOK(queue) /\ FieldOK(ground) /\ PlayersOK(queue, ground, player)
  BY DEF BgInv
<1>1. /\ player' = [player EXCEPT ![p].queued = FALSE, ![p].invite = 0, ![p].place = "offline"]
      /\ freeQ' = freeQ /\ timers' = timers
  BY DEF Logout
<1>2. IF b # 0 /\ p \in arrived[b].members
      THEN ground' = [arrived EXCEPT ![b].offline = Append(@, p)] /\ queue' = queue
      ELSE RemovePlayer(p, player[p].queued)
  BY DEF Logout
<1>3. player \in [Players -> Person] /\ player[p] \in Person /\ b \in 0..MaxGrounds
  BY <1>0 DEF PlayersOK, Person
<1>4. /\ player' \in [Players -> Person]
      /\ \A r \in Players \ {p} : player'[r] = player[r]
      /\ player'[p].bg = b /\ player'[p].place = "offline"
  <2> DEFINE x == [player[p] EXCEPT !.queued = FALSE, !.invite = 0, !.place = "offline"]
  <2>0. 0 \in 0..MaxGrounds
    BY SizesAssumption
  <2>1. x \in Person /\ x.bg = b /\ x.place = "offline"
    BY <1>3, <2>0 DEF Person
  <2>2. player' = [player EXCEPT ![p] = x]
    BY <1>1, <1>3
  <2> HIDE DEF x
  <2> QED
    BY <1>3, <2>1, <2>2
<1>5. b # 0 => b \in Grounds
  BY <1>3, SizesAssumption DEF Grounds
<1>6. Seated(player'[p])
  BY <1>4 DEF Seated
<1>7. CASE b # 0 /\ p \in arrived[b].members
  <2>1. /\ arrived \in [Grounds -> Field] /\ ~Member(queue, p)
        /\ arrived[b].status # "free"
        /\ \A c \in Grounds : /\ arrived[c].invited = ground[c].invited
                              /\ arrived[c].status = ground[c].status
                              /\ c # b => arrived[c] = ground[c]
        /\ \A c \in Grounds : \A r \in Players \ {p} :
             r \in arrived[c].members <=> r \in ground[c].members
        /\ \A c \in Grounds : Expects(queue, ground, player, c, p) <=> c = b
        /\ \A c \in Grounds : p \in arrived[c].members <=> c = b
    <3>1. CASE player[p].place = "entering"
      <4>1. arrived = AddPlayer(p)
        BY <3>1
      <4>2. \A c \in Grounds : p \notin ground[c].members
        BY <1>0, <3>1 DEF PlayersOK
      <4>3. /\ ground[b].status # "free" /\ ~Member(queue, p)
            /\ arrived \in [Grounds -> Field]
            /\ \A c \in Grounds : /\ arrived[c].invited = ground[c].invited
                                  /\ arrived[c].status = ground[c].status
                                  /\ c # b => arrived[c] = ground[c]
            /\ \A c \in Grounds : \A r \in Players \ {p} :
                 r \in arrived[c].members <=> r \in ground[c].members
        BY <3>1, <4>1, AddPlayerOf
      <4> HIDE DEF arrived
      <4>4. \A c \in Grounds : Expects(queue, ground, player, c, p) <=> c = b
        BY <3>1, <4>2, <4>3 DEF Expects, Promised, Member
      <4>5. \A c \in Grounds : p \in arrived[c].members <=> c = b
        BY <1>7, <4>2, <4>3
      <4> QED
        BY <1>5, <1>7, <4>3, <4>4, <4>5
    <3>2. CASE player[p].place # "entering"
      <4>1. arrived = ground
        BY <3>2
      <4>2. p \in ground[b].members /\ b \in Grounds
        BY <1>5, <1>7, <4>1
      <4>3. ground \in [Grounds -> Field] /\ ground[b].status # "free"
        BY <1>0, <4>2 DEF FieldOK, NoGround
      <4>4. ~Member(queue, p)
        BY <1>0, <4>2 DEF PlayersOK
      <4>5. \A c \in Grounds : p \in ground[c].members <=> c = b
        BY <1>0, <4>2 DEF PlayersOK
      <4>6. \A c \in Grounds : Expects(queue, ground, player, c, p) <=> c = b
        BY <3>2, <4>4, <4>5 DEF Expects, Promised, Member
      <4> HIDE DEF arrived
      <4> QED
        BY <4>1, <4>3, <4>4, <4>5, <4>6
    <3> QED
      BY <3>1, <3>2
  <2>2. ground' = [arrived EXCEPT ![b].offline = Append(@, p)] /\ queue' = queue
    BY <1>2, <1>7
  <2> HIDE DEF arrived
  <2> DEFINE f == [arrived[b] EXCEPT !.offline = Append(@, p)]
  <2>3. /\ f \in Field /\ f.members = arrived[b].members
        /\ f.invited = arrived[b].invited /\ f.status = arrived[b].status
    <3>1. arrived[b] \in Field
      BY <1>5, <1>7, <2>1
    <3>2. Append(arrived[b].offline, p) \in Seq(Players)
      BY <3>1 DEF Field
    <3> QED
      BY <3>1, <3>2 DEF Field
  <2>4. ground' = [arrived EXCEPT ![b] = f]
    BY <1>5, <1>7, <2>1, <2>2
  <2> HIDE DEF f
  <2>5. /\ ground' \in [Grounds -> Field] /\ ground'[b] = f
        /\ \A c \in Grounds \ {b} : ground'[c] = arrived[c]
    BY <1>5, <1>7, <2>1, <2>3, <2>4
  <2>6. \A c \in Grounds : /\ ground'[c].members = arrived[c].members
                           /\ ground'[c].invited = ground[c].invited
                           /\ ground'[c].status = ground[c].status
    BY <2>1, <2>3, <2>5
  <2>7. FieldOK(ground')
    BY <1>0, <2>1, <2>5, <2>6 DEF FieldOK
  <2>8. Moves(p, ground', player')
    <3>1. ASSUME NEW c \in Grounds
          PROVE  Expects(queue, ground', player', c, p) <=> Expects(queue, ground, player, c, p)
      <4>1. Expects(queue, ground', player', c, p) <=> c = b
        BY <1>4, <2>1, <2>6 DEF Expects, Promised, Member
      <4> QED
        BY <2>1, <4>1
    <3>2. \A c \in Grounds : p \in ground'[c].members =>
            player'[p].bg = c /\ player'[p].place \in {"in", "offline"}
      BY <1>4, <2>1, <2>6
    <3>3. \A c \in Grounds, r \in Players \ {p} : r \in ground'[c].members <=> r \in ground[c].members
      BY <2>1, <2>6
    <3> QED
      BY <1>4, <1>6, <2>1, <2>6, <3>1, <3>2, <3>3 DEF Moves
  <2>9. PlayersOK(queue, ground', player') /\ CountOK(queue, ground', player')
    BY <2>8, MovedOf
  <2> QED
    BY <1>1, <2>2, <2>7, <2>9 DEF BgInv
<1>8. CASE ~(b # 0 /\ p \in arrived[b].members)
  <2>1. RemovePlayer(p, player[p].queued)
    BY <1>2, <1>8
  <2>2. player[p].place # "entering"
    <3>1. ASSUME player[p].place = "entering" PROVE FALSE
      <4>1. arrived = AddPlayer(p)
        BY <3>1
      <4>2. b \in Grounds /\ p \in AddPlayer(p)[b].members
        BY <3>1, AddPlayerOf
      <4> QED
        BY <1>8, <4>1, <4>2 DEF Grounds
    <3> QED
      BY <3>1
  <2>3. CASE Queued(p)
    <3>1. player[p].queued
      BY <1>0, <2>3, QueuedOf DEF PlayersOK
    <3>2. RemovePlayer(p, TRUE)
      BY <2>1, <3>1 DEF RemovePlayer
    <3>3. player'[p].place \notin {"entering", "in"}
      BY <1>4
    <3>4. /\ QueueOK(queue') /\ FieldOK(ground')
          /\ PlayersOK(queue', ground', player') /\ CountOK(queue', ground', player')
      BY <1>4, <2>3, <3>2, <3>3, RemovedOf
    <3> QED
      BY <1>1, <3>4 DEF BgInv
  <2>4. CASE ~Queued(p)
    <3>1. queue' = queue /\ ground' = ground
      BY <2>1, <2>4 DEF RemovePlayer
    <3>2. \A c \in Grounds : p \notin ground[c].members
      <4>1. arrived = ground
        BY <2>2
      <4>2. ASSUME NEW c \in Grounds, p \in ground[c].members PROVE FALSE
        <5>1. b = c /\ c # 0
          BY <1>0, <4>2 DEF PlayersOK, Grounds
        <5> QED
          BY <1>8, <4>1, <4>2, <5>1
      <4> QED
        BY <4>2
    <3>3. ~Member(queue, p)
      BY <1>0, <2>4, QueuedOf
    <3>4. Moves(p, ground, player')
      <4>1. \A c \in Grounds : Expects(queue, ground, player', c, p) <=> Expects(queue, ground, player, c, p)
        BY <1>4, <2>2, <3>2, <3>3 DEF Expects, Promised, Member
      <4> QED
        BY <1>4, <1>6, <3>2, <3>3, <4>1 DEF Moves
    <3>5. PlayersOK(queue, ground, player') /\ CountOK(queue, ground, player')
      BY <3>4, MovedOf
    <3> QED
      BY <1>0, <1>1, <3>1, <3>5 DEF BgInv
  <2> QED
    BY <2>3, <2>4
<1> QED
  BY <1>7, <1>8

\* Back into the battle, off its list, or neither.
LEMMA LoginKeeps ==
  ASSUME BgInv, NEW p \in Players, Login(p)
  PROVE  BgInv'
<1> DEFINE b == player[p].bg
<1>0. QueueOK(queue) /\ FieldOK(ground) /\ PlayersOK(queue, ground, player)
      /\ freeQ \in Seq(Grounds) /\ timers \subseteq Timer
  BY DEF BgInv
<1>1. player[p].place = "offline" /\ queue' = queue /\ timers' = timers /\ freeQ' = freeQ
  BY DEF Login
<1>2. ground \in [Grounds -> Field] /\ player \in [Players -> Person] /\ player[p] \in Person
      /\ b \in 0..MaxGrounds
  BY <1>0 DEF FieldOK, PlayersOK, Person
<1>3. ~Member(queue, p)
  BY <1>0, <1>1 DEF PlayersOK
<1>4. CASE /\ b # 0 /\ p \in ground[b].members /\ ground[b].status # "leave"
           /\ ground' = [ground EXCEPT ![b].offline = RemoveFirst(@, p)]
           /\ player' = [player EXCEPT ![p] = [@ EXCEPT !.queued = TRUE, !.invite = b, !.place = "in"]]
  <2>1. b \in Grounds /\ ground[b] \in Field
    BY <1>2, <1>4, SizesAssumption DEF Grounds
  <2>2. ground[b].status # "free"
    BY <1>0, <1>4, <2>1 DEF FieldOK, NoGround
  <2> DEFINE f == [ground[b] EXCEPT !.offline = RemoveFirst(@, p)]
             x == [player[p] EXCEPT !.queued = TRUE, !.invite = b, !.place = "in"]
  <2>3. /\ f \in Field /\ f.members = ground[b].members
        /\ f.invited = ground[b].invited /\ f.status = ground[b].status
    <3>1. ground[b].offline \in Seq(Players)
      BY <2>1 DEF Field
    <3>2. RemoveFirst(ground[b].offline, p) \in Seq(Players)
      BY <3>1, RemoveFirstOf
    <3> QED
      BY <2>1, <3>2 DEF Field
  <2>4. x \in Person /\ x.bg = b /\ x.place = "in"
    BY <1>2 DEF Person
  <2>5. ground' = [ground EXCEPT ![b] = f] /\ player' = [player EXCEPT ![p] = x]
    BY <1>4
  <2> HIDE DEF f, x
  <2>6. /\ ground' \in [Grounds -> Field]
        /\ \A c \in Grounds : /\ ground'[c].members = ground[c].members
                              /\ ground'[c].invited = ground[c].invited
                              /\ ground'[c].status = ground[c].status
                              /\ c # b => ground'[c] = ground[c]
    BY <1>2, <2>1, <2>3, <2>5
  <2>7. /\ player' \in [Players -> Person] /\ player'[p] = x
        /\ \A r \in Players \ {p} : player'[r] = player[r]
    BY <1>2, <2>4, <2>5
  <2>8. FieldOK(ground')
    BY <1>0, <2>2, <2>6 DEF FieldOK
  <2>9. \A c \in Grounds : p \in ground[c].members <=> c = b
    BY <1>0, <1>4 DEF PlayersOK
  <2>10. Moves(p, ground', player')
    <3>1. \A c \in Grounds : Expects(queue, ground', player', c, p) <=> Expects(queue, ground, player, c, p)
      BY <1>1, <2>4, <2>6, <2>7 DEF Expects
    <3>2. \A c \in Grounds : p \in ground'[c].members =>
            player'[p].bg = c /\ player'[p].place \in {"in", "offline"}
      BY <2>4, <2>6, <2>7, <2>9
    <3>3. Seated(player'[p])
      BY <1>4, <2>4, <2>7 DEF Seated
    <3> QED
      BY <1>3, <2>6, <2>7, <3>1, <3>2, <3>3 DEF Moves
  <2>11. PlayersOK(queue, ground', player') /\ CountOK(queue, ground', player')
    BY <2>10, MovedOf
  <2> QED
    BY <1>0, <1>1, <2>8, <2>11 DEF BgInv
<1>5. ASSUME player' = [player EXCEPT ![p].bg = 0, ![p].place = "world"]
      PROVE  /\ player' \in [Players -> Person] /\ player'[p].bg = 0 /\ player'[p].place = "world"
             /\ \A r \in Players \ {p} : player'[r] = player[r]
  <2> DEFINE x == [player[p] EXCEPT !.bg = 0, !.place = "world"]
  <2>0. 0 \in 0..MaxGrounds
    BY SizesAssumption
  <2>1. x \in Person /\ x.bg = 0 /\ x.place = "world"
    BY <1>2, <2>0 DEF Person
  <2>2. player' = [player EXCEPT ![p] = x]
    BY <1>2, <1>5
  <2> HIDE DEF x
  <2> QED
    BY <1>2, <2>1, <2>2
<1>6. CASE /\ b # 0 /\ p \in ground[b].members /\ ground[b].status = "leave"
           /\ ground' = [ground EXCEPT ![b] = DecreaseInvitedCount(
                             [ground[b] EXCEPT !.members = @ \ {p}], TeamOf[p], 1)]
           /\ player' = [player EXCEPT ![p].bg = 0, ![p].place = "world"]
  <2>1. b \in Grounds /\ ground[b] \in Field
    BY <1>2, <1>6, SizesAssumption DEF Grounds
  <2> DEFINE g == [ground[b] EXCEPT !.members = @ \ {p}]
             d == DecreaseInvitedCount(g, TeamOf[p], 1)
  <2>2. /\ g \in Field /\ g.members = ground[b].members \ {p}
        /\ g.invited = ground[b].invited /\ g.status = ground[b].status
    BY <2>1 DEF Field
  <2>3. ground' = [ground EXCEPT ![b] = d]
    BY <1>6
  <2> HIDE DEF g
  <2>4. /\ d \in Field /\ d.members = g.members /\ d.status = g.status
        /\ \A t \in Teams : d.invited[t] = (g.invited[t] - Size({p}, t)) % Wrap
    BY <2>2, DecreasedOf
  <2> HIDE DEF d
  <2>5. ground' \in [Grounds -> Field] /\ ground'[b] = d /\ \A c \in Grounds \ {b} : ground'[c] = ground[c]
    BY <1>2, <2>1, <2>3, <2>4
  <2>6. Departs({p}, b, ground', player')
    <3>1. ground'[b].status # "free"
      BY <1>6, <2>2, <2>4, <2>5
    <3> QED
      BY <1>5, <1>6, <2>2, <2>4, <2>5, <3>1 DEF Departs
  <2>7. {p} \subseteq ground[b].members
    BY <1>6
  <2>8. FieldOK(ground') /\ PlayersOK(queue, ground', player') /\ CountOK(queue, ground', player')
    BY <2>1, <2>6, <2>7, DepartedOf
  <2> QED
    BY <1>0, <1>1, <2>8 DEF BgInv
<1>7. CASE /\ ~(b # 0 /\ p \in ground[b].members) /\ ground' = ground
           /\ player' = [player EXCEPT ![p].bg = 0, ![p].place = "world"]
  <2>1. \A c \in Grounds : p \notin ground[c].members
    BY <1>0, <1>7 DEF PlayersOK, Grounds
  <2>2. Moves(p, ground, player')
    <3>1. \A c \in Grounds : Expects(queue, ground, player', c, p) <=> Expects(queue, ground, player, c, p)
      BY <1>1, <1>5, <1>7 DEF Expects
    <3>2. Seated(player'[p])
      BY <1>5, <1>7 DEF Seated
    <3> QED
      BY <1>3, <1>5, <1>7, <2>1, <3>1, <3>2 DEF Moves
  <2>3. PlayersOK(queue, ground, player') /\ CountOK(queue, ground, player')
    BY <2>2, MovedOf
  <2> QED
    BY <1>0, <1>1, <1>7, <2>3 DEF BgInv
<1> QED
  BY <1>4, <1>6, <1>7 DEF Login

-----------------------------------------------------------------------------
(* BattlegroundMgr::Update *)

\* A battleground changes its status, or is deleted when nobody is expected.
LEMMA GroundsSame ==
  ASSUME BgInv, FieldOK(ground'), player' = player,
         \A b \in Grounds : /\ ground'[b].members = ground[b].members
                            /\ \A t \in Teams : ground'[b].invited[t] = ground[b].invited[t]
  PROVE  PlayersOK(queue, ground', player') /\ CountOK(queue, ground', player')
<1>0. PlayersOK(queue, ground, player) /\ CountOK(queue, ground, player)
  BY DEF BgInv
<1>1. \A b \in Grounds, r \in Players :
        Expects(queue, ground', player', b, r) <=> Expects(queue, ground, player, b, r)
  BY DEF Expects
<1>2. CountOK(queue, ground', player')
  BY <1>0, <1>1, CountSame
<1>3. PlayersOK(queue, ground', player')
  BY <1>0 DEF PlayersOK
<1> QED
  BY <1>2, <1>3

\* The battle is decided.
LEMMA EndBattlegroundKeeps ==
  ASSUME BgInv, NEW b \in Grounds, EndBattleground(b)
  PROVE  BgInv'
<1>0. QueueOK(queue) /\ FieldOK(ground) /\ freeQ \in Seq(Grounds) /\ timers \subseteq Timer
  BY DEF BgInv
<1>1. /\ ground' = [ground EXCEPT ![b].status = "leave"] /\ freeQ' = RemoveFirst(freeQ, b)
      /\ player' = player /\ queue' = queue /\ timers' = timers
  BY DEF EndBattleground
<1>2. ground \in [Grounds -> Field]
  BY <1>0 DEF FieldOK
<1> DEFINE f == [ground[b] EXCEPT !.status = "leave"]
<1>3. f \in Field /\ f.members = ground[b].members /\ f.invited = ground[b].invited /\ f.status = "leave"
  BY <1>2 DEF Field
<1>4. ground' = [ground EXCEPT ![b] = f]
  BY <1>1, <1>2
<1> HIDE DEF f
<1>5. ground' \in [Grounds -> Field] /\ ground'[b] = f /\ \A c \in Grounds \ {b} : ground'[c] = ground[c]
  BY <1>2, <1>3, <1>4
<1>6. FieldOK(ground')
  BY <1>0, <1>3, <1>5 DEF FieldOK
<1>7. \A c \in Grounds : /\ ground'[c].members = ground[c].members
                         /\ \A t \in Teams : ground'[c].invited[t] = ground[c].invited[t]
  BY <1>3, <1>5
<1>8. PlayersOK(queue, ground', player') /\ CountOK(queue, ground', player')
  BY <1>1, <1>6, <1>7, GroundsSame
<1>9. freeQ' \in Seq(Grounds)
  BY <1>0, <1>1, RemoveFirstOf
<1> QED
  BY <1>0, <1>1, <1>6, <1>8, <1>9 DEF BgInv

\* The timers of the invitations run.
LEMMA BeginUpdateKeeps ==
  ASSUME BgInv, BeginUpdate
  PROVE  BgInv' /\ \A p : Member(queue', p) <=> Member(queue, p)
<1> DEFINE F == [g \in Entry |-> [g EXCEPT !.left = Later(@)]]
<1>0. /\ QueueOK(queue) /\ FieldOK(ground) /\ PlayersOK(queue, ground, player)
      /\ CountOK(queue, ground, player) /\ timers \subseteq Timer
  BY DEF BgInv
<1>1. /\ timers' = {[e EXCEPT !.left = Later(@)] : e \in timers}
      /\ queue' = [x \in DOMAIN queue |->
                     [i \in DOMAIN queue[x] |-> [queue[x][i] EXCEPT !.left = Later(@)]]]
      /\ ground' = ground /\ player' = player /\ freeQ' = freeQ
  BY DEF BeginUpdate
<1>2. \A n \in 0..InviteTime : Later(n) \in 0..InviteTime
  BY SizesAssumption DEF Later
<1>3. /\ F \in [Entry -> Entry]
      /\ \A g \in Entry : F[g].members = g.members /\ F[g].invited = g.invited
  BY <1>2 DEF Entry
<1>4. DOMAIN queue = Kinds /\ \A x \in Kinds : queue[x] \in Seq(Entry)
  BY <1>0 DEF QueueOK, Queues
<1>5. queue' = [x \in Kinds |-> [i \in DOMAIN queue[x] |-> F[queue[x][i]]]]
  <2>1. \A x \in Kinds : \A i \in DOMAIN queue[x] : queue[x][i] \in Entry
    BY <1>4
  <2> QED
    BY <1>1, <1>4, <2>1
<1> HIDE DEF F
<1>6. /\ QueueOK(queue')
      /\ \A h : h \in GroupsIn(queue') <=> \E g \in GroupsIn(queue) : h = F[g]
      /\ \A p : Member(queue', p) <=> Member(queue, p)
  BY <1>0, <1>3, <1>5, MappedOf
<1>7. GroupsIn(queue) \subseteq Entry
  BY <1>0, GroupsOf DEF QueueOK
<1>8. ASSUME NEW b \in Grounds, NEW p \in Players
      PROVE  Promised(queue', p, b) <=> Promised(queue, p, b)
  BY <1>3, <1>6, <1>7 DEF Promised
<1>9. CountOK(queue', ground', player')
  <2>1. \A b \in Grounds, p \in Players :
          Expects(queue', ground', player', b, p) <=> Expects(queue, ground, player, b, p)
    BY <1>1, <1>8 DEF Expects
  <2> QED
    BY <1>0, <1>1, <2>1, CountSame
<1>10. PlayersOK(queue', ground', player')
  <2>1. \A h \in GroupsIn(queue') : \A p \in h.members : player'[p].invite = h.invited
    BY <1>0, <1>1, <1>3, <1>6, <1>7 DEF PlayersOK
  <2> QED
    BY <1>0, <1>1, <1>6, <2>1 DEF PlayersOK
<1>11. timers' \subseteq Timer
  <2>1. ASSUME NEW e \in Timer PROVE [e EXCEPT !.left = Later(@)] \in Timer
    BY <1>2 DEF Timer
  <2> QED
    BY <1>0, <1>1, <2>1
<1>12. BgInv'
  BY <1>0, <1>1, <1>6, <1>9, <1>10, <1>11 DEF BgInv
<1> QED
  BY <1>6, <1>12

\* One battleground is updated.
LEMMA UpdateGroundKeeps ==
  ASSUME BgInv, NEW b \in Grounds, UpdateGround(b)
  PROVE  BgInv'
<1>0. /\ QueueOK(queue) /\ FieldOK(ground) /\ PlayersOK(queue, ground, player)
      /\ CountOK(queue, ground, player) /\ freeQ \in Seq(Grounds) /\ timers \subseteq Timer
  BY DEF BgInv
<1>1. queue' = queue /\ timers' = timers
  BY DEF UpdateGround
<1>2. ground \in [Grounds -> Field] /\ ground[b] \in Field
  BY <1>0 DEF FieldOK
<1>3. ASSUME NEW f \in Field, ground' = [ground EXCEPT ![b] = f], player' = player,
             f.status = "free" => f = NoGround, f.members = ground[b].members,
             \A t \in Teams : f.invited[t] = ground[b].invited[t], freeQ' \in Seq(Grounds)
      PROVE  BgInv'
  <2>1. ground' \in [Grounds -> Field] /\ ground'[b] = f /\ \A c \in Grounds \ {b} : ground'[c] = ground[c]
    BY <1>2, <1>3
  <2>2. FieldOK(ground')
    BY <1>0, <1>3, <2>1 DEF FieldOK
  <2>3. \A c \in Grounds : /\ ground'[c].members = ground[c].members
                           /\ \A t \in Teams : ground'[c].invited[t] = ground[c].invited[t]
    BY <1>3, <2>1
  <2>4. PlayersOK(queue, ground', player') /\ CountOK(queue, ground', player')
    BY <1>3, <2>2, <2>3, GroundsSame
  <2> QED
    BY <1>0, <1>1, <1>3, <2>2, <2>4 DEF BgInv
<1>4. CASE DeleteGround(b)
  <2>1. /\ ground' = [ground EXCEPT ![b] = NoGround] /\ freeQ' = RemoveFirst(freeQ, b)
        /\ player' = player /\ ToBeDeleted(ground[b])
    BY <1>4 DEF DeleteGround
  <2>2. NoGround \in Field
    <3>1. Wrap \in Nat \ {0}
      <4>1. Cardinality({}) < Wrap /\ Cardinality({}) \in Nat
        BY PlayersFinite
      <4> QED
        BY <4>1, SizesAssumption
    <3>2. 0 \in 0..(Wrap - 1) /\ <<>> \in Seq(Players)
      BY <3>1
    <3> QED
      BY <3>2 DEF NoGround, Field
  <2>3. /\ NoGround.members = ground[b].members
        /\ \A t \in Teams : NoGround.invited[t] = ground[b].invited[t]
    BY <2>1 DEF NoGround, ToBeDeleted
  <2>4. freeQ' \in Seq(Grounds)
    BY <1>0, <2>1, RemoveFirstOf
  <2> QED
    BY <1>3, <2>1, <2>2, <2>3, <2>4
<1>5. CASE StartBattle(b)
  <2> DEFINE f == [ground[b] EXCEPT !.status = "progress"]
  <2>1. f \in Field /\ f.members = ground[b].members /\ f.invited = ground[b].invited /\ f.status = "progress"
    BY <1>2 DEF Field
  <2>2. ground' = [ground EXCEPT ![b] = f] /\ freeQ' = freeQ /\ player' = player
    BY <1>2, <1>5 DEF StartBattle
  <2> HIDE DEF f
  <2> QED
    BY <1>0, <1>3, <2>1, <2>2
<1>6. CASE ProcessOfflineQueue(b)
  <2> DEFINE away == ground[b].offline
             g == [ground[b] EXCEPT !.offline = Tail(away)]
  <2>1. /\ ground[b].status = "progress" /\ away # <<>> /\ Head(away) \in ground[b].members
        /\ RemovePlayersAtLeave({Head(away)}, b, g)
    BY <1>6 DEF ProcessOfflineQueue
  <2>2. /\ g \in Field /\ g.members = ground[b].members
        /\ g.invited = ground[b].invited /\ g.status = "progress"
    <3>1. Tail(away) \in Seq(Players)
      BY <1>2, <2>1 DEF Field
    <3> QED
      BY <1>2, <2>1, <3>1 DEF Field
  <2>3. {Head(away)} \subseteq ground[b].members
    BY <2>1
  <2> HIDE DEF g, away
  <2>4. g.status # "free"
    BY <2>2
  <2>5. /\ FieldOK(ground') /\ PlayersOK(queue, ground', player')
        /\ CountOK(queue, ground', player') /\ freeQ' \in Seq(Grounds)
    BY <2>1, <2>2, <2>3, <2>4, LeftOf
  <2> QED
    BY <1>0, <1>1, <2>5 DEF BgInv
<1>7. CASE ProcessLeave(b)
  <2>1. ground[b].status # "free" /\ RemovePlayersAtLeave(ground[b].members, b, ground[b])
    BY <1>7 DEF ProcessLeave
  <2>2. /\ FieldOK(ground') /\ PlayersOK(queue, ground', player')
        /\ CountOK(queue, ground', player') /\ freeQ' \in Seq(Grounds)
    BY <1>2, <2>1, LeftOf
  <2> QED
    BY <1>0, <1>1, <2>2 DEF BgInv
<1>8. CASE Idle(b)
  <2>1. ground' = ground /\ freeQ' = freeQ /\ player' = player
    BY <1>8 DEF Idle
  <2> QED
    BY <1>0, <1>1, <2>1 DEF BgInv
<1>9. CASE EndNow(b)
  <2> DEFINE f == [ground[b] EXCEPT !.status = "leave"]
  <2>1. f \in Field /\ f.members = ground[b].members /\ f.invited = ground[b].invited /\ f.status = "leave"
    BY <1>2 DEF Field
  <2>2. ground' = [ground EXCEPT ![b] = f] /\ freeQ' = RemoveFirst(freeQ, b) /\ player' = player
    BY <1>2, <1>9 DEF EndNow
  <2>3. freeQ' \in Seq(Grounds)
    BY <1>0, <2>2, RemoveFirstOf
  <2> HIDE DEF f
  <2> QED
    BY <1>3, <2>1, <2>2, <2>3
<1> QED
  BY <1>4, <1>5, <1>6, <1>7, <1>8, <1>9 DEF UpdateGround

\* A timer runs out.
LEMMA RemoveEventKeeps ==
  ASSUME BgInv, NEW e \in timers, RemoveEvent(e)
  PROVE  BgInv'
<1> DEFINE p == e.player
<1>0. /\ QueueOK(queue) /\ FieldOK(ground) /\ PlayersOK(queue, ground, player)
      /\ CountOK(queue, ground, player) /\ freeQ \in Seq(Grounds) /\ timers \subseteq Timer
  BY DEF BgInv
<1>1. timers' \subseteq Timer /\ freeQ' = freeQ /\ p \in Players
  BY <1>0 DEF RemoveEvent, Timer
<1>2. CASE FindPlayer(p) /\ player[p].queued /\ IsPlayerInvited(e)
  <2>1. RemovePlayer(p, TRUE) /\ RemoveBattlegroundQueueId({p})
    BY <1>2 DEF RemoveEvent
  <2>2. Queued(p)
    BY <1>2 DEF IsPlayerInvited, Invited
  <2> HIDE DEF p
  <2>3. player \in [Players -> Person] /\ player[p] \in Person
    BY <1>0, <1>1 DEF PlayersOK
  <2>4. player[p].place \in {"world", "loading"}
    BY <1>0, <1>1, <2>2, QueuedOf DEF PlayersOK
  <2>5. player' = [r \in Players |-> IF r \in {p} THEN [player[r] EXCEPT !.queued = FALSE, !.invite = 0]
                                     ELSE player[r]]
    BY <2>1 DEF RemoveBattlegroundQueueId
  <2>6. /\ player' \in [Players -> Person] /\ player'[p].place \notin {"entering", "in"}
        /\ \A r \in Players \ {p} : player'[r] = player[r]
    <3>1. /\ [player[p] EXCEPT !.queued = FALSE, !.invite = 0] \in Person
          /\ [player[p] EXCEPT !.queued = FALSE, !.invite = 0].place = player[p].place
      BY <2>3, PersonOf
    <3> QED
      BY <1>1, <2>3, <2>4, <2>5, <3>1
  <2>7. /\ QueueOK(queue') /\ FieldOK(ground')
        /\ PlayersOK(queue', ground', player') /\ CountOK(queue', ground', player')
    BY <1>1, <2>1, <2>2, <2>6, RemovedOf
  <2> QED
    BY <1>0, <1>1, <2>7 DEF BgInv
<1>3. CASE ~(FindPlayer(p) /\ player[p].queued /\ IsPlayerInvited(e))
  <2>1. queue' = queue /\ ground' = ground /\ player' = player
    BY <1>3 DEF RemoveEvent
  <2> QED
    BY <1>0, <1>1, <2>1 DEF BgInv
<1> QED
  BY <1>2, <1>3

-----------------------------------------------------------------------------
(* Selecting the groups to invite *)

\* The players of the groups of G.
Everyone(G) == UNION {g.members : g \in G}

\* They are players.
LEMMA EveryoneOf ==
  ASSUME NEW G, G \subseteq Entry
  PROVE  Everyone(G) \subseteq Players /\ Cardinality(Everyone(G)) \in Nat
<1>1. Everyone(G) \subseteq Players
  BY DEF Everyone, Entry
<1> QED
  BY <1>1, PlayersFinite

\* The pools that hold groups of A, and room for m players at most.
Pools(A, m) ==
  {x \in [groups : SUBSET A, count : 0..m, more : BOOLEAN] :
     Cardinality(Everyone(x.groups)) <= x.count}

\* A pool counts at least the players in it, and no more than it may.
LEMMA PoolsOf ==
  ASSUME NEW A, NEW m \in Nat, NEW x \in Pools(A, m)
  PROVE  /\ x.groups \subseteq A /\ x.count \in Nat /\ x.count <= m
         /\ Cardinality(Everyone(x.groups)) <= x.count
  BY DEF Pools

\* The empty pool.
LEMMA EmptyPoolOf ==
  ASSUME NEW A, NEW m \in Nat
  PROVE  EmptyPool \in Pools(A, m) /\ EmptyPool.count = 0
<1>1. Everyone({}) = {}
  BY DEF Everyone
<1>2. Cardinality({}) = 0
  BY FS_EmptySet
<1>3. Cardinality(Everyone({})) = 0
  BY <1>1, <1>2, Zenon
<1>4. /\ EmptyPool \in [groups : SUBSET A, count : 0..m, more : BOOLEAN]
      /\ EmptyPool.count = 0 /\ EmptyPool.groups = {}
  BY DEF EmptyPool
<1>5. Cardinality(Everyone(EmptyPool.groups)) = 0
  BY <1>3, <1>4, Zenon
<1>6. Cardinality(Everyone(EmptyPool.groups)) <= EmptyPool.count
  BY <1>4, <1>5
<1> QED
  BY <1>4, <1>6 DEF Pools

\* SelectionPool::AddGroup takes a group that is not invited, if it fits.
LEMMA AddGroupOf ==
  ASSUME NEW A, A \subseteq Entry, NEW m \in Nat, NEW pool \in Pools(A, m),
         NEW g \in Entry, g.invited = 0 => g \in A, NEW n \in Nat, n <= m
  PROVE  AddGroup(pool, g, n) \in Pools(A, m)
<1> DEFINE k == Cardinality(g.members)
           U == Everyone(pool.groups)
           V == Everyone(pool.groups \cup {g})
<1>1. /\ pool \in [groups : SUBSET A, count : 0..m, more : BOOLEAN]
      /\ pool.groups \subseteq A /\ pool.count \in Nat /\ pool.count <= m
      /\ Cardinality(U) <= pool.count
  BY DEF Pools
<1>2. g.members \subseteq Players /\ U \subseteq Players
  BY <1>1 DEF Entry, Everyone
<1>3. V = U \cup g.members
  BY DEF Everyone
<1> HIDE DEF U, V
<1>4. IsFiniteSet(U) /\ Cardinality(U) \in Nat /\ IsFiniteSet(g.members) /\ k \in Nat
  BY <1>2, PlayersFinite
<1>5. Cardinality(V) <= Cardinality(U) + k
  <2>1. Cardinality(U \cup g.members) = Cardinality(U) + Cardinality(g.members) - Cardinality(U \cap g.members)
    BY <1>4, FS_Union
  <2>2. U \cap g.members \subseteq Players
    BY <1>2
  <2>3. Cardinality(U \cap g.members) \in Nat
    BY <2>2, PlayersFinite
  <2>4. Cardinality(V) = Cardinality(U \cup g.members)
    BY <1>3, Zenon
  <2> HIDE DEF k
  <2>5. Cardinality(U \cup g.members) = Cardinality(U) + k - Cardinality(U \cap g.members)
    BY <2>1 DEF k
  <2> QED
    BY <1>4, <2>3, <2>4, <2>5
<1> HIDE DEF k
<1>6. CASE g.invited = 0 /\ n >= pool.count + k
  <2> DEFINE x == [groups |-> pool.groups \cup {g}, count |-> pool.count + k, more |-> TRUE]
  <2>1. AddGroup(pool, g, n) = x
    BY <1>6 DEF AddGroup, k
  <2>2. pool.groups \cup {g} \in SUBSET A /\ pool.count + k \in 0..m
    BY <1>1, <1>4, <1>6
  <2>3. /\ x \in [groups : SUBSET A, count : 0..m, more : BOOLEAN]
        /\ x.groups = pool.groups \cup {g} /\ x.count = pool.count + k
    BY <2>2
  <2> HIDE DEF x
  <2>4. Cardinality(Everyone(x.groups)) = Cardinality(V)
    BY <2>3, Zenon DEF V
  <2>5. Cardinality(V) \in Nat
    <3>1. V \subseteq Players
      BY <1>2, <1>3
    <3> QED
      BY <3>1, PlayersFinite
  <2>6. Cardinality(Everyone(x.groups)) <= x.count
    BY <1>1, <1>4, <1>5, <2>3, <2>4, <2>5
  <2> QED
    BY <2>1, <2>3, <2>6 DEF Pools
<1>7. CASE ~(g.invited = 0 /\ n >= pool.count + k)
  <2> DEFINE x == [pool EXCEPT !.more = pool.count < n]
  <2>1. AddGroup(pool, g, n) = x
    BY <1>7 DEF AddGroup, k
  <2>2. /\ x \in [groups : SUBSET A, count : 0..m, more : BOOLEAN]
        /\ x.groups = pool.groups /\ x.count = pool.count
    <3>1. (pool.count < n) \in BOOLEAN
      OBVIOUS
    <3> QED
      BY <1>1, <3>1
  <2> HIDE DEF x
  <2>3. Cardinality(Everyone(x.groups)) <= x.count
    BY <1>1, <2>2 DEF U
  <2> QED
    BY <2>1, <2>2, <2>3 DEF Pools
<1> QED
  BY <1>6, <1>7

\* The least of some numbers.
LEMMA LeastOf ==
  ASSUME NEW T, T \subseteq Nat, T # {}
  PROVE  Least(T) \in T /\ \A n \in T : Least(T) <= n
<1>1. \E n \in T : \A m \in T : n <= m
  BY LeastElement
<1> QED
  BY <1>1 DEF Least

\* What is free is free: places taken and places offered are no more than
\* there are.
LEMMA FreeSlotsOf ==
  ASSUME NEW g \in Field, NEW t \in Teams, \A u \in Teams : g.invited[u] <= MaxPlayersPerTeam
  PROVE  /\ GetFreeSlotsForTeam(g, t) \in Nat
         /\ g.invited[t] + GetFreeSlotsForTeam(g, t) <= MaxPlayersPerTeam
<1> DEFINE in(x)   == Size(g.members, x)
           u       == Other(t)
           entered == IF in(t) > in(u)
                      THEN IF g.invited[t] <= MinPlayersPerTeam
                           THEN MinPlayersPerTeam - g.invited[t] + 1 ELSE 0
                      ELSE Allowed(in(t), in(u))
           a       == Allowed(g.invited[t], g.invited[u])
           f       == FreeSlots(t, g)
           T       == {a, f, entered}
<1>1. u \in Teams
  BY DEF Other, Teams
<1>2. /\ \A x \in Teams : g.invited[x] \in Nat
      /\ MaxPlayersPerTeam \in Nat /\ MinPlayersPerTeam \in Nat
  <2>1. \A x \in Teams : g.invited[x] \in 0..(Wrap - 1)
    BY DEF Field
  <2> QED
    BY <2>1, SizesAssumption
<1>3. \A x \in Teams : in(x) \in Nat
  <2>1. ASSUME NEW x \in Teams PROVE in(x) \in Nat
    <3>1. {p \in g.members : TeamOf[p] = x} \subseteq Players
      BY DEF Field
    <3> QED
      BY <3>1, PlayersFinite DEF Size
  <2> QED
    BY <2>1
<1>4. f \in Nat /\ g.invited[t] + f <= MaxPlayersPerTeam
  BY <1>2 DEF FreeSlots
<1>5. \A m, n \in Nat : Allowed(m, n) \in Nat
  BY DEF Allowed
<1>6. a \in Nat
  BY <1>1, <1>2, <1>5
<1>7. entered \in Nat
  <2>1. in(t) \in Nat /\ in(u) \in Nat /\ g.invited[t] \in Nat
    BY <1>1, <1>2, <1>3
  <2> HIDE DEF in, u
  <2>2. CASE in(t) > in(u)
    BY <1>2, <2>1, <2>2
  <2>3. CASE ~(in(t) > in(u))
    BY <1>5, <2>1, <2>3
  <2> QED
    BY <2>2, <2>3
<1>8. GetFreeSlotsForTeam(g, t) = CASE g.status = "join" -> f
                                    [] g.status = "progress" -> Least(T)
                                    [] OTHER -> 0
  BY DEF GetFreeSlotsForTeam
<1> HIDE DEF f, a, entered, in, u
<1>9. Least(T) \in Nat /\ Least(T) <= f
  <2>1. T \subseteq Nat /\ T # {} /\ f \in T
    BY <1>4, <1>6, <1>7
  <2> HIDE DEF T
  <2> QED
    BY <2>1, LeastOf
<1> HIDE DEF T
<1>10. CASE g.status = "join"
  BY <1>4, <1>8, <1>10
<1>11. CASE g.status = "progress"
  <2>1. GetFreeSlotsForTeam(g, t) = Least(T)
    BY <1>8, <1>11
  <2> QED
    BY <1>2, <1>4, <1>9, <2>1
<1>12. CASE g.status \notin {"join", "progress"}
  <2>1. GetFreeSlotsForTeam(g, t) = 0
    BY <1>8, <1>12
  <2> QED
    BY <1>2, <2>1
<1> QED
  BY <1>10, <1>11, <1>12

\* The loops over the normal queue of a team: whatever AddGroup keeps of the
\* pool holds at their end.
LEMMA FillOf ==
  ASSUME NEW s, NEW b, NEW t, NEW S, EmptyPool \in S,
         NEW E, s.queue[<<"normal", t>>] \in Seq(E),
         \A pool \in S : \A g \in Range(s.queue[<<"normal", t>>]) :
            AddGroup(pool, g, GetFreeSlotsForTeam(s.ground[b], t)) \in S
  PROVE  FillPlayersToBG(s, b, t) \in S
<1> DEFINE q == s.queue[<<"normal", t>>]
           n == Len(q)
           free == GetFreeSlotsForTeam(s.ground[b], t)
           add(pool, g) == IF pool.more THEN AddGroup(pool, g, free) ELSE pool
           after == CHOOSE f : f = [i \in 0..n |-> IF i = 0 THEN EmptyPool ELSE add(f[i - 1], q[i])]
           F == [x \in S \X (1..n) |-> add(x[1], q[x[2]])]
<1>1. n \in Nat /\ q \in Seq(E) /\ \A i \in 1..n : q[i] \in Range(q)
  BY RangeOf
<1>2. FillPlayersToBG(s, b, t) = after[n]
  BY DEF FillPlayersToBG, Through
<1> HIDE DEF q, n, free
<1>3. \A pool \in S : \A i \in 1..n : add(pool, q[i]) \in S
  BY <1>1 DEF q, free
<1> HIDE DEF add
<1>4. \A x \in S : \A i \in 1..n : F[<<x, i>>] = add(x, q[i]) /\ F[<<x, i>>] \in S
  BY <1>3
<1> HIDE DEF F
<1>5. PICK f : Run(S, EmptyPool, n, F, f)
  <2>1. Rounds(S, n, F)
    BY <1>4 DEF Rounds
  <2> QED
    BY <1>1, <2>1, LoopExists
<1>6. f = [i \in 0..n |-> IF i = 0 THEN EmptyPool ELSE add(f[i - 1], q[i])]
  <2>1. f \in [0..n -> S] /\ f[0] = EmptyPool /\ \A i \in 1..n : f[i] = F[<<f[i - 1], i>>]
    BY <1>5 DEF Run
  <2>2. \A i \in 1..n : f[i - 1] \in S
    BY <1>1, <2>1
  <2>3. \A i \in 1..n : f[i] = add(f[i - 1], q[i])
    BY <1>4, <2>1, <2>2
  <2> QED
    BY <1>1, <2>1, <2>3
<1>7. after = [i \in 0..n |-> IF i = 0 THEN EmptyPool ELSE add(after[i - 1], q[i])]
  BY <1>6
<1> HIDE DEF after
<1>8. after[0] = EmptyPool /\ \A i \in 1..n : after[i] = add(after[i - 1], q[i])
  BY <1>1, <1>7
<1>9. \A i \in 0..n : after[i] \in S
  <2>1. after[0] \in S /\ \A i \in 1..n : after[i - 1] \in S => after[i] \in S
    BY <1>3, <1>8
  <2> QED
    BY <1>1, <2>1, LoopKeeps
<1>10. n \in 0..n
  BY <1>1
<1> QED
  BY <1>2, <1>9, <1>10, Zenon

\* The same for a new normal match.
LEMMA NormalOf ==
  ASSUME NEW s, NEW t, NEW S, EmptyPool \in S,
         NEW E, s.queue[<<"normal", t>>] \in Seq(E),
         \A pool \in S : \A g \in Range(s.queue[<<"normal", t>>]) :
            AddGroup(pool, g, MaxPlayersPerTeam) \in S
  PROVE  CheckNormalMatch(s, t) \in S
<1> DEFINE q == s.queue[<<"normal", t>>]
           n == Len(q)
           add(pool, g) == IF pool.count < MinPlayersPerTeam /\ g.invited = 0
                           THEN AddGroup(pool, g, MaxPlayersPerTeam) ELSE pool
           after == CHOOSE f : f = [i \in 0..n |-> IF i = 0 THEN EmptyPool ELSE add(f[i - 1], q[i])]
           F == [x \in S \X (1..n) |-> add(x[1], q[x[2]])]
<1>1. n \in Nat /\ q \in Seq(E) /\ \A i \in 1..n : q[i] \in Range(q)
  BY RangeOf
<1>2. CheckNormalMatch(s, t) = after[n]
  BY DEF CheckNormalMatch, Through
<1> HIDE DEF q, n
<1>3. \A pool \in S : \A i \in 1..n : add(pool, q[i]) \in S
  BY <1>1 DEF q
<1> HIDE DEF add
<1>4. \A x \in S : \A i \in 1..n : F[<<x, i>>] = add(x, q[i]) /\ F[<<x, i>>] \in S
  BY <1>3
<1> HIDE DEF F
<1>5. PICK f : Run(S, EmptyPool, n, F, f)
  <2>1. Rounds(S, n, F)
    BY <1>4 DEF Rounds
  <2> QED
    BY <1>1, <2>1, LoopExists
<1>6. f = [i \in 0..n |-> IF i = 0 THEN EmptyPool ELSE add(f[i - 1], q[i])]
  <2>1. f \in [0..n -> S] /\ f[0] = EmptyPool /\ \A i \in 1..n : f[i] = F[<<f[i - 1], i>>]
    BY <1>5 DEF Run
  <2>2. \A i \in 1..n : f[i - 1] \in S
    BY <1>1, <2>1
  <2>3. \A i \in 1..n : f[i] = add(f[i - 1], q[i])
    BY <1>4, <2>1, <2>2
  <2> QED
    BY <1>1, <2>1, <2>3
<1>7. after = [i \in 0..n |-> IF i = 0 THEN EmptyPool ELSE add(after[i - 1], q[i])]
  BY <1>6
<1> HIDE DEF after
<1>8. after[0] = EmptyPool /\ \A i \in 1..n : after[i] = add(after[i - 1], q[i])
  BY <1>1, <1>7
<1>9. \A i \in 0..n : after[i] \in S
  <2>1. after[0] \in S /\ \A i \in 1..n : after[i - 1] \in S => after[i] \in S
    BY <1>3, <1>8
  <2> QED
    BY <1>1, <2>1, LoopKeeps
<1>10. n \in 0..n
  BY <1>1
<1> QED
  BY <1>2, <1>9, <1>10, Zenon

\* The same for a premade match: it starts with the first group that waits.
LEMMA PremadeOf ==
  ASSUME NEW s, NEW t, NEW S, FirstPremade(s, t) \in S,
         NEW E, s.queue[<<"normal", t>>] \in Seq(E),
         \A pool \in S : \A g \in Range(s.queue[<<"normal", t>>]) :
            AddGroup(pool, g, Least({FirstPremade(s, u).count : u \in Teams})) \in S
  PROVE  PremadePool(s, t) \in S
<1> DEFINE q == s.queue[<<"normal", t>>]
           n == Len(q)
           start == FirstPremade(s, t)
           most == Least({FirstPremade(s, u).count : u \in Teams})
           add(pool, g) == IF pool.more /\ g.invited = 0 THEN AddGroup(pool, g, most) ELSE pool
           after == CHOOSE f : f = [i \in 0..n |-> IF i = 0 THEN start ELSE add(f[i - 1], q[i])]
           F == [x \in S \X (1..n) |-> add(x[1], q[x[2]])]
<1>1. n \in Nat /\ q \in Seq(E) /\ \A i \in 1..n : q[i] \in Range(q)
  BY RangeOf
<1>2. PremadePool(s, t) = after[n]
  BY DEF PremadePool, Through
<1> HIDE DEF q, n, most, start
<1>3. \A pool \in S : \A i \in 1..n : add(pool, q[i]) \in S
  BY <1>1 DEF q, most
<1> HIDE DEF add
<1>4. \A x \in S : \A i \in 1..n : F[<<x, i>>] = add(x, q[i]) /\ F[<<x, i>>] \in S
  BY <1>3
<1> HIDE DEF F
<1>5. PICK f : Run(S, start, n, F, f)
  <2>1. Rounds(S, n, F)
    BY <1>4 DEF Rounds
  <2>2. start \in S
    BY DEF start
  <2> QED
    BY <1>1, <2>1, <2>2, LoopExists
<1>6. f = [i \in 0..n |-> IF i = 0 THEN start ELSE add(f[i - 1], q[i])]
  <2>1. f \in [0..n -> S] /\ f[0] = start /\ \A i \in 1..n : f[i] = F[<<f[i - 1], i>>]
    BY <1>5 DEF Run
  <2>2. \A i \in 1..n : f[i - 1] \in S
    BY <1>1, <2>1
  <2>3. \A i \in 1..n : f[i] = add(f[i - 1], q[i])
    BY <1>4, <2>1, <2>2
  <2> QED
    BY <1>1, <2>1, <2>3
<1>7. after = [i \in 0..n |-> IF i = 0 THEN start ELSE add(after[i - 1], q[i])]
  BY <1>6
<1> HIDE DEF after
<1>8. after[0] = start /\ \A i \in 1..n : after[i] = add(after[i - 1], q[i])
  <2>1. 0 \in 0..n /\ \A i \in 1..n : i \in 0..n /\ i # 0
    BY <1>1
  <2> QED
    BY <1>7, <2>1, Zenon
<1>9. \A i \in 0..n : after[i] \in S
  <2>1. after[0] \in S /\ \A i \in 1..n : after[i - 1] \in S => after[i] \in S
    BY <1>3, <1>8 DEF start
  <2> QED
    BY <1>1, <2>1, LoopKeeps
<1>10. n \in 0..n
  BY <1>1
<1> QED
  BY <1>2, <1>9, <1>10, Zenon

\* The groups of H are selected for the teams: G[t] for team t, k[t] players at most.
Selects(q, G, k, H) ==
  /\ \A t \in Teams : /\ G[t] \subseteq Range(q[<<"premade", t>>]) \cup Range(q[<<"normal", t>>])
                      /\ k[t] \in Nat
                      /\ Cardinality(Everyone(G[t])) <= k[t]
  /\ \A h \in H : \E t \in Teams : h \in G[t]

\* Then there are k[t] players of team t among them at most.
LEMMA Together ==
  ASSUME NEW q, QueueOK(q), NEW G, NEW k, NEW H, Selects(q, G, k, H)
  PROVE  H \subseteq GroupsIn(q) /\ \A t \in Teams : Size(Everyone(H), t) <= k[t]
<1>0. q \in Queues
  BY DEF QueueOK
<1>1. \A t \in Teams : <<"premade", t>> \in Kinds /\ <<"normal", t>> \in Kinds
  BY DEF Kinds
<1>2. ASSUME NEW t \in Teams, NEW g \in G[t]
      PROVE  g \in GroupsIn(q) /\ g.members \subseteq Players /\ \A p \in g.members : TeamOf[p] = t
  <2>1. PICK x \in Kinds : x[2] = t /\ g \in Range(q[x])
    BY <1>1 DEF Selects
  <2>2. g \in GroupsIn(q) /\ g \in Entry
    BY <1>0, <2>1, GroupsOf
  <2>3. g.members \subseteq Players
    BY <2>2 DEF Entry
  <2> QED
    BY <2>1, <2>2, <2>3 DEF QueueOK
<1>3. ASSUME NEW t \in Teams
      PROVE  Size(Everyone(H), t) <= k[t]
  <2> DEFINE M == Everyone(H)
             B == {p \in M : TeamOf[p] = t}
             U == Everyone(G[t])
  <2>1. U \subseteq Players
    BY <1>2 DEF Everyone
  <2>2. B \subseteq U
    <3>1. ASSUME NEW p \in B PROVE p \in U
      <4>1. PICK u \in Teams : \E g \in G[u] : p \in g.members
        BY DEF Everyone, Selects
      <4>2. PICK g \in G[u] : p \in g.members
        BY <4>1
      <4>3. u = t
        BY <1>2, <4>2
      <4> QED
        BY <4>2, <4>3 DEF Everyone
    <3> QED
      BY <3>1
  <2>3. Size(M, t) = Cardinality(B)
    BY DEF Size
  <2>4. Cardinality(U) <= k[t] /\ k[t] \in Nat
    BY DEF Selects
  <2> HIDE DEF U, B, M
  <2>5. IsFiniteSet(U) /\ Cardinality(U) \in Nat
    BY <2>1, PlayersFinite
  <2>6. Cardinality(B) <= Cardinality(U) /\ Cardinality(B) \in Nat
    <3>1. B \subseteq Players
      BY <2>1, <2>2
    <3> QED
      BY <2>2, <2>5, <3>1, PlayersFinite, FS_Subset
  <2>7. Size(M, t) <= k[t]
    BY <2>3, <2>4, <2>5, <2>6
  <2> QED
    BY <2>7 DEF M
<1> QED
  BY <1>2, <1>3 DEF Selects

-----------------------------------------------------------------------------
(* The update of the queue *)

\* The state the update has reached, what the players know in it, and what of
\* the invariant holds in it.  Nobody joins or leaves the queue.
State == [queue : Queues, ground : [Grounds -> Field], freeQ : Seq(Grounds),
          timers : SUBSET Timer, told : [Players -> 0..MaxGrounds]]
Told(s) == [p \in Players |-> [player[p] EXCEPT !.invite = s.told[p]]]
StateOK(s) ==
  /\ s \in State
  /\ QueueOK(s.queue) /\ FieldOK(s.ground)
  /\ PlayersOK(s.queue, s.ground, Told(s)) /\ CountOK(s.queue, s.ground, Told(s))
  /\ \A p \in Players : Member(s.queue, p) <=> Member(queue, p)

\* Only the invitations change.
LEMMA ToldOf ==
  ASSUME player \in [Players -> Person], NEW s, s.told \in [Players -> 0..MaxGrounds]
  PROVE  /\ Told(s) \in [Players -> Person]
         /\ \A p \in Players : /\ Told(s)[p].place = player[p].place
                               /\ Told(s)[p].bg = player[p].bg
                               /\ Told(s)[p].invite = s.told[p]
                               /\ Told(s)[p].queued = player[p].queued
<1>1. ASSUME NEW x \in Person, NEW n \in 0..MaxGrounds
      PROVE  /\ [x EXCEPT !.invite = n] \in Person
             /\ [x EXCEPT !.invite = n].place = x.place
             /\ [x EXCEPT !.invite = n].bg = x.bg
             /\ [x EXCEPT !.invite = n].invite = n
  BY DEF Person
<1>2. ASSUME NEW x \in Person, NEW n \in 0..MaxGrounds
      PROVE  [x EXCEPT !.invite = n].queued = x.queued
  BY DEF Person
<1>3. \A p \in Players : /\ player[p] \in Person /\ s.told[p] \in 0..MaxGrounds
                         /\ Told(s)[p] = [player[p] EXCEPT !.invite = s.told[p]]
  BY DEF Told
<1>4. Told(s) \in [Players -> Person]
  BY <1>1, <1>3 DEF Told
<1>5. ASSUME NEW p \in Players
      PROVE  /\ Told(s)[p].place = player[p].place /\ Told(s)[p].bg = player[p].bg
             /\ Told(s)[p].invite = s.told[p] /\ Told(s)[p].queued = player[p].queued
  <2>1. PICK x \in Person : x = player[p]
    BY <1>3
  <2>2. PICK n \in 0..MaxGrounds : n = s.told[p]
    BY <1>3
  <2>3. Told(s)[p] = [x EXCEPT !.invite = n]
    BY <1>3, <2>1, <2>2
  <2>4. [x EXCEPT !.invite = n].queued = x.queued
    BY <1>2
  <2>5. Told(s)[p].queued = player[p].queued
    BY <2>1, <2>3, <2>4, Zenon
  <2> QED
    BY <1>1, <2>1, <2>2, <2>3, <2>5
<1> QED
  BY <1>4, <1>5

\* The groups of G are not invited, and battleground b has room for them.
Invitable(s, G, b) ==
  /\ G \subseteq GroupsIn(s.queue) /\ \A g \in G : g.invited = 0
  /\ \A t \in Teams : s.ground[b].invited[t] + Size(Everyone(G), t) <= MaxPlayersPerTeam

\* Everybody in the queue can be found.
Reachable == \A p \in Players : Queued(p) => FindPlayer(p)

\* What InviteGroupToBG does to a group of G, and to the others.
Marked(G, b) ==
  [g \in Entry |-> IF g \in G THEN [g EXCEPT !.invited = b, !.left = InviteTime] ELSE g]

\* In r the groups of G, with the players M, are invited to b, in s not yet.
Invites(s, G, b, r, M) ==
  /\ M \subseteq Players /\ \A p \in M : Member(s.queue, p)
  /\ r \in State /\ r.freeQ = s.freeQ
  /\ r.queue = [x \in Kinds |-> [i \in DOMAIN s.queue[x] |-> Marked(G, b)[s.queue[x][i]]]]
  /\ \A c \in Grounds : r.ground[c].members = s.ground[c].members
                        /\ r.ground[c].status = s.ground[c].status
  /\ \A c \in Grounds \ {b} : r.ground[c] = s.ground[c]
  /\ \A t \in Teams : r.ground[b].invited[t] = (s.ground[b].invited[t] + Size(M, t)) % Wrap
  /\ \A p \in Players : r.told[p] = IF p \in M THEN b ELSE s.told[p]
  /\ QueueOK(r.queue)
  /\ \A h : h \in GroupsIn(r.queue) <=> \E g \in GroupsIn(s.queue) : h = Marked(G, b)[g]
  /\ \A p : Member(r.queue, p) <=> Member(s.queue, p)

\* The parts of the state after the invitations, when everybody is found.
LEMMA InvitationsOf ==
  ASSUME BgInv, Reachable, NEW s, StateOK(s), NEW b \in Grounds, NEW G, Invitable(s, G, b),
         NEW r, r = InviteGroupsToBG(s, G, b), NEW M, M = Everyone(G)
  PROVE  Invites(s, G, b, r, M)
<1> DEFINE found == {p \in UNION {g.members : g \in G} : FindPlayer(p)}
           mark(g) == IF g \in G THEN [g EXCEPT !.invited = b, !.left = InviteTime] ELSE g
           Q == [x \in Kinds |-> [i \in DOMAIN s.queue[x] |-> Marked(G, b)[s.queue[x][i]]]]
           inv == [t \in Teams |-> (s.ground[b].invited[t] + Size(M, t)) % Wrap]
           f == [s.ground[b] EXCEPT !.invited = inv]
           Gr == [s.ground EXCEPT ![b] = f]
           T == s.timers \union [player : M, bg : {b}, left : {InviteTime}]
           W == [p \in Players |-> IF p \in M THEN b ELSE s.told[p]]
<1>0. /\ s \in State /\ QueueOK(s.queue) /\ s.queue \in Queues
      /\ \A p \in Players : Member(s.queue, p) <=> Member(queue, p)
  BY DEF StateOK, QueueOK
<1>1. GroupsIn(s.queue) \subseteq Entry /\ G \subseteq GroupsIn(s.queue)
  BY <1>0, GroupsOf DEF Invitable
<1>2. M \subseteq Players /\ \A p \in M : Member(s.queue, p)
  <2>1. \A g \in G : g.members \subseteq Players
    BY <1>1 DEF Entry
  <2> QED
    BY <1>1, <2>1 DEF Member, Everyone
<1>3. found = M
  <2>1. ASSUME NEW p \in M PROVE FindPlayer(p)
    <3>1. Queued(p)
      BY <1>0, <1>2, QueuedOf DEF BgInv
    <3> QED
      BY <1>2, <3>1 DEF Reachable
  <2> QED
    BY <2>1 DEF Everyone
<1>4. b \in 0..MaxGrounds /\ InviteTime \in 0..InviteTime
  BY SizesAssumption DEF Grounds
<1>5. /\ Marked(G, b) \in [Entry -> Entry]
      /\ \A g \in Entry : Marked(G, b)[g].members = g.members
  BY <1>4 DEF Marked, Entry
<1>6. /\ QueueOK(Q)
      /\ \A h : h \in GroupsIn(Q) <=> \E g \in GroupsIn(s.queue) : h = Marked(G, b)[g]
      /\ \A p : Member(Q, p) <=> Member(s.queue, p)
  <2>1. PICK F \in [Entry -> Entry] : F = Marked(G, b)
    BY <1>5
  <2>2. \A g \in Entry : F[g].members = g.members
    BY <1>5, <2>1
  <2>3. PICK q : q = s.queue
    OBVIOUS
  <2>4. Q = [x \in Kinds |-> [i \in DOMAIN q[x] |-> F[q[x][i]]]] /\ QueueOK(q)
    BY <1>0, <2>1, <2>3
  <2> HIDE DEF Q
  <2>5. /\ QueueOK(Q)
        /\ \A h : h \in GroupsIn(Q) <=> \E g \in GroupsIn(q) : h = F[g]
        /\ \A p : Member(Q, p) <=> Member(q, p)
    BY <2>2, <2>4, MappedOf
  <2> QED
    BY <2>1, <2>3, <2>5
<1>7. inv \in [Teams -> 0..(Wrap - 1)]
  <2>1. ASSUME NEW t \in Teams PROVE (s.ground[b].invited[t] + Size(M, t)) % Wrap \in 0..(Wrap - 1)
    <3>1. {p \in M : TeamOf[p] = t} \subseteq Players
      BY <1>2
    <3>2. Size(M, t) \in Nat
      BY <3>1, PlayersFinite DEF Size
    <3>3. s.ground[b].invited[t] \in 0..(Wrap - 1)
      BY <1>0 DEF State, Field
    <3>4. Wrap \in Nat \ {0}
      <4>1. Cardinality({}) < Wrap /\ Cardinality({}) \in Nat
        BY PlayersFinite
      <4> QED
        BY <4>1, SizesAssumption
    <3>5. s.ground[b].invited[t] + Size(M, t) \in Int
      BY <3>2, <3>3, <3>4
    <3> QED
      BY <3>4, <3>5
  <2> QED
    BY <2>1
<1>8. s.ground \in [Grounds -> Field] /\ s.ground[b] \in Field
  BY <1>0 DEF State
<1>9. /\ f \in Field /\ f.members = s.ground[b].members /\ f.status = s.ground[b].status
      /\ f.invited = inv
  <2> HIDE DEF inv
  <2> QED
    BY <1>7, <1>8 DEF Field
<1>10. r.queue = Q
  <2>1. r.queue = [x \in DOMAIN s.queue |-> [i \in DOMAIN s.queue[x] |-> mark(s.queue[x][i])]]
    BY <1>0 DEF InviteGroupsToBG, State
  <2>2. DOMAIN s.queue = Kinds /\ \A x \in Kinds : \A i \in DOMAIN s.queue[x] : s.queue[x][i] \in Entry
    BY <1>0 DEF Queues
  <2>3. \A g \in Entry : mark(g) = Marked(G, b)[g]
    BY DEF Marked
  <2> HIDE DEF mark
  <2> QED
    BY <2>1, <2>2, <2>3
<1>11. r.ground = Gr
  <2>1. r.ground = [s.ground EXCEPT ![b].invited =
                       [t \in Teams |-> (s.ground[b].invited[t] + Size(found, t)) % Wrap]]
    BY <1>0, <1>8 DEF InviteGroupsToBG, State
  <2> HIDE DEF found
  <2> QED
    BY <1>3, <1>8, <2>1
<1>12. r.timers = T
  <2>1. r.timers = s.timers \union [player : found, bg : {b}, left : {InviteTime}]
    BY <1>0 DEF InviteGroupsToBG, State
  <2> QED
    BY <1>3, <2>1
<1>13. r.told = W
  <2>1. r.told = [p \in Players |-> IF p \in found THEN b ELSE s.told[p]]
    BY <1>0 DEF InviteGroupsToBG, State
  <2> QED
    BY <1>3, <2>1
<1>14. r.freeQ = s.freeQ
  BY <1>0 DEF InviteGroupsToBG, State
<1> HIDE DEF f
<1>15. /\ Gr \in [Grounds -> Field] /\ Gr[b] = f /\ \A c \in Grounds \ {b} : Gr[c] = s.ground[c]
  BY <1>8, <1>9
<1> HIDE DEF Gr
<1>16. T \subseteq Timer
  <2>1. s.timers \subseteq Timer
    BY <1>0 DEF State
  <2>2. [player : M, bg : {b}, left : {InviteTime}] \subseteq Timer
    BY <1>2, <1>4 DEF Timer
  <2> QED
    BY <2>1, <2>2
<1>17. W \in [Players -> 0..MaxGrounds] /\ s.freeQ \in Seq(Grounds) /\ Q \in Queues
  <2>1. s.told \in [Players -> 0..MaxGrounds] /\ s.freeQ \in Seq(Grounds)
    BY <1>0 DEF State
  <2>2. Q \in Queues
    BY <1>6 DEF QueueOK
  <2> QED
    BY <1>4, <2>1, <2>2
<1> HIDE DEF T, W, Q
<1>18. r \in State
  <2>1. r = [s EXCEPT !.queue = r.queue, !.ground = r.ground, !.timers = r.timers, !.told = r.told]
    BY <1>0 DEF InviteGroupsToBG, State
  <2>2. /\ r.queue \in Queues /\ r.ground \in [Grounds -> Field]
        /\ r.timers \in SUBSET Timer /\ r.told \in [Players -> 0..MaxGrounds]
    BY <1>10, <1>11, <1>12, <1>13, <1>15, <1>16, <1>17
  <2>3. [s EXCEPT !.queue = r.queue, !.ground = r.ground, !.timers = r.timers, !.told = r.told] \in State
    BY <1>0, <2>2 DEF State
  <2> QED
    BY <2>1, <2>3, Zenon
<1>19. \A t \in Teams : r.ground[b].invited[t] = (s.ground[b].invited[t] + Size(M, t)) % Wrap
  BY <1>9, <1>11, <1>15
<1>20. \A p \in Players : r.told[p] = IF p \in M THEN b ELSE s.told[p]
  BY <1>13 DEF W
<1>21. \A c \in Grounds : r.ground[c].members = s.ground[c].members
                          /\ r.ground[c].status = s.ground[c].status
  BY <1>9, <1>11, <1>15
<1> QED
  BY <1>2, <1>6, <1>10, <1>11, <1>14, <1>15, <1>18, <1>19, <1>20, <1>21 DEF Q, Invites

\* The invitations to a battleground with room keep the counters right.
LEMMA InvitedOf ==
  ASSUME BgInv, Reachable, NEW s, StateOK(s), NEW b \in Grounds, s.ground[b].status # "free",
         NEW G, Invitable(s, G, b)
  PROVE  StateOK(InviteGroupsToBG(s, G, b))
<1>1. PICK r : r = InviteGroupsToBG(s, G, b)
  OBVIOUS
<1>2. PICK M : M = Everyone(G)
  OBVIOUS
<1>3. /\ M \subseteq Players /\ \A p \in M : Member(s.queue, p)
      /\ r \in State
      /\ \A c \in Grounds : r.ground[c].members = s.ground[c].members
                            /\ r.ground[c].status = s.ground[c].status
      /\ \A c \in Grounds \ {b} : r.ground[c] = s.ground[c]
      /\ \A t \in Teams : r.ground[b].invited[t] = (s.ground[b].invited[t] + Size(M, t)) % Wrap
      /\ \A p \in Players : r.told[p] = IF p \in M THEN b ELSE s.told[p]
      /\ QueueOK(r.queue)
      /\ \A h : h \in GroupsIn(r.queue) <=> \E g \in GroupsIn(s.queue) : h = Marked(G, b)[g]
      /\ \A p : Member(r.queue, p) <=> Member(s.queue, p)
  <2>1. Invites(s, G, b, r, M)
    BY <1>1, <1>2, InvitationsOf
  <2> QED
    BY <2>1 DEF Invites
<1>4. /\ s \in State /\ QueueOK(s.queue) /\ FieldOK(s.ground)
      /\ PlayersOK(s.queue, s.ground, Told(s)) /\ CountOK(s.queue, s.ground, Told(s))
      /\ \A p \in Players : Member(s.queue, p) <=> Member(queue, p)
  BY DEF StateOK
<1>5. /\ GroupsIn(s.queue) \subseteq Entry /\ G \subseteq GroupsIn(s.queue)
      /\ \A g \in G : g.invited = 0
  BY <1>4, GroupsOf DEF Invitable, QueueOK
<1>6. \A g \in Entry : /\ Marked(G, b)[g].members = g.members
                       /\ Marked(G, b)[g].invited = IF g \in G THEN b ELSE g.invited
  BY DEF Marked, Entry
<1>7. /\ \A p \in Players : /\ Told(s)[p].place = player[p].place /\ Told(s)[p].bg = player[p].bg
                            /\ Told(s)[p].invite = s.told[p] /\ Told(s)[p].queued = player[p].queued
      /\ \A p \in Players : /\ Told(r)[p].place = player[p].place /\ Told(r)[p].bg = player[p].bg
                            /\ Told(r)[p].invite = r.told[p] /\ Told(r)[p].queued = player[p].queued
      /\ Told(r) \in [Players -> Person]
  <2>1. player \in [Players -> Person]
    BY DEF BgInv, PlayersOK
  <2>2. s.told \in [Players -> 0..MaxGrounds] /\ r.told \in [Players -> 0..MaxGrounds]
    BY <1>3, <1>4 DEF State
  <2> QED
    BY <2>1, <2>2, ToldOf
<1>8. \A p \in M : /\ player[p].place \in {"world", "loading"}
                   /\ \A c \in Grounds : p \notin s.ground[c].members
  BY <1>3, <1>4, <1>7 DEF PlayersOK
<1>9. b # 0
  BY DEF Grounds
<1>10. ASSUME NEW g \in GroupsIn(s.queue), NEW p \in g.members
       PROVE  g \in G <=> p \in M
  <2>1. g \in G => p \in M
    BY <1>2 DEF Everyone
  <2>2. ASSUME p \in M PROVE g \in G
    <3>1. PICK h \in G : p \in h.members
      BY <1>2, <2>2 DEF Everyone
    <3>2. h = g
      BY <1>4, <1>5, <3>1 DEF QueueOK
    <3> QED
      BY <3>1, <3>2
  <2> QED
    BY <2>1, <2>2
<1>11. ASSUME NEW c \in Grounds, NEW p \in Players
       PROVE  Promised(r.queue, p, c) <=> Promised(s.queue, p, c) \/ (c = b /\ p \in M)
  <2>1. c # 0
    BY DEF Grounds
  <2>2. ASSUME NEW h \in GroupsIn(r.queue), p \in h.members, h.invited = c
        PROVE  Promised(s.queue, p, c) \/ (c = b /\ p \in M)
    <3>1. PICK g \in GroupsIn(s.queue) : h = Marked(G, b)[g]
      BY <1>3
    <3>2. p \in g.members /\ h.invited = IF g \in G THEN b ELSE g.invited
      BY <1>5, <1>6, <2>2, <3>1
    <3>3. CASE g \in G
      BY <1>10, <2>2, <3>2, <3>3
    <3>4. CASE g \notin G
      BY <1>10, <2>2, <3>2, <3>4 DEF Promised
    <3> QED
      BY <3>3, <3>4
  <2>3. ASSUME NEW g \in GroupsIn(s.queue), p \in g.members, g.invited = c
        PROVE  Promised(r.queue, p, c)
    <3>1. g \notin G
      BY <1>5, <2>1, <2>3
    <3>2. Marked(G, b)[g] \in GroupsIn(r.queue)
      BY <1>3
    <3> QED
      BY <1>5, <1>6, <2>3, <3>1, <3>2 DEF Promised
  <2>4. ASSUME c = b, p \in M PROVE Promised(r.queue, p, c)
    <3>1. PICK g \in G : p \in g.members
      BY <1>2, <2>4 DEF Everyone
    <3>2. Marked(G, b)[g] \in GroupsIn(r.queue)
      BY <1>3, <1>5
    <3> QED
      BY <1>5, <1>6, <2>4, <3>1, <3>2 DEF Promised
  <2> QED
    BY <2>2, <2>3, <2>4 DEF Promised
<1>12. ASSUME NEW p \in M, NEW c \in Grounds PROVE ~Promised(s.queue, p, c)
  <2>1. c # 0
    BY DEF Grounds
  <2> QED
    BY <1>5, <1>10, <2>1 DEF Promised
<1>13. ASSUME NEW c \in Grounds, NEW p \in Players
       PROVE  Expects(r.queue, r.ground, Told(r), c, p) <=>
                Expects(s.queue, s.ground, Told(s), c, p) \/ (c = b /\ p \in M)
  <2>1. /\ Told(r)[p].place = Told(s)[p].place /\ Told(r)[p].bg = Told(s)[p].bg
        /\ r.ground[c].members = s.ground[c].members
    BY <1>3, <1>7
  <2>2. Promised(r.queue, p, c) <=> Promised(s.queue, p, c) \/ (c = b /\ p \in M)
    BY <1>11
  <2> QED
    BY <2>1, <2>2 DEF Expects
<1>14. \A p \in M : ~Expects(s.queue, s.ground, Told(s), b, p)
  BY <1>3, <1>7, <1>8, <1>12 DEF Expects
<1>15. Adds(s.queue, s.ground, Told(s), r.queue, r.ground, Told(r), b, M)
  <2>1. \A t \in Teams : /\ r.ground[b].invited[t] = (s.ground[b].invited[t] + Size(M, t)) % Wrap
                         /\ s.ground[b].invited[t] + Size(M, t) <= MaxPlayersPerTeam
    BY <1>2, <1>3 DEF Invitable
  <2>2. \A c \in Grounds \ {b} : \A t \in Teams : r.ground[c].invited[t] = s.ground[c].invited[t]
    BY <1>3
  <2>3. \A c \in Grounds \ {b} : \A p \in Players :
          Expects(r.queue, r.ground, Told(r), c, p) <=> Expects(s.queue, s.ground, Told(s), c, p)
    BY <1>13
  <2>4. \A p \in Players : Expects(r.queue, r.ground, Told(r), b, p) <=>
                             Expects(s.queue, s.ground, Told(s), b, p) \/ p \in M
    BY <1>13
  <2> QED
    BY <1>14, <2>1, <2>2, <2>3, <2>4 DEF Adds
<1>16. CountOK(r.queue, r.ground, Told(r))
  BY <1>3, <1>4, <1>15, CountAdded
<1>17. FieldOK(r.ground)
  <2>1. r.ground \in [Grounds -> Field]
    BY <1>3 DEF State
  <2>2. ASSUME NEW c \in Grounds, r.ground[c].status = "free" PROVE r.ground[c] = NoGround
    <3>1. c # b
      BY <1>3, <2>2
    <3>2. r.ground[c] = s.ground[c]
      BY <1>3, <3>1
    <3> QED
      BY <1>4, <2>2, <3>2 DEF FieldOK
  <2> QED
    BY <2>1, <2>2 DEF FieldOK
<1>18. PlayersOK(r.queue, r.ground, Told(r))
  <2>1. ASSUME NEW p \in Players, NEW c \in Grounds, p \in r.ground[c].members
        PROVE  Told(r)[p].bg = c /\ Told(r)[p].place \in {"in", "offline"}
    <3>1. Told(s)[p].bg = c /\ Told(s)[p].place \in {"in", "offline"}
      BY <1>3, <1>4, <2>1 DEF PlayersOK
    <3> QED
      BY <1>7, <3>1
  <2>2. ASSUME NEW p \in Players, Member(r.queue, p)
        PROVE  Told(r)[p].queued /\ Told(r)[p].place \in {"world", "loading"}
    <3>1. Told(s)[p].queued /\ Told(s)[p].place \in {"world", "loading"}
      BY <1>3, <1>4, <2>2 DEF PlayersOK
    <3>2. Told(r)[p].queued = Told(s)[p].queued /\ Told(r)[p].place = Told(s)[p].place
      BY <1>7, Zenon
    <3> QED
      BY <3>1, <3>2, Zenon
  <2>3. ASSUME NEW p \in Players PROVE Seated(Told(r)[p])
    <3>1. Seated(Told(s)[p])
      BY <1>4 DEF PlayersOK
    <3>2. CASE p \in M
      BY <1>7, <1>8, <3>2 DEF Seated
    <3>3. CASE p \notin M
      BY <1>3, <1>7, <3>1, <3>3 DEF Seated
    <3> QED
      BY <3>2, <3>3
  <2>4. ASSUME NEW h \in GroupsIn(r.queue), NEW p \in h.members
        PROVE  Told(r)[p].invite = h.invited
    <3>1. PICK g \in GroupsIn(s.queue) : h = Marked(G, b)[g]
      BY <1>3
    <3>2. p \in g.members /\ h.invited = IF g \in G THEN b ELSE g.invited
      BY <1>5, <1>6, <3>1
    <3>3. p \in Players
      BY <1>5, <3>2 DEF Entry
    <3>4. Told(s)[p].invite = g.invited
      BY <1>4, <3>2 DEF PlayersOK
    <3>5. g \in G <=> p \in M
      BY <1>10, <3>2
    <3> QED
      BY <1>3, <1>7, <3>2, <3>3, <3>4, <3>5
  <2> QED
    BY <1>7, <2>1, <2>2, <2>3, <2>4 DEF PlayersOK
<1>19. StateOK(r)
  BY <1>3, <1>4, <1>16, <1>17, <1>18 DEF StateOK
<1> QED
  BY <1>1, <1>19

\* The same with another list of battlegrounds that have free slots.
LEMMA FreeQOf ==
  ASSUME NEW s, StateOK(s), NEW f \in Seq(Grounds)
  PROVE  StateOK([s EXCEPT !.freeQ = f])
<1>1. PICK r : r = [s EXCEPT !.freeQ = f]
  OBVIOUS
<1>2. s \in State
  BY DEF StateOK
<1>3. r \in State /\ r.queue = s.queue /\ r.ground = s.ground /\ r.told = s.told
  BY <1>1, <1>2 DEF State
<1>4. Told(r) = Told(s)
  BY <1>3 DEF Told
<1>5. StateOK(r)
  BY <1>3, <1>4 DEF StateOK
<1> QED
  BY <1>1, <1>5

\* A new battleground starts with the groups selected.
LEMMA StartNewOf ==
  ASSUME BgInv, Reachable, NEW s, StateOK(s), NEW G, G \subseteq GroupsIn(s.queue),
         \A g \in G : g.invited = 0, \A t \in Teams : Size(Everyone(G), t) <= MaxPlayersPerTeam
  PROVE  StateOK(StartNew(s, G))
<1> DEFINE ids == {b \in Grounds : s.ground[b].status = "free"}
           f == [NoGround EXCEPT !.status = "join"]
<1>1. CASE ids = {}
  <2>1. StartNew(s, G) = s
    BY <1>1 DEF StartNew
  <2> QED
    BY <2>1
<1>2. CASE ids # {}
  <2>1. PICK b : b = Least(ids)
    OBVIOUS
  <2>2. b \in Grounds /\ s.ground[b].status = "free"
    <3>1. ids \subseteq Nat
      BY DEF Grounds
    <3>2. b \in ids
      BY <1>2, <2>1, <3>1, LeastOf
    <3> QED
      BY <3>2
  <2>3. PICK n : n = [s EXCEPT !.ground[b] = f, !.freeQ = <<b>> \o @]
    OBVIOUS
  <2>4. StartNew(s, G) = InviteGroupsToBG(n, G, b)
    BY <1>2, <2>1, <2>3 DEF StartNew
  <2>5. /\ s \in State /\ QueueOK(s.queue) /\ FieldOK(s.ground)
        /\ PlayersOK(s.queue, s.ground, Told(s)) /\ CountOK(s.queue, s.ground, Told(s))
        /\ \A p \in Players : Member(s.queue, p) <=> Member(queue, p)
    BY DEF StateOK
  <2>6. s.ground[b] = NoGround /\ s.ground \in [Grounds -> Field]
    BY <2>2, <2>5 DEF FieldOK
  <2>7. /\ f \in Field /\ f.status = "join" /\ f.members = s.ground[b].members
        /\ f.invited = s.ground[b].invited /\ \A t \in Teams : f.invited[t] = 0
    <3>1. NoGround \in Field
      BY <2>2, <2>6
    <3>2. \A t \in Teams : NoGround.invited[t] = 0
      BY DEF NoGround
    <3> QED
      BY <2>6, <3>1, <3>2 DEF Field
  <2>8. <<b>> \o s.freeQ \in Seq(Grounds)
    <3>1. s.freeQ \in Seq(Grounds) /\ <<b>> \in Seq(Grounds)
      BY <2>2, <2>5 DEF State
    <3> QED
      BY <3>1, ConcatOf
  <2> HIDE DEF f, ids
  <2>9. /\ n \in State /\ n.queue = s.queue /\ n.told = s.told
        /\ n.ground = [s.ground EXCEPT ![b] = f]
    <3>1. [s.ground EXCEPT ![b] = f] \in [Grounds -> Field]
      BY <2>6, <2>7
    <3> QED
      BY <2>3, <2>5, <2>8, <3>1 DEF State
  <2>10. /\ n.ground \in [Grounds -> Field] /\ n.ground[b] = f
         /\ \A c \in Grounds \ {b} : n.ground[c] = s.ground[c]
    BY <2>2, <2>6, <2>7, <2>9
  <2>11. Told(n) = Told(s)
    BY <2>9 DEF Told
  <2>12. \A c \in Grounds : /\ n.ground[c].members = s.ground[c].members
                            /\ n.ground[c].invited = s.ground[c].invited
    BY <2>7, <2>10
  <2>13. FieldOK(n.ground)
    BY <2>5, <2>7, <2>10 DEF FieldOK
  <2>14. PlayersOK(n.queue, n.ground, Told(n))
    BY <2>5, <2>9, <2>11, <2>12 DEF PlayersOK
  <2>15. CountOK(n.queue, n.ground, Told(n))
    <3>1. \A c \in Grounds, p \in Players :
            Expects(n.queue, n.ground, Told(n), c, p) <=> Expects(s.queue, s.ground, Told(s), c, p)
      BY <2>9, <2>11, <2>12 DEF Expects
    <3>2. \A c \in Grounds, t \in Teams : n.ground[c].invited[t] = s.ground[c].invited[t]
      BY <2>12
    <3> QED
      BY <2>5, <3>1, <3>2, CountSame
  <2>16. StateOK(n)
    BY <2>5, <2>9, <2>13, <2>14, <2>15 DEF StateOK
  <2>17. Invitable(n, G, b)
    <3>1. \A t \in Teams : n.ground[b].invited[t] + Size(Everyone(G), t) <= MaxPlayersPerTeam
      <4>1. ASSUME NEW t \in Teams
            PROVE  n.ground[b].invited[t] + Size(Everyone(G), t) <= MaxPlayersPerTeam
        <5>1. n.ground[b].invited[t] = 0 /\ Size(Everyone(G), t) <= MaxPlayersPerTeam
          BY <2>7, <2>10
        <5>2. Size(Everyone(G), t) \in Nat
          <6>1. {p \in Everyone(G) : TeamOf[p] = t} \subseteq Players
            <7>1. G \subseteq Entry
              BY <2>5, GroupsOf DEF QueueOK
            <7> QED
              BY <7>1 DEF Everyone, Entry
          <6> QED
            BY <6>1, PlayersFinite DEF Size
        <5> QED
          BY <5>1, <5>2
      <4> QED
        BY <4>1
    <3> QED
      BY <2>9, <3>1 DEF Invitable
  <2>18. n.ground[b].status # "free"
    BY <2>7, <2>10
  <2>19. StateOK(InviteGroupsToBG(n, G, b))
    BY <2>2, <2>16, <2>17, <2>18, InvitedOf
  <2> QED
    BY <2>4, <2>19
<1> QED
  BY <1>1, <1>2

\* The groups of team t in the queue that are not invited.
Waiting(q, t) ==
  {g \in Range(q[<<"premade", t>>]) \cup Range(q[<<"normal", t>>]) : g.invited = 0}

\* They are groups of the queue, and AddGroup selects some of them.
LEMMA WaitingOf ==
  ASSUME NEW q, QueueOK(q), NEW t \in Teams
  PROVE  /\ Waiting(q, t) \subseteq Entry
         /\ q[<<"normal", t>>] \in Seq(Entry) /\ q[<<"premade", t>>] \in Seq(Entry)
         /\ \A g \in Range(q[<<"normal", t>>]) : g \in Entry /\ (g.invited = 0 => g \in Waiting(q, t))
         /\ \A g \in Range(q[<<"premade", t>>]) : g \in Entry /\ (g.invited = 0 => g \in Waiting(q, t))
<1>1. q \in Queues /\ <<"premade", t>> \in Kinds /\ <<"normal", t>> \in Kinds
  BY DEF QueueOK, Kinds
<1> QED
  BY <1>1, GroupsOf DEF Waiting

\* Filling up a battleground.
LEMMA RefillOf ==
  ASSUME BgInv, Reachable, NEW s, StateOK(s), NEW b \in Grounds
  PROVE  StateOK(Refill(s, b))
<1> DEFINE pool(t) == FillPlayersToBG(s, b, t)
           H == UNION {pool(t).groups : t \in Teams}
           G == [t \in Teams |-> pool(t).groups]
           k == [t \in Teams |-> GetFreeSlotsForTeam(s.ground[b], t)]
<1>0. /\ s \in State /\ QueueOK(s.queue) /\ s.ground[b] \in Field
      /\ \A t \in Teams : s.ground[b].invited[t] <= MaxPlayersPerTeam
  BY DEF StateOK, FieldOK, CountOK
<1>1. CASE s.ground[b].status \notin {"join", "progress"}
  <2>1. Refill(s, b) = s
    BY <1>1 DEF Refill
  <2> QED
    BY <2>1
<1>2. CASE s.ground[b].status \in {"join", "progress"}
  <2>1. ASSUME NEW t \in Teams
        PROVE  pool(t) \in Pools(Waiting(s.queue, t), k[t]) /\ k[t] \in Nat
               /\ s.ground[b].invited[t] + k[t] <= MaxPlayersPerTeam
    <3>1. PICK m : m = GetFreeSlotsForTeam(s.ground[b], t)
      OBVIOUS
    <3>2. k[t] = m
      BY <3>1
    <3>3. m \in Nat /\ s.ground[b].invited[t] + m <= MaxPlayersPerTeam
      BY <1>0, <3>1, FreeSlotsOf
    <3>4. PICK A : A = Waiting(s.queue, t)
      OBVIOUS
    <3>5. PICK S : S = Pools(A, m)
      OBVIOUS
    <3>6. /\ A \subseteq Entry /\ s.queue[<<"normal", t>>] \in Seq(Entry)
          /\ \A g \in Range(s.queue[<<"normal", t>>]) : g \in Entry /\ (g.invited = 0 => g \in A)
      BY <1>0, <3>4, WaitingOf
    <3>7. EmptyPool \in S
      BY <3>3, <3>5, EmptyPoolOf
    <3>8. ASSUME NEW x \in S, NEW g \in Range(s.queue[<<"normal", t>>])
          PROVE  AddGroup(x, g, GetFreeSlotsForTeam(s.ground[b], t)) \in S
      <4>1. AddGroup(x, g, m) \in Pools(A, m)
        <5>1. m <= m /\ x \in Pools(A, m) /\ g \in Entry /\ (g.invited = 0 => g \in A)
          BY <3>3, <3>5, <3>6
        <5> QED
          BY <3>3, <3>6, <5>1, AddGroupOf
      <4> QED
        BY <3>1, <3>5, <4>1
    <3>9. FillPlayersToBG(s, b, t) \in S
      BY <3>6, <3>7, <3>8, FillOf
    <3> QED
      BY <3>2, <3>3, <3>4, <3>5, <3>9
  <2> HIDE DEF pool
  <2>2. Selects(s.queue, G, k, H) /\ \A h \in H : h.invited = 0
    <3>1. ASSUME NEW t \in Teams
          PROVE  /\ G[t] \subseteq Waiting(s.queue, t)
                 /\ Cardinality(Everyone(G[t])) <= k[t]
      <4>1. G[t] = pool(t).groups
        OBVIOUS
      <4>2. /\ pool(t).groups \subseteq Waiting(s.queue, t) /\ pool(t).count \in Nat
            /\ pool(t).count <= k[t] /\ Cardinality(Everyone(pool(t).groups)) <= pool(t).count
        BY <2>1, PoolsOf
      <4>3. Cardinality(Everyone(pool(t).groups)) \in Nat
        <5>1. pool(t).groups \subseteq Entry
          BY <1>0, <4>2, WaitingOf
        <5> QED
          BY <5>1, EveryoneOf
      <4>4. k[t] \in Nat
        BY <2>1
      <4> HIDE DEF G, k
      <4>5. Cardinality(Everyone(pool(t).groups)) <= k[t]
        BY <4>2, <4>3, <4>4
      <4> QED
        BY <4>1, <4>2, <4>5, Zenon
    <3>2. \A h \in H : \E t \in Teams : h \in G[t]
      OBVIOUS
    <3> HIDE DEF G, H, k
    <3>3. \A h \in H : h.invited = 0
      BY <3>1, <3>2 DEF Waiting
    <3> QED
      BY <2>1, <3>1, <3>2, <3>3 DEF Selects, Waiting
  <2>3. PICK r : r = InviteGroupsToBG(s, H, b)
    OBVIOUS
  <2>4. Refill(s, b) = r \/ Refill(s, b) = [r EXCEPT !.freeQ = RemoveFirst(@, b)]
    BY <1>2, <2>3 DEF Refill, pool
  <2> HIDE DEF G, H
  <2>5. Invitable(s, H, b)
    <3>1. H \subseteq GroupsIn(s.queue) /\ \A t \in Teams : Size(Everyone(H), t) <= k[t]
      BY <1>0, <2>2, Together
    <3>2. ASSUME NEW t \in Teams
          PROVE  s.ground[b].invited[t] + Size(Everyone(H), t) <= MaxPlayersPerTeam
      <4>1. s.ground[b].invited[t] \in Nat /\ Size(Everyone(H), t) \in Nat
        <5>1. {p \in Everyone(H) : TeamOf[p] = t} \subseteq Players
          <6>1. H \subseteq Entry
            BY <1>0, <3>1, GroupsOf DEF QueueOK
          <6> QED
            BY <6>1 DEF Everyone, Entry
        <5>2. s.ground[b].invited[t] \in 0..(Wrap - 1)
          BY <1>0 DEF Field
        <5>3. Cardinality({p \in Everyone(H) : TeamOf[p] = t}) \in Nat
          BY <5>1, PlayersFinite
        <5> QED
          BY <5>2, <5>3, SizesAssumption DEF Size
      <4>2. /\ k[t] \in Nat /\ s.ground[b].invited[t] + k[t] <= MaxPlayersPerTeam
            /\ Size(Everyone(H), t) <= k[t] /\ MaxPlayersPerTeam \in Nat
        BY <2>1, <3>1, SizesAssumption
      <4> HIDE DEF k
      <4> QED
        BY <4>1, <4>2
    <3> QED
      BY <2>2, <3>1, <3>2 DEF Invitable
  <2>6. StateOK(r)
    BY <1>2, <2>3, <2>5, InvitedOf
  <2>7. RemoveFirst(r.freeQ, b) \in Seq(Grounds)
    <3>1. r.freeQ \in Seq(Grounds)
      BY <2>6 DEF StateOK, State
    <3> QED
      BY <3>1, RemoveFirstOf
  <2>8. StateOK([r EXCEPT !.freeQ = RemoveFirst(r.freeQ, b)])
    BY <2>6, <2>7, FreeQOf
  <2> QED
    BY <2>4, <2>6, <2>8
<1> QED
  BY <1>1, <1>2

\* A normal match.
LEMMA NormalMatchOf ==
  ASSUME BgInv, Reachable, NEW s, StateOK(s)
  PROVE  StateOK(NormalMatch(s))
<1> DEFINE pool(t) == CheckNormalMatch(s, t)
           H == UNION {pool(t).groups : t \in Teams}
           G == [t \in Teams |-> pool(t).groups]
           k == [t \in Teams |-> MaxPlayersPerTeam]
<1>0. QueueOK(s.queue) /\ MaxPlayersPerTeam \in Nat
  BY SizesAssumption DEF StateOK
<1>1. ASSUME NEW t \in Teams
      PROVE  pool(t) \in Pools(Waiting(s.queue, t), MaxPlayersPerTeam)
  <2>1. PICK A : A = Waiting(s.queue, t)
    OBVIOUS
  <2>2. PICK S : S = Pools(A, MaxPlayersPerTeam)
    OBVIOUS
  <2>3. /\ A \subseteq Entry /\ s.queue[<<"normal", t>>] \in Seq(Entry)
        /\ \A g \in Range(s.queue[<<"normal", t>>]) : g \in Entry /\ (g.invited = 0 => g \in A)
    BY <1>0, <2>1, WaitingOf
  <2>4. EmptyPool \in S
    BY <1>0, <2>2, EmptyPoolOf
  <2>5. ASSUME NEW x \in S, NEW g \in Range(s.queue[<<"normal", t>>])
        PROVE  AddGroup(x, g, MaxPlayersPerTeam) \in S
    <3>1. /\ MaxPlayersPerTeam <= MaxPlayersPerTeam /\ x \in Pools(A, MaxPlayersPerTeam)
          /\ g \in Entry /\ (g.invited = 0 => g \in A)
      BY <1>0, <2>2, <2>3
    <3> QED
      BY <1>0, <2>2, <2>3, <3>1, AddGroupOf
  <2>6. CheckNormalMatch(s, t) \in S
    BY <2>3, <2>4, <2>5, NormalOf
  <2> QED
    BY <2>1, <2>2, <2>6
<1>2. NormalMatch(s) = s \/ NormalMatch(s) = StartNew(s, H)
  BY DEF NormalMatch
<1> HIDE DEF pool
<1>3. /\ Selects(s.queue, G, k, H) /\ \A h \in H : h.invited = 0
      /\ \A t \in Teams : k[t] = MaxPlayersPerTeam
  <2>1. \A t \in Teams : G[t] = pool(t).groups /\ k[t] = MaxPlayersPerTeam
    OBVIOUS
  <2>2. \A h \in H : \E t \in Teams : h \in G[t]
    OBVIOUS
  <2> HIDE DEF G, H, k
  <2>3. ASSUME NEW t \in Teams
        PROVE  /\ G[t] \subseteq Waiting(s.queue, t)
               /\ Cardinality(Everyone(G[t])) <= MaxPlayersPerTeam
    <3>1. /\ pool(t).groups \subseteq Waiting(s.queue, t) /\ pool(t).count \in Nat
          /\ pool(t).count <= MaxPlayersPerTeam
          /\ Cardinality(Everyone(pool(t).groups)) <= pool(t).count
      BY <1>0, <1>1, PoolsOf
    <3>2. Cardinality(Everyone(pool(t).groups)) \in Nat
      <4>1. pool(t).groups \subseteq Entry
        BY <1>0, <3>1, WaitingOf
      <4> QED
        BY <4>1, EveryoneOf
    <3>3. Cardinality(Everyone(pool(t).groups)) <= MaxPlayersPerTeam
      BY <1>0, <3>1, <3>2
    <3> QED
      BY <2>1, <3>1, <3>3, Zenon
  <2>4. \A h \in H : h.invited = 0
    BY <2>2, <2>3 DEF Waiting
  <2> QED
    BY <1>0, <2>1, <2>2, <2>3, <2>4 DEF Selects, Waiting
<1> HIDE DEF G, H, k
<1>4. H \subseteq GroupsIn(s.queue) /\ \A t \in Teams : Size(Everyone(H), t) <= k[t]
  BY <1>0, <1>3, Together
<1>5. StateOK(StartNew(s, H))
  BY <1>3, <1>4, StartNewOf
<1> QED
  BY <1>2, <1>5

\* The first group of a list that is not invited.
LEMMA FirstWaitingOf ==
  ASSUME NEW E, NEW q \in Seq(E), FirstWaiting(q) # 0
  PROVE  q[FirstWaiting(q)] \in Range(q) /\ q[FirstWaiting(q)].invited = 0
<1> DEFINE I == {i \in 1..Len(q) : q[i].invited = 0}
<1>1. I # {} /\ FirstWaiting(q) = Min(I)
  BY DEF FirstWaiting, SelectInSeq
<1>2. Len(q) \in Nat /\ I \subseteq 1..Len(q)
  OBVIOUS
<1>3. Min(I) \in I
  BY <1>1, <1>2, FirstPosition
<1>4. FirstWaiting(q) \in 1..Len(q) /\ q[FirstWaiting(q)].invited = 0
  BY <1>1, <1>3
<1> QED
  BY <1>4, RangeOf

\* A match of premade groups, topped up from the normal queue.
LEMMA PremadeMatchOf ==
  ASSUME BgInv, Reachable, NEW s, StateOK(s),
         \A t \in Teams : FirstWaiting(s.queue[<<"premade", t>>]) # 0
  PROVE  StateOK(StartNew(s, UNION {PremadePool(s, t).groups : t \in Teams}))
<1> DEFINE first(t) == FirstPremade(s, t)
           T == {first(u).count : u \in Teams}
           pool(t) == PremadePool(s, t)
           H == UNION {pool(t).groups : t \in Teams}
           G == [t \in Teams |-> pool(t).groups]
           k == [t \in Teams |-> MaxPlayersPerTeam]
<1>0. QueueOK(s.queue) /\ MaxPlayersPerTeam \in Nat
  BY SizesAssumption DEF StateOK
<1>1. ASSUME NEW t \in Teams
      PROVE  first(t) \in Pools(Waiting(s.queue, t), MaxPlayersPerTeam)
  <2>1. PICK A : A = Waiting(s.queue, t)
    OBVIOUS
  <2>2. PICK q : q = s.queue[<<"premade", t>>]
    OBVIOUS
  <2>3. /\ A \subseteq Entry /\ q \in Seq(Entry)
        /\ \A g \in Range(q) : g \in Entry /\ (g.invited = 0 => g \in A)
    BY <1>0, <2>1, <2>2, WaitingOf
  <2>4. PICK g : g = q[FirstWaiting(q)]
    OBVIOUS
  <2>5. g \in Entry /\ g \in A
    <3>1. FirstWaiting(q) # 0
      BY <2>2
    <3>2. g \in Range(q) /\ g.invited = 0
      BY <2>3, <2>4, <3>1, FirstWaitingOf
    <3> QED
      BY <2>3, <3>2
  <2>6. EmptyPool \in Pools(A, MaxPlayersPerTeam) /\ MaxPlayersPerTeam <= MaxPlayersPerTeam
    BY <1>0, EmptyPoolOf
  <2>7. AddGroup(EmptyPool, g, MaxPlayersPerTeam) \in Pools(A, MaxPlayersPerTeam)
    BY <1>0, <2>3, <2>5, <2>6, AddGroupOf
  <2>8. first(t) = AddGroup(EmptyPool, g, MaxPlayersPerTeam)
    BY <2>2, <2>4 DEF FirstPremade
  <2> QED
    BY <2>1, <2>7, <2>8
<1> HIDE DEF first
<1>2. Least(T) \in Nat /\ Least(T) <= MaxPlayersPerTeam
  <2>1. \A t \in Teams : first(t).count \in Nat /\ first(t).count <= MaxPlayersPerTeam
    BY <1>0, <1>1, PoolsOf
  <2>2. T \subseteq Nat /\ T # {} /\ \A n \in T : n <= MaxPlayersPerTeam
    BY <2>1 DEF Teams
  <2> HIDE DEF T
  <2>3. Least(T) \in T
    BY <2>2, LeastOf
  <2> QED
    BY <2>2, <2>3
<1>3. ASSUME NEW t \in Teams
      PROVE  pool(t) \in Pools(Waiting(s.queue, t), MaxPlayersPerTeam)
  <2>1. PICK A : A = Waiting(s.queue, t)
    OBVIOUS
  <2>2. PICK S : S = Pools(A, MaxPlayersPerTeam)
    OBVIOUS
  <2>3. PICK m : m = Least({FirstPremade(s, u).count : u \in Teams})
    OBVIOUS
  <2>4. m \in Nat /\ m <= MaxPlayersPerTeam
    BY <1>2, <2>3 DEF first
  <2>5. /\ A \subseteq Entry /\ s.queue[<<"normal", t>>] \in Seq(Entry)
        /\ \A g \in Range(s.queue[<<"normal", t>>]) : g \in Entry /\ (g.invited = 0 => g \in A)
    BY <1>0, <2>1, WaitingOf
  <2>6. FirstPremade(s, t) \in S
    BY <1>1, <2>1, <2>2 DEF first
  <2>7. ASSUME NEW x \in S, NEW g \in Range(s.queue[<<"normal", t>>])
        PROVE  AddGroup(x, g, Least({FirstPremade(s, u).count : u \in Teams})) \in S
    <3>1. x \in Pools(A, MaxPlayersPerTeam) /\ g \in Entry /\ (g.invited = 0 => g \in A)
      BY <2>2, <2>5
    <3>2. AddGroup(x, g, m) \in Pools(A, MaxPlayersPerTeam)
      BY <1>0, <2>4, <2>5, <3>1, AddGroupOf
    <3> QED
      BY <2>2, <2>3, <3>2, Zenon
  <2>8. PremadePool(s, t) \in S
    BY <2>5, <2>6, <2>7, PremadeOf
  <2> QED
    BY <2>1, <2>2, <2>8
<1> HIDE DEF pool
<1>4. /\ Selects(s.queue, G, k, H) /\ \A h \in H : h.invited = 0
      /\ \A t \in Teams : k[t] = MaxPlayersPerTeam
  <2>1. \A t \in Teams : G[t] = pool(t).groups /\ k[t] = MaxPlayersPerTeam
    OBVIOUS
  <2>2. \A h \in H : \E t \in Teams : h \in G[t]
    OBVIOUS
  <2> HIDE DEF G, H, k
  <2>3. ASSUME NEW t \in Teams
        PROVE  /\ G[t] \subseteq Waiting(s.queue, t)
               /\ Cardinality(Everyone(G[t])) <= MaxPlayersPerTeam
    <3>1. /\ pool(t).groups \subseteq Waiting(s.queue, t) /\ pool(t).count \in Nat
          /\ pool(t).count <= MaxPlayersPerTeam
          /\ Cardinality(Everyone(pool(t).groups)) <= pool(t).count
      BY <1>0, <1>3, PoolsOf
    <3>2. Cardinality(Everyone(pool(t).groups)) \in Nat
      <4>1. pool(t).groups \subseteq Entry
        BY <1>0, <3>1, WaitingOf
      <4> QED
        BY <4>1, EveryoneOf
    <3>3. Cardinality(Everyone(pool(t).groups)) <= MaxPlayersPerTeam
      BY <1>0, <3>1, <3>2
    <3> QED
      BY <2>1, <3>1, <3>3, Zenon
  <2>4. \A h \in H : h.invited = 0
    BY <2>2, <2>3 DEF Waiting
  <2> QED
    BY <1>0, <2>1, <2>2, <2>3, <2>4 DEF Selects, Waiting
<1>5. H = UNION {PremadePool(s, t).groups : t \in Teams}
  BY DEF pool
<1> HIDE DEF G, H, k
<1>6. H \subseteq GroupsIn(s.queue) /\ \A t \in Teams : Size(Everyone(H), t) <= k[t]
  BY <1>0, <1>4, Together
<1>7. StateOK(StartNew(s, H))
  BY <1>4, <1>6, StartNewOf
<1> QED
  BY <1>5, <1>7, Zenon

\* The head of a list and the rest, and a list with a new head.
LEMMA HeadOf ==
  ASSUME NEW E, NEW q \in Seq(E), q # <<>>
  PROVE  Tail(q) \in Seq(E) /\ Head(q) \in E /\ Range(q) = {Head(q)} \cup Range(Tail(q))
<1> DEFINE u == Tail(q)
<1>1. Len(q) \in Nat /\ Len(q) # 0
  OBVIOUS
<1>2. u \in Seq(E) /\ Len(u) = Len(q) - 1 /\ \A i \in 1..Len(u) : u[i] = q[i + 1]
  BY <1>1
<1>3. Head(q) = q[1] /\ q[1] \in E
  BY <1>1
<1> HIDE DEF u
<1>4. ASSUME NEW x PROVE x \in Range(q) <=> x = q[1] \/ x \in Range(u)
  <2>1. x \in Range(q) <=> \E i \in 1..Len(q) : q[i] = x
    BY RangeOf
  <2>2. x \in Range(u) <=> \E i \in 1..Len(u) : u[i] = x
    BY <1>2, RangeOf
  <2>3. ASSUME NEW i \in 1..Len(q), q[i] = x PROVE x = q[1] \/ x \in Range(u)
    <3>1. CASE i = 1
      BY <2>3, <3>1
    <3>2. CASE i # 1
      <4>1. i - 1 \in 1..Len(u) /\ (i - 1) + 1 = i
        BY <1>1, <1>2, <3>2
      <4>2. u[i - 1] = x
        BY <1>2, <2>3, <4>1
      <4> QED
        BY <2>2, <4>1, <4>2
    <3> QED
      BY <3>1, <3>2
  <2>4. ASSUME NEW i \in 1..Len(u), u[i] = x PROVE x \in Range(q)
    <3>1. i + 1 \in 1..Len(q)
      BY <1>1, <1>2
    <3> QED
      BY <1>2, <2>1, <2>4, <3>1
  <2>5. 1 \in 1..Len(q)
    BY <1>1
  <2> QED
    BY <2>1, <2>2, <2>3, <2>4, <2>5
<1> QED
  BY <1>2, <1>3, <1>4 DEF u

\* A list with a new head.
LEMMA PrependOf ==
  ASSUME NEW E, NEW q \in Seq(E), NEW e \in E
  PROVE  <<e>> \o q \in Seq(E) /\ Range(<<e>> \o q) = {e} \cup Range(q)
<1> DEFINE o == <<e>>
           c == o \o q
<1>1. o \in Seq(E) /\ Len(o) = 1 /\ o[1] = e
  OBVIOUS
<1> HIDE DEF o
<1>2. /\ c \in Seq(E) /\ Len(q) \in Nat /\ Len(c) = Len(o) + Len(q)
      /\ \A i \in 1..Len(o) : c[i] = o[i]
      /\ \A i \in 1..Len(q) : c[Len(o) + i] = q[i]
  <2>1. o \in Seq(E)
    BY <1>1
  <2> QED
    BY <2>1, ConcatOf
<1> HIDE DEF c
<1>3. c[1] = e /\ Len(c) = 1 + Len(q) /\ \A i \in 1..Len(q) : c[1 + i] = q[i]
  BY <1>1, <1>2
<1>4. ASSUME NEW x PROVE x \in Range(c) <=> x = e \/ x \in Range(q)
  <2>1. x \in Range(q) <=> \E i \in 1..Len(q) : q[i] = x
    BY RangeOf
  <2>2. x \in Range(c) <=> \E i \in 1..Len(c) : c[i] = x
    BY <1>2, RangeOf
  <2>3. ASSUME NEW i \in 1..Len(c), c[i] = x PROVE x = e \/ x \in Range(q)
    <3>1. CASE i = 1
      BY <1>3, <2>3, <3>1
    <3>2. CASE i # 1
      <4>1. i - 1 \in 1..Len(q) /\ 1 + (i - 1) = i
        BY <1>2, <1>3, <3>2
      <4>2. q[i - 1] = x
        BY <1>3, <2>3, <4>1
      <4> QED
        BY <2>1, <4>1, <4>2
    <3> QED
      BY <3>1, <3>2
  <2>4. ASSUME NEW i \in 1..Len(q), q[i] = x PROVE x \in Range(c)
    <3>1. 1 + i \in 1..Len(c)
      BY <1>2, <1>3
    <3> QED
      BY <1>3, <2>2, <2>4, <3>1
  <2>5. 1 \in 1..Len(c)
    BY <1>2, <1>3
  <2> QED
    BY <1>3, <2>1, <2>2, <2>3, <2>4, <2>5
<1> QED
  BY <1>2, <1>4 DEF c, o

\* The first premade group moves to the head of the normal queue.
LEMMA PremadeToNormalOf ==
  ASSUME BgInv, NEW s, StateOK(s), NEW waited
  PROVE  StateOK(PremadeToNormal(s, waited))
<1> DEFINE moves(t) == LET q == s.queue[<<"premade", t>>]
                       IN  /\ q # <<>>
                           /\ Head(q).invited = 0
                           /\ t \in waited \/ Cardinality(Head(q).members) < MinPlayersPerTeam
           first(t) == Head(s.queue[<<"premade", t>>])
           Q == [x \in Kinds |->
                   IF ~moves(x[2]) THEN s.queue[x]
                   ELSE IF x[1] = "premade" THEN Tail(s.queue[x]) ELSE <<first(x[2])>> \o s.queue[x]]
           Id == [g \in Entry |-> g]
<1>0. /\ s \in State /\ QueueOK(s.queue) /\ FieldOK(s.ground) /\ s.queue \in Queues
      /\ PlayersOK(s.queue, s.ground, Told(s)) /\ CountOK(s.queue, s.ground, Told(s))
      /\ \A p \in Players : Member(s.queue, p) <=> Member(queue, p)
  BY DEF StateOK, QueueOK
<1>1. PICK r : r = PremadeToNormal(s, waited)
  OBVIOUS
<1>2. r = [s EXCEPT !.queue = Q]
  <2>1. DOMAIN s.queue = Kinds
    BY <1>0 DEF Queues
  <2> QED
    BY <1>1, <2>1 DEF PremadeToNormal
<1>3. /\ \A t \in Teams : <<"premade", t>> \in Kinds /\ <<"normal", t>> \in Kinds
      /\ \A x \in Kinds : x[2] \in Teams /\ (x = <<"premade", x[2]>> \/ x = <<"normal", x[2]>>)
  BY DEF Kinds
<1>4. \A x \in Kinds : s.queue[x] \in Seq(Entry) /\ Range(s.queue[x]) \subseteq Entry
  BY <1>0, GroupsOf
<1>5. \A t \in Teams : moves(t) => s.queue[<<"premade", t>>] # <<>>
  OBVIOUS
<1>6. /\ \A x \in Kinds : ~moves(x[2]) => Q[x] = s.queue[x]
      /\ \A t \in Teams : moves(t) => Q[<<"premade", t>>] = Tail(s.queue[<<"premade", t>>])
      /\ \A t \in Teams : moves(t) => Q[<<"normal", t>>] = <<first(t)>> \o s.queue[<<"normal", t>>]
  <2> HIDE DEF moves, first
  <2> QED
    BY <1>3
<1> HIDE DEF moves
<1>7. ASSUME NEW t \in Teams, moves(t)
      PROVE  /\ Q[<<"premade", t>>] \in Seq(Entry) /\ Q[<<"normal", t>>] \in Seq(Entry)
             /\ Range(s.queue[<<"premade", t>>]) = {first(t)} \cup Range(Q[<<"premade", t>>])
             /\ Range(Q[<<"normal", t>>]) = {first(t)} \cup Range(s.queue[<<"normal", t>>])
  <2>1. PICK a : a = s.queue[<<"premade", t>>]
    OBVIOUS
  <2>2. PICK n : n = s.queue[<<"normal", t>>]
    OBVIOUS
  <2>3. a \in Seq(Entry) /\ n \in Seq(Entry) /\ a # <<>> /\ first(t) = Head(a)
    BY <1>3, <1>4, <1>5, <1>7, <2>1, <2>2
  <2>4. Tail(a) \in Seq(Entry) /\ Head(a) \in Entry /\ Range(a) = {Head(a)} \cup Range(Tail(a))
    BY <2>3, HeadOf
  <2>5. <<Head(a)>> \o n \in Seq(Entry) /\ Range(<<Head(a)>> \o n) = {Head(a)} \cup Range(n)
    BY <2>3, <2>4, PrependOf
  <2>6. Q[<<"premade", t>>] = Tail(a) /\ Q[<<"normal", t>>] = <<Head(a)>> \o n
    BY <1>6, <1>7, <2>1, <2>2, <2>3
  <2> HIDE DEF Q, first
  <2> QED
    BY <2>1, <2>2, <2>3, <2>4, <2>5, <2>6
<1>8. Q \in Queues
  <2>1. ASSUME NEW x \in Kinds PROVE Q[x] \in Seq(Entry)
    <3>1. CASE moves(x[2])
      BY <1>3, <1>7, <3>1
    <3>2. CASE ~moves(x[2])
      BY <1>4, <1>6, <3>2
    <3> QED
      BY <3>1, <3>2
  <2>2. Q = [x \in Kinds |-> Q[x]]
    OBVIOUS
  <2> HIDE DEF Q
  <2> QED
    BY <2>1, <2>2 DEF Queues
<1> HIDE DEF Q, first
<1>9. ASSUME NEW x \in Kinds, NEW h \in Range(Q[x])
      PROVE  \E y \in Kinds : y[2] = x[2] /\ h \in Range(s.queue[y])
  <2>1. CASE moves(x[2])
    <3>1. PICK t \in Teams : t = x[2]
      BY <1>3
    <3>2. h \in Range(s.queue[<<"premade", t>>]) \cup Range(s.queue[<<"normal", t>>])
      BY <1>3, <1>7, <2>1, <3>1
    <3>3. <<"premade", t>>[2] = t /\ <<"normal", t>>[2] = t
      OBVIOUS
    <3> QED
      BY <1>3, <3>1, <3>2, <3>3
  <2>2. CASE ~moves(x[2])
    BY <1>6, <2>2
  <2> QED
    BY <2>1, <2>2
<1>10. ASSUME NEW x \in Kinds, NEW h \in Range(s.queue[x]) PROVE h \in GroupsIn(Q)
  <2>1. CASE moves(x[2])
    <3>1. PICK t \in Teams : t = x[2]
      BY <1>3
    <3>2. h \in Range(Q[<<"premade", t>>]) \cup Range(Q[<<"normal", t>>])
      BY <1>3, <1>7, <2>1, <3>1
    <3> QED
      BY <1>3, <1>8, <3>2, GroupsOf
  <2>2. CASE ~moves(x[2])
    BY <1>6, <1>8, <2>2, GroupsOf
  <2> QED
    BY <2>1, <2>2
<1>11. GroupsIn(Q) = GroupsIn(s.queue)
  <2>1. \A h : h \in GroupsIn(Q) <=> \E x \in Kinds : h \in Range(Q[x])
    BY <1>8, GroupsOf
  <2>2. \A h : h \in GroupsIn(s.queue) <=> \E x \in Kinds : h \in Range(s.queue[x])
    BY <1>0, GroupsOf
  <2>3. ASSUME NEW h \in GroupsIn(Q) PROVE h \in GroupsIn(s.queue)
    BY <1>9, <2>1, <2>2
  <2>4. ASSUME NEW h \in GroupsIn(s.queue) PROVE h \in GroupsIn(Q)
    BY <1>10, <2>2
  <2> QED
    BY <2>3, <2>4
<1>12. QueueOK(Q)
  <2>1. \A g \in Entry : Id[g] = g
    OBVIOUS
  <2> HIDE DEF Id
  <2>2. \A g \in GroupsIn(s.queue) : Id[g].members \subseteq g.members
    BY <1>0, <2>1, GroupsOf
  <2>3. ASSUME NEW x \in Kinds, NEW h \in Range(Q[x])
        PROVE  \E y \in Kinds : y[2] = x[2] /\ \E g \in Range(s.queue[y]) : h = Id[g]
    BY <1>4, <1>9, <2>1
  <2>4. MadeFrom(s.queue, Q, Id)
    BY <2>2, <2>3 DEF MadeFrom
  <2> QED
    BY <1>0, <1>8, <2>4, Derived
<1>13. r \in State /\ r.queue = Q /\ r.ground = s.ground /\ r.told = s.told
  BY <1>0, <1>2, <1>8 DEF State
<1>14. Told(r) = Told(s)
  BY <1>13 DEF Told
<1>15. \A p : Member(Q, p) <=> Member(s.queue, p)
  BY <1>11 DEF Member
<1>16. PlayersOK(r.queue, r.ground, Told(r))
  BY <1>0, <1>11, <1>13, <1>14, <1>15 DEF PlayersOK
<1>17. CountOK(r.queue, r.ground, Told(r))
  <2>1. \A c \in Grounds, p \in Players :
          Expects(r.queue, r.ground, Told(r), c, p) <=> Expects(s.queue, s.ground, Told(s), c, p)
    BY <1>11, <1>13, <1>14 DEF Expects, Promised
  <2> QED
    BY <1>0, <1>13, <2>1, CountSame
<1>18. StateOK(r)
  BY <1>0, <1>12, <1>13, <1>15, <1>16, <1>17 DEF StateOK
<1> QED
  BY <1>1, <1>18

\* The loop over the battlegrounds with free slots.
LEMMA RefillsOf ==
  ASSUME BgInv, Reachable, NEW s0, StateOK(s0), NEW q \in Seq(Grounds)
  PROVE  StateOK(Through(q, s0, Refill))
<1> DEFINE n == Len(q)
           S == {s \in State : StateOK(s)}
           after == CHOOSE f : f = [i \in 0..n |-> IF i = 0 THEN s0 ELSE Refill(f[i - 1], q[i])]
           F == [x \in S \X (1..n) |-> Refill(x[1], q[x[2]])]
<1>1. n \in Nat /\ \A i \in 1..n : q[i] \in Grounds
  OBVIOUS
<1>2. Through(q, s0, Refill) = after[n]
  BY DEF Through
<1> HIDE DEF n
<1>3. s0 \in S /\ \A s \in S : StateOK(s)
  BY DEF StateOK
<1>4. \A s \in S : \A i \in 1..n : Refill(s, q[i]) \in S
  <2>1. ASSUME NEW s \in S, NEW i \in 1..n PROVE Refill(s, q[i]) \in S
    <3>1. StateOK(Refill(s, q[i]))
      BY <1>1, RefillOf
    <3> QED
      BY <3>1 DEF StateOK
  <2> QED
    BY <2>1
<1> HIDE DEF S
<1>5. \A x \in S : \A i \in 1..n : F[<<x, i>>] = Refill(x, q[i]) /\ F[<<x, i>>] \in S
  BY <1>4
<1> HIDE DEF F
<1>6. PICK f : Run(S, s0, n, F, f)
  <2>1. Rounds(S, n, F)
    BY <1>5 DEF Rounds
  <2> QED
    BY <1>1, <1>3, <2>1, LoopExists
<1>7. f = [i \in 0..n |-> IF i = 0 THEN s0 ELSE Refill(f[i - 1], q[i])]
  <2>1. f \in [0..n -> S] /\ f[0] = s0 /\ \A i \in 1..n : f[i] = F[<<f[i - 1], i>>]
    BY <1>6 DEF Run
  <2>2. \A i \in 1..n : f[i - 1] \in S
    BY <1>1, <2>1
  <2>3. \A i \in 1..n : f[i] = Refill(f[i - 1], q[i])
    BY <1>5, <2>1, <2>2
  <2> QED
    BY <1>1, <2>1, <2>3
<1>8. after = [i \in 0..n |-> IF i = 0 THEN s0 ELSE Refill(after[i - 1], q[i])]
  BY <1>7
<1> HIDE DEF after
<1>9. after[0] = s0 /\ \A i \in 1..n : after[i] = Refill(after[i - 1], q[i])
  <2>1. 0 \in 0..n /\ \A i \in 1..n : i \in 0..n /\ i # 0
    BY <1>1
  <2> QED
    BY <1>8, <2>1, Zenon
<1>10. \A i \in 0..n : after[i] \in S
  <2>1. after[0] \in S /\ \A i \in 1..n : after[i - 1] \in S => after[i] \in S
    BY <1>3, <1>4, <1>9
  <2> QED
    BY <1>1, <2>1, LoopKeeps
<1>11. n \in 0..n
  BY <1>1
<1> QED
  BY <1>2, <1>3, <1>10, <1>11, Zenon

\* The attempt at a premade match.
LEMMA CheckPremadeMatchOf ==
  ASSUME BgInv, Reachable, NEW s, StateOK(s), NEW waited
  PROVE  StateOK(CheckPremadeMatch(s, waited))
<1>1. CASE \A t \in Teams : FirstWaiting(s.queue[<<"premade", t>>]) # 0
  <2>1. StateOK(StartNew(s, UNION {PremadePool(s, t).groups : t \in Teams}))
    BY <1>1, PremadeMatchOf
  <2> QED
    BY <1>1, <2>1 DEF CheckPremadeMatch
<1>2. CASE ~\A t \in Teams : FirstWaiting(s.queue[<<"premade", t>>]) # 0
  <2>1. StateOK(PremadeToNormal(s, waited))
    BY PremadeToNormalOf
  <2> QED
    BY <1>2, <2>1 DEF CheckPremadeMatch
<1> QED
  BY <1>1, <1>2

\* The scheduled update of the queue.
LEMMA UpdateQueuesKeeps ==
  ASSUME BgInv, Reachable, UpdateQueues
  PROVE  BgInv' /\ \A p \in Players : Member(queue', p) <=> Member(queue, p)
<1>0. /\ QueueOK(queue) /\ FieldOK(ground) /\ PlayersOK(queue, ground, player)
      /\ CountOK(queue, ground, player) /\ freeQ \in Seq(Grounds) /\ timers \subseteq Timer
  BY DEF BgInv
<1>1. CASE sched /\ GroupsIn(queue) # {}
  <2>1. PICK waited \in SUBSET Teams : BattlegroundQueueUpdate(waited)
    BY <1>1 DEF UpdateQueues
  <2>2. PICK s0 : s0 = [queue |-> queue, ground |-> ground, freeQ |-> freeQ, timers |-> timers,
                        told |-> [p \in Players |-> player[p].invite]]
    OBVIOUS
  <2>3. PICK s1 : s1 = Through(freeQ, s0, Refill)
    OBVIOUS
  <2>4. PICK s2 : s2 = CheckPremadeMatch(s1, waited)
    OBVIOUS
  <2>5. PICK s3 : s3 = NormalMatch(s2)
    OBVIOUS
  <2>6. /\ queue' = s3.queue /\ ground' = s3.ground
        /\ freeQ' = s3.freeQ /\ timers' = s3.timers
        /\ player' = Told(s3)
    BY <2>1, <2>2, <2>3, <2>4, <2>5 DEF BattlegroundQueueUpdate, Told
  <2>7. player \in [Players -> Person] /\ \A p \in Players : player[p].invite \in 0..MaxGrounds
    BY <1>0 DEF PlayersOK, Person
  <2>8. /\ s0.queue = queue /\ s0.ground = ground /\ s0.freeQ = freeQ /\ s0.timers = timers
        /\ s0.told = [p \in Players |-> player[p].invite]
    BY <2>2
  <2>9. s0 \in State
    BY <1>0, <2>2, <2>7 DEF State, QueueOK, FieldOK
  <2>10. Told(s0) = player
    <3>1. ASSUME NEW p \in Players PROVE [player[p] EXCEPT !.invite = s0.told[p]] = player[p]
      BY <2>7, <2>8 DEF Person
    <3>2. player = [p \in Players |-> player[p]]
      BY <2>7
    <3> QED
      BY <3>1, <3>2 DEF Told
  <2>11. StateOK(s0)
    BY <1>0, <2>8, <2>9, <2>10 DEF StateOK
  <2>12. StateOK(s1)
    BY <1>0, <2>3, <2>11, RefillsOf
  <2>13. StateOK(s2)
    BY <2>4, <2>12, CheckPremadeMatchOf
  <2>14. StateOK(s3)
    BY <2>5, <2>13, NormalMatchOf
  <2>15. s3.freeQ \in Seq(Grounds) /\ s3.timers \subseteq Timer
    BY <2>14 DEF StateOK, State
  <2> QED
    BY <2>6, <2>14, <2>15 DEF StateOK, BgInv
<1>2. CASE ~(sched /\ GroupsIn(queue) # {})
  <2>1. /\ queue' = queue /\ ground' = ground /\ freeQ' = freeQ
        /\ timers' = timers /\ player' = player
    BY <1>2 DEF UpdateQueues
  <2> QED
    BY <1>0, <2>1 DEF BgInv
<1> QED
  BY <1>1, <1>2

-----------------------------------------------------------------------------
(* The invariant *)

LEMMA InitKeeps ==
  ASSUME Init
  PROVE  BgInv
<1>1. /\ queue = [x \in Kinds |-> <<>>] /\ ground = [b \in Grounds |-> NoGround]
      /\ freeQ = <<>> /\ timers = {}
      /\ player = [p \in Players |-> [queued |-> FALSE, invite |-> 0, bg |-> 0, place |-> "world"]]
  BY DEF Init, Kinds
<1>2. queue \in Queues
  BY <1>1 DEF Queues
<1>3. GroupsIn(queue) = {}
  <2>1. \A x \in Kinds : Range(queue[x]) = {}
    BY <1>1 DEF Range
  <2> QED
    BY <1>2, <2>1, GroupsOf
<1>4. QueueOK(queue)
  <2>1. \A x \in Kinds : \A g \in Range(queue[x]) : g \in GroupsIn(queue)
    BY <1>2, GroupsOf
  <2> QED
    BY <1>2, <1>3, <2>1 DEF QueueOK
<1>5. Wrap \in Nat \ {0} /\ Cardinality({}) = 0 /\ MaxPlayersPerTeam \in Nat
  <2>1. Cardinality({}) < Wrap /\ Cardinality({}) \in Nat
    BY PlayersFinite
  <2> QED
    BY <2>1, SizesAssumption, FS_EmptySet
<1>6. /\ NoGround \in Field /\ NoGround.members = {}
      /\ \A t \in Teams : NoGround.invited[t] = 0
  <2>1. 0 \in 0..(Wrap - 1) /\ <<>> \in Seq(Players)
    BY <1>5
  <2> QED
    BY <2>1 DEF NoGround, Field
<1>7. FieldOK(ground)
  BY <1>1, <1>6 DEF FieldOK
<1>8. 0 \in 0..MaxGrounds
  BY SizesAssumption
<1>9. PlayersOK(queue, ground, player)
  <2>1. player \in [Players -> Person]
    BY <1>1, <1>8 DEF Person
  <2>2. \A p \in Players : player[p].place = "world"
    BY <1>1
  <2> QED
    BY <1>1, <1>3, <1>6, <2>1, <2>2 DEF PlayersOK, Member, Seated
<1>10. CountOK(queue, ground, player)
  <2>1. ASSUME NEW b \in Grounds, NEW t \in Teams PROVE Reckoned(queue, ground, player, b, t) = {}
    <3>1. \A p \in Players : ~Expects(queue, ground, player, b, p)
      BY <1>1, <1>3, <1>6 DEF Expects, Promised
    <3> QED
      BY <3>1 DEF Reckoned
  <2>2. \A b \in Grounds, t \in Teams : ground[b].invited[t] = 0
    BY <1>1, <1>6
  <2>3. ASSUME NEW b \in Grounds, NEW t \in Teams
        PROVE  ground[b].invited[t] = Cardinality(Reckoned(queue, ground, player, b, t))
    BY <1>5, <2>1, <2>2
  <2>4. 0 <= MaxPlayersPerTeam
    BY <1>5
  <2> QED
    BY <2>2, <2>3, <2>4 DEF CountOK
<1> QED
  BY <1>1, <1>4, <1>7, <1>9, <1>10 DEF BgInv

\* Whoever is in the queue when it is updated can be found.  InviteGroupToBG
\* takes that for granted; with queued players at loading screens it fails.
AllFound == stage = Events => Reachable

\* Every step keeps the invariant.
LEMMA NextKeeps ==
  ASSUME BgInv, AllFound, [Next]_vars
  PROVE  BgInv'
<1>1. ASSUME NEW p \in Players, NEW g \in Parties, NEW absent, Join(p, g, TRUE, absent) PROVE BgInv'
  <2>1. g \in SUBSET Players /\ p \in g
    BY <1>1, PartiesAssumption DEF Join
  <2>2. \A r \in g : TeamOf[r] = TeamOf[p]
    BY <2>1, PartiesAssumption
  <2> QED
    BY <1>1, <2>1, <2>2, JoinKeeps
<1>2. ASSUME NEW p \in Solo, Join(p, {p}, FALSE, 0) PROVE BgInv'
  <2>1. p \in Players /\ {p} \in SUBSET Players /\ \A r \in {p} : TeamOf[r] = TeamOf[p]
    BY TeamsAssumption
  <2> QED
    BY <1>2, <2>1, JoinKeeps
<1>3. ASSUME NEW p \in Players,
             \/ LeaveQueue(p) \/ EnterBattle(p) \/ Arrive(p) \/ LeaveBattleground(p)
             \/ ZoneOut(p) \/ ZoneIn(p) \/ Logout(p) \/ Login(p)
      PROVE  BgInv'
  BY <1>3, LeaveQueueKeeps, EnterBattleKeeps, ArriveKeeps, LeaveBattlegroundKeeps,
     ZoneKeeps, LogoutKeeps, LoginKeeps
<1>4. ASSUME NEW b \in Grounds, EndBattleground(b) PROVE BgInv'
  BY <1>4, EndBattlegroundKeeps
<1>5. ASSUME BeginUpdate PROVE BgInv'
  BY <1>5, BeginUpdateKeeps
<1>6. ASSUME NEW b \in Grounds, UpdateGround(b) PROVE BgInv'
  BY <1>6, UpdateGroundKeeps
<1>7. ASSUME NEW e \in timers, RemoveEvent(e) PROVE BgInv'
  BY <1>7, RemoveEventKeeps
<1>8. ASSUME UpdateQueues PROVE BgInv'
  <2>1. Reachable
    BY <1>8 DEF AllFound, UpdateQueues
  <2> QED
    BY <1>8, <2>1, UpdateQueuesKeeps
<1>9. ASSUME UNCHANGED vars PROVE BgInv'
  BY <1>9 DEF vars, BgInv
<1> QED
  BY <1>1, <1>2, <1>3, <1>4, <1>5, <1>6, <1>7, <1>8, <1>9 DEF Next, Update, Handlers

\* What the invariant says in the words of the model's properties.
LEMMA InvariantImplies ==
  ASSUME BgInv
  PROVE  InvitedExact /\ NoOverbooking /\ PromiseKept /\ NobodySkipped
<1>0. /\ QueueOK(queue) /\ FieldOK(ground) /\ PlayersOK(queue, ground, player)
      /\ CountOK(queue, ground, player)
  BY DEF BgInv
<1>1. ASSUME NEW b \in Grounds, NEW t \in Teams
      PROVE  /\ Expected(b, t) = Reckoned(queue, ground, player, b, t)
             /\ Cardinality(Expected(b, t)) = ground[b].invited[t]
             /\ ground[b].invited[t] <= MaxPlayersPerTeam
  <2>1. \A p \in Players : Invited(p, b) <=> Promised(queue, p, b)
    BY <1>0, QueuedOf
  <2>2. Expected(b, t) = Reckoned(queue, ground, player, b, t)
    BY <2>1 DEF Expected, Reckoned, Expects
  <2>3. /\ ground[b].invited[t] = Cardinality(Reckoned(queue, ground, player, b, t))
        /\ ground[b].invited[t] <= MaxPlayersPerTeam
    BY <1>0 DEF CountOK
  <2> QED
    BY <2>2, <2>3, Zenon
<1>2. InvitedExact
  BY <1>1 DEF InvitedExact
<1>3. NoOverbooking
  BY <1>1 DEF NoOverbooking
<1>4. PromiseKept
  <2>1. ASSUME NEW b \in Grounds, ground[b].status = "free", NEW t \in Teams
        PROVE  Expected(b, t) = {}
    <3>1. ground[b].invited[t] = 0
      BY <1>0, <2>1 DEF FieldOK, NoGround
    <3>2. Cardinality(Expected(b, t)) = 0
      BY <1>1, <3>1
    <3>3. IsFiniteSet(Expected(b, t))
      <4>1. Expected(b, t) \subseteq Players
        BY DEF Expected
      <4> QED
        BY <4>1, TeamsAssumption, FS_Subset
    <3> QED
      BY <3>2, <3>3, FS_EmptySet
  <2> QED
    BY <2>1 DEF PromiseKept
<1>5. NobodySkipped
  <2>1. ASSUME NEW p \in Players, Queued(p) PROVE player[p].invite = GroupOf(p).invited
    <3>1. GroupOf(p) \in GroupsIn(queue) /\ p \in GroupOf(p).members
      BY <1>0, <2>1, QueuedOf
    <3> QED
      BY <1>0, <3>1 DEF PlayersOK
  <2> QED
    BY <2>1 DEF NobodySkipped
<1> QED
  BY <1>2, <1>3, <1>4, <1>5

\* During the update of the battlegrounds only a timer that has run out takes
\* somebody out of the queue.
LEMMA TakenOutInTime ==
  ASSUME BgInv, AllFound, [Next]_vars, NEW p \in Players,
         stage = Events, Queued(p), ~Queued(p)'
  PROVE  GroupOf(p).invited # 0 /\ GroupOf(p).left = 0
<1>0. QueueOK(queue) /\ timers \subseteq Timer /\ Member(queue, p)
  BY QueuedOf DEF BgInv
<1>1. ~Member(queue', p)
  BY DEF Queued, Member
<1>2. Events # 0 /\ \A b \in Grounds : Events # b /\ b # 0
  BY SizesAssumption DEF Events, Grounds
<1>3. CASE UNCHANGED vars
  BY <1>0, <1>1, <1>3 DEF vars
<1>4. CASE Handlers
  BY <1>2, <1>4 DEF Handlers, Join, LeaveQueue, EnterBattle, Arrive, LeaveBattleground,
       ZoneOut, ZoneIn, Logout, Login, EndBattleground
<1>5. CASE BeginUpdate \/ \E b \in Grounds : UpdateGround(b)
  BY <1>2, <1>5 DEF BeginUpdate, UpdateGround
<1>6. CASE UpdateQueues
  <2>1. Reachable
    BY DEF AllFound
  <2> QED
    BY <1>0, <1>1, <1>6, <2>1, UpdateQueuesKeeps
<1>7. ASSUME NEW e \in timers, RemoveEvent(e)
      PROVE  GroupOf(p).invited # 0 /\ GroupOf(p).left = 0
  <2>1. CASE FindPlayer(e.player) /\ player[e.player].queued /\ IsPlayerInvited(e)
    <3>1. e.player \in Players /\ e.bg \in Grounds /\ e.left = 0
      BY <1>0, <1>7 DEF RemoveEvent, Timer
    <3>2. Queued(e.player) /\ GroupOf(e.player).invited = e.bg /\ GroupOf(e.player).left = e.left
      BY <2>1 DEF IsPlayerInvited, Invited
    <3>3. queue' = Without(e.player)
      BY <1>7, <2>1, <3>2 DEF RemoveEvent, RemovePlayer
    <3>4. p = e.player
      BY <1>0, <1>1, <3>1, <3>3, WithoutOf
    <3> QED
      BY <1>2, <3>1, <3>2, <3>4
  <2>2. CASE ~(FindPlayer(e.player) /\ player[e.player].queued /\ IsPlayerInvited(e))
    <3>1. queue' = queue
      BY <1>7, <2>2 DEF RemoveEvent
    <3> QED
      BY <1>0, <1>1, <3>1
  <2> QED
    BY <2>1, <2>2
<1> QED
  BY <1>3, <1>4, <1>5, <1>6, <1>7 DEF Next, Update

\* As long as everybody in the queue can be found whenever it is updated, the
\* invariant holds.
THEOREM Reckoning == Spec /\ []AllFound => []BgInv
<1>1. Init => BgInv
  BY InitKeeps
<1>2. BgInv /\ AllFound /\ [Next]_vars => BgInv'
  BY NextKeeps
<1> QED
  BY <1>1, <1>2, PTL DEF Spec

\* As long as everybody in the queue can be found whenever it is updated, the
\* counters are exact, nobody is promised a place that is not there, none is
\* deleted under him, and everybody invited knows it (InviteGroupToBG,
\* DecreaseInvitedCount, Battleground::Update).
THEOREM ReckoningExact ==
  Spec /\ []AllFound => [](InvitedExact /\ NoOverbooking /\ PromiseKept /\ NobodySkipped)
<1>1. BgInv => InvitedExact /\ NoOverbooking /\ PromiseKept /\ NobodySkipped
  BY InvariantImplies
<1> QED
  BY <1>1, Reckoning, PTL

-----------------------------------------------------------------------------
(* Without loading screens in the queue *)

\* Nobody who is in the queue is at a loading screen.
Settled == \A p \in Players : Member(queue, p) => player[p].place # "loading"

\* Then he can be found.
LEMMA SettledFound ==
  ASSUME BgInv, Settled
  PROVE  AllFound /\ \A p \in Players : Member(queue, p) => player[p].place = "world" /\ player[p].queued
<1>1. QueueOK(queue) /\ PlayersOK(queue, ground, player)
  BY DEF BgInv
<1>2. \A p \in Players : Member(queue, p) => player[p].place = "world" /\ player[p].queued
  BY <1>1 DEF PlayersOK, Settled
<1>3. AllFound
  BY <1>1, <1>2, QueuedOf DEF AllFound, Reachable, FindPlayer
<1> QED
  BY <1>2, <1>3

\* Nobody is put into the queue by taking somebody out of it.
LEMMA NobodyEnters ==
  ASSUME BgInv, NEW p \in Players, NEW decrease, RemovePlayer(p, decrease)
  PROVE  \A r \in Players : Member(queue', r) => Member(queue, r)
<1>1. QueueOK(queue)
  BY DEF BgInv
<1>2. CASE Queued(p)
  BY <1>1, <1>2, WithoutOf DEF RemovePlayer
<1>3. CASE ~Queued(p)
  BY <1>3 DEF RemovePlayer
<1> QED
  BY <1>2, <1>3

\* Who is in the queue is not sent out of a battleground.
LEMMA NobodyTeleported ==
  ASSUME BgInv, Settled, NEW b \in Grounds, NEW S, S \subseteq ground[b].members,
         NEW g, RemovePlayersAtLeave(S, b, g), queue' = queue
  PROVE  Settled'
<1>1. PlayersOK(queue, ground, player)
  BY DEF BgInv
<1>2. player' = [p \in Players |->
                   IF p \in S /\ FindPlayer(p)
                   THEN [queued |-> FALSE, invite |-> 0, bg |-> 0, place |-> "loading"]
                   ELSE player[p]]
  BY DEF RemovePlayersAtLeave
<1>3. ASSUME NEW p \in Players, Member(queue, p) PROVE player'[p].place # "loading"
  <2>1. player[p].place = "world"
    BY <1>3, SettledFound
  <2>2. p \notin S
    BY <1>1, <2>1 DEF PlayersOK
  <2> QED
    BY <1>2, <2>1, <2>2
<1> QED
  BY <1>3 DEF Settled

\* If queued players do not change maps, nobody in the queue is ever at a
\* loading screen.
LEMMA SettledKeeps ==
  ASSUME ~Zoning, BgInv, Settled, [Next]_vars
  PROVE  Settled'
<1>0. /\ QueueOK(queue) /\ FieldOK(ground) /\ PlayersOK(queue, ground, player)
      /\ player \in [Players -> Person]
      /\ \A r \in Players : Member(queue, r) => player[r].place = "world" /\ player[r].queued
  BY SettledFound DEF BgInv, PlayersOK
<1>1. ASSUME NEW p \in Players, NEW party \in SUBSET Players, \A r \in party : TeamOf[r] = TeamOf[p],
             NEW asGroup, NEW absent, Join(p, party, asGroup, absent)
      PROVE  Settled'
  <2>1. /\ \A r \in party : player'[r].place = "world"
        /\ \A r \in Players \ party : player'[r] = player[r] /\ (Member(queue', r) => Member(queue, r))
    BY <1>1, JoinKeeps
  <2>2. ASSUME NEW r \in Players, Member(queue', r) PROVE player'[r].place # "loading"
    <3>1. CASE r \in party
      BY <2>1, <3>1
    <3>2. CASE r \notin party
      BY <1>0, <2>1, <2>2, <3>2
    <3> QED
      BY <3>1, <3>2
  <2> QED
    BY <2>2 DEF Settled
<1>2. ASSUME NEW p \in Players, NEW g \in Parties, NEW absent, Join(p, g, TRUE, absent) PROVE Settled'
  <2>1. g \in SUBSET Players /\ p \in g
    BY <1>2, PartiesAssumption DEF Join
  <2>2. \A r \in g : TeamOf[r] = TeamOf[p]
    BY <2>1, PartiesAssumption
  <2> QED
    BY <1>1, <1>2, <2>1, <2>2
<1>3. ASSUME NEW p \in Solo, Join(p, {p}, FALSE, 0) PROVE Settled'
  <2>1. p \in Players /\ {p} \in SUBSET Players /\ \A r \in {p} : TeamOf[r] = TeamOf[p]
    BY TeamsAssumption
  <2> QED
    BY <1>1, <1>3, <2>1
<1>4. ASSUME NEW p \in Players, \A r \in Players \ {p} : player'[r] = player[r],
             Member(queue', p) => player'[p].place # "loading",
             \A r \in Players : Member(queue', r) => Member(queue, r)
      PROVE  Settled'
  BY <1>0, <1>4 DEF Settled
<1>5. ASSUME NEW p \in Players, LeaveQueue(p) PROVE Settled'
  <2>1. /\ RemovePlayer(p, TRUE) /\ player[p].place = "world"
        /\ player' = [r \in Players |-> IF r \in {p} THEN [player[r] EXCEPT !.queued = FALSE, !.invite = 0]
                                        ELSE player[r]]
    BY <1>5 DEF LeaveQueue, RemoveBattlegroundQueueId
  <2>2. player'[p].place = "world" /\ \A r \in Players \ {p} : player'[r] = player[r]
    <3>1. player[p] \in Person
      BY <1>0
    <3>2. [player[p] EXCEPT !.queued = FALSE, !.invite = 0].place = player[p].place
      BY <3>1 DEF Person
    <3> QED
      BY <2>1, <3>2
  <2>3. \A r \in Players : Member(queue', r) => Member(queue, r)
    BY <2>1, NobodyEnters
  <2> QED
    BY <1>4, <2>2, <2>3
<1>6. ASSUME NEW p \in Players, EnterBattle(p) PROVE Settled'
  <2>1. PICK b \in Grounds : /\ RemovePlayer(p, FALSE)
                             /\ player' = [player EXCEPT ![p].bg = b, ![p].place = "entering"]
    BY <1>6 DEF EnterBattle
  <2>2. player'[p].place = "entering" /\ \A r \in Players \ {p} : player'[r] = player[r]
    BY <1>0, <2>1 DEF Person
  <2>3. \A r \in Players : Member(queue', r) => Member(queue, r)
    BY <2>1, NobodyEnters
  <2> QED
    BY <1>4, <2>2, <2>3
<1>7. ASSUME NEW p \in Players, Arrive(p) PROVE Settled'
  <2>1. /\ player[p].place = "entering" /\ queue' = queue
        /\ \/ player' = [player EXCEPT ![p].place = "in"]
           \/ player' = [player EXCEPT ![p].place = "loading", ![p].bg = 0]
    BY <1>7 DEF Arrive
  <2>2. ~Member(queue', p) /\ \A r \in Players \ {p} : player'[r] = player[r]
    BY <1>0, <2>1
  <2> QED
    BY <1>4, <2>1, <2>2
<1>8. ASSUME NEW p \in Players, LeaveBattleground(p) PROVE Settled'
  <2>1. /\ player[p].place = "in" /\ queue' = queue
        /\ p \in ground[player[p].bg].members
        /\ RemovePlayersAtLeave({p}, player[p].bg, ground[player[p].bg])
    BY <1>8 DEF LeaveBattleground
  <2>2. player[p].bg \in Grounds
    <3>1. player[p].bg \in 0..MaxGrounds /\ player[p].bg # 0
      BY <1>0, <2>1 DEF PlayersOK, Person, Seated
    <3> QED
      BY <3>1, SizesAssumption DEF Grounds
  <2>3. {p} \subseteq ground[player[p].bg].members
    BY <2>1
  <2> QED
    BY <2>1, <2>2, <2>3, NobodyTeleported
<1>9. ASSUME NEW p \in Players, ZoneOut(p) \/ ZoneIn(p) PROVE Settled'
  <2>1. CASE ZoneOut(p)
    <3>1. ~player[p].queued /\ queue' = queue /\ player' = [player EXCEPT ![p].place = "loading"]
      BY <2>1 DEF ZoneOut
    <3>2. ~Member(queue', p) /\ \A r \in Players \ {p} : player'[r] = player[r]
      BY <1>0, <3>1
    <3> QED
      BY <1>4, <3>1, <3>2
  <2>2. CASE ZoneIn(p)
    <3>1. queue' = queue /\ player' = [player EXCEPT ![p].place = "world"]
      BY <2>2 DEF ZoneIn
    <3>2. player'[p].place = "world" /\ \A r \in Players \ {p} : player'[r] = player[r]
      BY <1>0, <3>1 DEF Person
    <3> QED
      BY <1>4, <3>1, <3>2
  <2> QED
    BY <1>9, <2>1, <2>2
<1>10. ASSUME NEW p \in Players, Logout(p) PROVE Settled'
  <2>1. /\ player' = [player EXCEPT ![p].queued = FALSE, ![p].invite = 0, ![p].place = "offline"]
        /\ queue' = queue \/ RemovePlayer(p, player[p].queued)
    BY <1>10 DEF Logout
  <2>2. player'[p].place = "offline" /\ \A r \in Players \ {p} : player'[r] = player[r]
    BY <1>0, <2>1 DEF Person
  <2>3. \A r \in Players : Member(queue', r) => Member(queue, r)
    BY <2>1, NobodyEnters
  <2> QED
    BY <1>4, <2>2, <2>3
<1>11. ASSUME NEW p \in Players, Login(p) PROVE Settled'
  <2>1. /\ player[p].place = "offline" /\ queue' = queue
        /\ \/ \E b : player' = [player EXCEPT ![p] = [@ EXCEPT !.queued = TRUE, !.invite = b, !.place = "in"]]
           \/ player' = [player EXCEPT ![p].bg = 0, ![p].place = "world"]
    BY <1>11 DEF Login
  <2>2. ~Member(queue', p) /\ \A r \in Players \ {p} : player'[r] = player[r]
    BY <1>0, <2>1
  <2> QED
    BY <1>4, <2>1, <2>2
<1>12. ASSUME NEW b \in Grounds, UpdateGround(b) PROVE Settled'
  <2>1. queue' = queue
    BY <1>12 DEF UpdateGround
  <2>2. CASE ProcessOfflineQueue(b)
    <3>1. PICK g : /\ Head(ground[b].offline) \in ground[b].members
                   /\ RemovePlayersAtLeave({Head(ground[b].offline)}, b, g)
      BY <2>2 DEF ProcessOfflineQueue
    <3>2. {Head(ground[b].offline)} \subseteq ground[b].members
      BY <3>1
    <3> QED
      BY <2>1, <3>1, <3>2, NobodyTeleported
  <2>3. CASE ProcessLeave(b)
    BY <2>1, <2>3, NobodyTeleported DEF ProcessLeave
  <2>4. CASE player' = player
    BY <2>1, <2>4 DEF Settled
  <2> QED
    BY <1>12, <2>2, <2>3, <2>4 DEF UpdateGround, DeleteGround, StartBattle, EndNow, Idle
<1>13. ASSUME BeginUpdate PROVE Settled'
  <2>1. player' = player
    BY <1>13 DEF BeginUpdate
  <2>2. \A r \in Players : Member(queue', r) => Member(queue, r)
    BY <1>13, BeginUpdateKeeps
  <2> QED
    BY <2>1, <2>2 DEF Settled
<1>14. ASSUME NEW e \in timers, RemoveEvent(e) PROVE Settled'
  <2>1. e.player \in Players
    BY DEF BgInv, Timer
  <2>2. CASE queue' = queue /\ player' = player
    BY <2>2 DEF Settled
  <2>3. CASE RemovePlayer(e.player, TRUE) /\ RemoveBattlegroundQueueId({e.player})
    <3>1. \A r \in Players : player'[r].place = player[r].place
      BY <1>0, <2>3 DEF RemoveBattlegroundQueueId, Person
    <3>2. \A r \in Players : Member(queue', r) => Member(queue, r)
      BY <2>1, <2>3, NobodyEnters
    <3> QED
      BY <3>1, <3>2 DEF Settled
  <2> QED
    BY <1>14, <2>2, <2>3 DEF RemoveEvent
<1>15. ASSUME UpdateQueues PROVE Settled'
  <2>1. Reachable
    BY <1>15, SettledFound DEF AllFound, UpdateQueues
  <2>2. \A r \in Players : Member(queue', r) <=> Member(queue, r)
    BY <1>15, <2>1, UpdateQueuesKeeps
  <2>3. \A r \in Players : player'[r].place = player[r].place
    <3>1. \/ player' = player
          \/ \E told : player' = [p \in Players |-> [player[p] EXCEPT !.invite = told[p]]]
      BY <1>15 DEF UpdateQueues, BattlegroundQueueUpdate
    <3> QED
      BY <1>0, <3>1 DEF Person
  <2> QED
    BY <2>2, <2>3 DEF Settled
<1>16. ASSUME UNCHANGED <<queue, player>> PROVE Settled'
  BY <1>16 DEF Settled
<1>17. ASSUME NEW b \in Grounds, EndBattleground(b) PROVE Settled'
  BY <1>16, <1>17 DEF EndBattleground
<1>18. ASSUME UNCHANGED vars PROVE Settled'
  BY <1>16, <1>18 DEF vars
<1> QED
  BY <1>2, <1>3, <1>5, <1>6, <1>7, <1>8, <1>9, <1>10, <1>11, <1>12, <1>13, <1>14, <1>15, <1>17, <1>18
     DEF Next, Update, Handlers

\* If queued players do not change maps, everybody in the queue can be found
\* whenever it is updated, and the invariant holds without a condition.
THEOREM SettledReckoning ==
  ASSUME ~Zoning
  PROVE  Spec => [](BgInv /\ AllFound)
<1>1. Init => BgInv /\ Settled
  <2>1. ASSUME Init PROVE Settled
    BY <2>1 DEF Init, Settled
  <2> QED
    BY <2>1, InitKeeps
<1>2. BgInv /\ Settled /\ [Next]_vars => (BgInv /\ Settled)'
  <2>1. ASSUME BgInv, Settled, [Next]_vars PROVE BgInv' /\ Settled'
    <3>1. AllFound
      BY <2>1, SettledFound
    <3> QED
      BY <2>1, <3>1, NextKeeps, SettledKeeps
  <2> QED
    BY <2>1
<1>3. BgInv /\ Settled => AllFound
  BY SettledFound
<1> QED
  BY <1>1, <1>2, <1>3, PTL DEF Spec

\* If queued players do not change maps, the counter of a battleground is the
\* number of players it has to reckon with (Increase/DecreaseInvitedCount).
THEOREM CountersExact ==
  ASSUME ~Zoning
  PROVE  Spec => []InvitedExact
<1>1. BgInv => InvitedExact
  BY InvariantImplies
<1> QED
  BY <1>1, SettledReckoning, PTL

\* If queued players do not change maps, no team is promised more places than
\* a battleground has (FillPlayersToBG, CheckNormalMatch, CheckPremadeMatch).
THEOREM NeverOverbooked ==
  ASSUME ~Zoning
  PROVE  Spec => []NoOverbooking
<1>1. BgInv => NoOverbooking
  BY InvariantImplies
<1> QED
  BY <1>1, SettledReckoning, PTL

\* If queued players do not change maps, no battleground is deleted under
\* somebody who was promised a place in it (Battleground::Update).
THEOREM PromisesKept ==
  ASSUME ~Zoning
  PROVE  Spec => []PromiseKept
<1>1. BgInv => PromiseKept
  BY InvariantImplies
<1> QED
  BY <1>1, SettledReckoning, PTL

\* If queued players do not change maps, the timer of an invitation takes
\* nobody out of the queue before his time (BGQueueRemoveEvent::Execute).
THEOREM TimeToAnswer ==
  ASSUME ~Zoning
  PROVE  Spec => FullTimeToAnswer
<1>1. BgInv /\ AllFound /\ [Next]_vars =>
        [\A p \in Players : stage = Events /\ Queued(p) /\ ~Queued(p)' =>
            GroupOf(p).invited # 0 /\ GroupOf(p).left = 0]_vars
  BY TakenOutInTime
<1> QED
  BY <1>1, SettledReckoning, PTL DEF Spec, FullTimeToAnswer

=============================================================================
