-------------------------- MODULE InstanceIdsProofs --------------------------
(***************************************************************************)
(* Proofs about InstanceIds for any number of map update threads and ids,  *)
(* any saved instances, chunk and storage unit.                            *)
(***************************************************************************)
EXTENDS InstanceIds, FiniteSetTheorems, TLAPS

WorkType == [pc : {"idle", "setnext", "read", "write"},
             id : 0..MaxId, word : SUBSET (0..MaxId)]

\* What the variables hold.
Types ==
  /\ main \in {"boot", "world", "maps"}
  /\ toLoad \subseteq 1..MaxId
  /\ next \in 1..MaxId + 1
  /\ bits \subseteq 0..MaxId
  /\ size \in Nat /\ capacity \in Nat
  /\ \A i \in bits : i < size
  /\ work \in [Workers -> WorkType]
  /\ \A w \in Workers : \A i \in work[w].word : i < size
  /\ dungeons \in [1..MaxId -> Nat] /\ arenas \in [1..MaxId -> Nat]
  /\ left \in [1..MaxId -> Nat]
  /\ overlapped \in BOOLEAN

Busy(w) == work[w].pc # "idle"

\* Nothing is freed while the world thread runs.
Freeing ==
  /\ \A w \in Workers : ~Busy(w) => work[w] = Idle
  /\ \A w \in Workers : Busy(w) => work[w].id \in 1..MaxId
  /\ main # "maps" => \A w \in Workers : ~Busy(w)

\* The size and the capacity are multiples of the chunk, and the next id is at most one past
\* the last index, so that an id without a bit is the size of the vector.
Sizes ==
  /\ size % Chunk = 0 /\ capacity % Chunk = 0
  /\ size <= capacity /\ next <= size + 1
  /\ \A i \in HeldIds \cup toLoad : i <= size
  /\ \A w \in Workers : work[w].id <= size

\* The rows of the table are read in ascending order.
Ascending == main = "boot" => \A i \in HeldIds, j \in toLoad : i < j

\* An id has one holder, and none while a thread frees it.
Unique ==
  \A i \in 1..MaxId : i % Chunk # 0 =>
    /\ Holders(i) <= 1
    /\ \A w \in Workers : Busy(w) /\ work[w].id = i => Holders(i) = 0

\* No thread is about to clear the bit of an id that is held.
Covered ==
  \A i \in HeldIds : i % Chunk # 0 =>
    /\ i \in bits
    /\ \A w \in Workers : work[w].pc = "write" /\ i \in SameUnit(work[w].id) => i \in work[w].word

NextFree == next \in HeldIds => next % Chunk = 0

\* As long as one thread at a time frees ids, none is forgotten.
Exact ==
  ~overlapped =>
    /\ \A v, w \in Workers : Busy(v) /\ Busy(w) => v = w
    /\ \A i \in bits : i \in HeldIds \/ \E w \in Workers : Busy(w) /\ work[w].id = i
    /\ \A i \in 1..next - 1 :
         i \in HeldIds \/ \E w \in Workers : work[w].pc = "setnext" /\ work[w].id = i
    /\ \A w \in Workers :
         /\ work[w].pc = "setnext" => work[w].id < next
         /\ work[w].pc = "write" => work[w].word = bits \cap SameUnit(work[w].id)

IdInv == Types /\ Freeing /\ Sizes /\ Ascending /\ Unique /\ Covered /\ NextFree /\ Exact

-----------------------------------------------------------------------------
(* Numbers *)

\* A set of naturals that is not empty has a least element.
LEMMA LeastElement ==
  ASSUME NEW T, T \subseteq Nat, T # {}
  PROVE  \E n \in T : \A m \in T : n <= m
<1>1. IsWellFoundedOn(OpToRel(<, Nat), Nat)
  BY NatLessThanWellFounded
<1>2. PICK n \in T : \A m \in T : <<m, n>> \notin OpToRel(<, Nat)
  BY <1>1, WFMin
<1>3. \A m \in T : ~(m < n)
  BY <1>2 DEF OpToRel
<1> QED
  BY <1>3

\* Min finds it.
LEMMA MinOf ==
  ASSUME NEW T, T \subseteq Nat, T # {}
  PROVE  Min(T) \in T /\ \A m \in T : Min(T) <= m
  BY LeastElement DEF Min

\* Max finds the greatest element of a finite set of naturals.
LEMMA MaxOf ==
  ASSUME NEW k \in Nat, NEW T, T \subseteq 0..k, T # {}
  PROVE  Max(T) \in T /\ \A m \in T : m <= Max(T)
<1> DEFINE U == {n \in Nat : \A m \in T : m <= n}
<1>1. U \subseteq Nat /\ k \in U
  OBVIOUS
<1>2. PICK n \in U : \A m \in U : n <= m
  BY <1>1, LeastElement
<1>3. n \in T
  <2> SUFFICES ASSUME n \notin T PROVE FALSE
    OBVIOUS
  <2>1. \A m \in T : m <= n - 1 /\ n - 1 \in Nat
    OBVIOUS
  <2>2. n - 1 \in U
    BY <2>1
  <2> QED
    BY <1>2, <2>2
<1>4. \E x \in T : \A y \in T : x >= y
  BY <1>3
<1> QED
  BY <1>4 DEF Max

\* The size that is asked for is no smaller than the id, and a natural number.
LEMMA RoundUpOf ==
  ASSUME NEW id \in Nat
  PROVE  RoundUp(id) \in Nat /\ RoundUp(id) >= id
<1>1. Chunk \in Nat /\ Chunk > 0
  BY InstanceIdsAssumption
<1>2. /\ id \div Chunk \in Nat /\ id % Chunk \in 0..(Chunk - 1)
      /\ id = Chunk * (id \div Chunk) + (id % Chunk)
  BY <1>1
<1>3. (id \div Chunk) * Chunk \in Nat
  BY <1>1, <1>2
<1> QED
  BY <1>1, <1>2, <1>3 DEF RoundUp

\* The whole units that hold n bits.
LEMMA WholeUnits ==
  ASSUME NEW n \in Nat, n > 0
  PROVE  /\ ((n + Unit - 1) \div Unit) * Unit >= n
         /\ ((n + Unit - 1) \div Unit) * Unit >= Unit
<1>1. Unit \in Nat /\ Unit > 0
  BY InstanceIdsAssumption
<1> DEFINE x == n + Unit - 1
<1>2. x \in Nat /\ x >= Unit /\ x >= n
  BY <1>1
<1>3. x \div Unit \in Nat /\ x % Unit \in 0..(Unit - 1) /\ x = Unit * (x \div Unit) + (x % Unit)
  BY <1>1, <1>2
<1>4. Unit * (x \div Unit) = (x \div Unit) * Unit /\ (x \div Unit) * Unit \in Nat
  BY <1>1, <1>3
<1>5. (x \div Unit) * Unit >= n
  BY <1>1, <1>3, <1>4
<1>6. x \div Unit >= 1
  BY <1>1, <1>2, <1>3, <1>4
<1>7. (x \div Unit) * Unit >= Unit
  BY <1>1, <1>3, <1>6
<1> QED
  BY <1>5, <1>7

\* An id that is no multiple of the chunk has its bit in the vector.
LEMMA RoundUpHolds ==
  ASSUME NEW id \in Nat, id % Chunk # 0
  PROVE  RoundUp(id) > id
<1>1. Chunk \in Nat /\ Chunk > 0
  BY InstanceIdsAssumption
<1>2. /\ id \div Chunk \in Nat /\ id % Chunk \in 0..(Chunk - 1)
      /\ id = Chunk * (id \div Chunk) + (id % Chunk)
  BY <1>1
<1>3. (id \div Chunk) * Chunk \in Nat /\ Chunk * (id \div Chunk) = (id \div Chunk) * Chunk
  BY <1>1, <1>2
<1> QED
  BY <1>1, <1>2, <1>3 DEF RoundUp

\* A product is a multiple of its factor.
LEMMA ProductMultiple ==
  ASSUME NEW k \in Nat
  PROVE  (k * Chunk) % Chunk = 0
<1>1. Chunk \in Nat /\ Chunk > 0
  BY InstanceIdsAssumption
<1> DEFINE p == k * Chunk
           q == p \div Chunk
           r == p % Chunk
<1>2. p \in Nat
  BY <1>1
<1>3. q \in Nat /\ r \in 0..(Chunk - 1) /\ p = Chunk * q + r
  BY <1>1, <1>2
<1>4. Chunk * (k - q) = r
  BY <1>1, <1>3
<1> HIDE DEF q, r
<1>5. ~(k - q >= 1)
  <2> SUFFICES ASSUME k - q >= 1 PROVE FALSE
    OBVIOUS
  <2>1. Chunk * (k - q) >= Chunk
    BY <1>1, <1>3
  <2> QED
    BY <1>1, <1>3, <1>4, <2>1
<1>6. ~(k - q <= -1)
  <2> SUFFICES ASSUME k - q <= -1 PROVE FALSE
    OBVIOUS
  <2>1. Chunk * (k - q) <= -Chunk
    BY <1>1, <1>3
  <2> QED
    BY <1>1, <1>3, <1>4, <2>1
<1>7. k = q
  BY <1>3, <1>5, <1>6
<1>8. r = 0
  BY <1>1, <1>3, <1>4, <1>7
<1> QED
  BY <1>8 DEF r

\* The size that is asked for is a multiple of the chunk.
LEMMA RoundUpMultiple ==
  ASSUME NEW id \in Nat
  PROVE  RoundUp(id) % Chunk = 0
<1>1. Chunk \in Nat /\ Chunk > 0
  BY InstanceIdsAssumption
<1>2. PICK q \in Nat : q = id \div Chunk
  BY <1>1
<1>3. (q * Chunk) % Chunk = 0 /\ ((q + 1) * Chunk) % Chunk = 0
  BY ProductMultiple
<1>4. q * Chunk + Chunk = (q + 1) * Chunk /\ q * Chunk + 0 = q * Chunk
  BY <1>1
<1> QED
  BY <1>2, <1>3, <1>4 DEF RoundUp

\* Whole storage units are a multiple of the chunk.
LEMMA UnitsMultiple ==
  ASSUME NEW q \in Nat
  PROVE  q * Unit \in Nat /\ (q * Unit) % Chunk = 0
<1>1. Chunk \in Nat /\ Chunk > 0 /\ Unit \in Nat /\ Unit % Chunk = 0
  BY InstanceIdsAssumption
<1>2. PICK u \in Nat : Unit = u * Chunk
  <2>1. Unit = Chunk * (Unit \div Chunk) + (Unit % Chunk) /\ Unit \div Chunk \in Nat
    BY <1>1
  <2>2. Unit = (Unit \div Chunk) * Chunk
    BY <1>1, <2>1
  <2> QED
    BY <2>1, <2>2
<1>3. PICK m \in Nat : m = q * u
  BY <1>2
<1>4. q * Unit = m * Chunk
  BY <1>1, <1>2, <1>3
<1>5. (m * Chunk) % Chunk = 0
  BY ProductMultiple
<1>6. m * Chunk \in Nat
  BY <1>1, <1>3
<1> QED
  BY <1>4, <1>5, <1>6

\* The capacity after a resize.
LEMMA CapacityOf ==
  ASSUME capacity \in Nat, capacity % Chunk = 0, size \in Nat, NEW n \in Nat
  PROVE  CapacityFor(n) \in Nat /\ CapacityFor(n) % Chunk = 0 /\ n <= CapacityFor(n)
<1>1. Unit \in Nat /\ Unit > 0
  BY InstanceIdsAssumption
<1>2. ASSUME NEW len \in Nat, len > 0, n <= len
      PROVE  LET c == ((len + Unit - 1) \div Unit) * Unit
             IN  c \in Nat /\ c % Chunk = 0 /\ n <= c
  <2>1. len + Unit - 1 \in Nat
    BY <1>1
  <2>2. (len + Unit - 1) \div Unit \in Nat
    BY <1>1, <2>1
  <2>3. ((len + Unit - 1) \div Unit) * Unit >= len
    BY <1>2, WholeUnits
  <2>4. PICK q \in Nat : q = (len + Unit - 1) \div Unit
    BY <2>2
  <2>5. q * Unit \in Nat /\ (q * Unit) % Chunk = 0
    BY UnitsMultiple
  <2>6. n <= q * Unit
    BY <1>2, <2>3, <2>4, <2>5
  <2> QED
    BY <2>4, <2>5, <2>6, Zenon
<1>3. CASE n <= capacity
  BY <1>3 DEF CapacityFor
<1>4. CASE ~(n <= capacity)
  <2> DEFINE len == IF 2 * size > n THEN 2 * size ELSE n
  <2>1. len \in Nat /\ len > 0 /\ n <= len
    BY <1>4
  <2>2. CapacityFor(n) = ((len + Unit - 1) \div Unit) * Unit
    BY <1>4 DEF CapacityFor
  <2> HIDE DEF len
  <2> QED
    BY <1>2, <2>1, <2>2
<1> QED
  BY <1>3, <1>4

\* Counting one instance more or less under an id.
LEMMA Counting ==
  ASSUME NEW f \in [1..MaxId -> Nat], NEW id \in 1..MaxId
  PROVE  /\ Plus(f, id) \in [1..MaxId -> Nat] /\ Plus(f, id)[id] = f[id] + 1
         /\ \A i \in 1..MaxId \ {id} : Plus(f, id)[i] = f[i]
         /\ f[id] > 0 => /\ Minus(f, id) \in [1..MaxId -> Nat]
                         /\ Minus(f, id)[id] = f[id] - 1
         /\ \A i \in 1..MaxId \ {id} : Minus(f, id)[i] = f[i]
  BY DEF Plus, Minus

Counts == dungeons \in [1..MaxId -> Nat] /\ arenas \in [1..MaxId -> Nat]

\* An instance more, or less, holds the id.
LEMMA GivenTo ==
  ASSUME Counts, NEW id \in 1..MaxId,
         \/ dungeons' = Plus(dungeons, id) /\ arenas' = arenas
         \/ arenas' = Plus(arenas, id) /\ dungeons' = dungeons
  PROVE  /\ Counts' /\ Holders(id)' = Holders(id) + 1
         /\ \A i \in 1..MaxId \ {id} : Holders(i)' = Holders(i)
         /\ HeldIds' = HeldIds \cup {id}
         /\ \A i \in 1..MaxId : Holders(i) \in Nat
<1>1. \A i \in 1..MaxId : Holders(i) \in Nat
  BY DEF Counts, Holders
<1>2. /\ Counts' /\ Holders(id)' = Holders(id) + 1
      /\ \A i \in 1..MaxId \ {id} : Holders(i)' = Holders(i)
  <2>1. CASE dungeons' = Plus(dungeons, id) /\ arenas' = arenas
    <3>1. /\ dungeons' \in [1..MaxId -> Nat] /\ dungeons'[id] = dungeons[id] + 1
          /\ \A i \in 1..MaxId \ {id} : dungeons'[i] = dungeons[i]
      BY <2>1, Counting DEF Counts
    <3> QED
      BY <2>1, <3>1 DEF Counts, Holders
  <2>2. CASE arenas' = Plus(arenas, id) /\ dungeons' = dungeons
    <3>1. /\ arenas' \in [1..MaxId -> Nat] /\ arenas'[id] = arenas[id] + 1
          /\ \A i \in 1..MaxId \ {id} : arenas'[i] = arenas[i]
      BY <2>2, Counting DEF Counts
    <3> QED
      BY <2>2, <3>1 DEF Counts, Holders
  <2> QED
    BY <2>1, <2>2
<1>3. HeldIds' = HeldIds \cup {id}
  BY <1>1, <1>2 DEF HeldIds
<1> QED
  BY <1>1, <1>2, <1>3

LEMMA TakenFrom ==
  ASSUME Counts, NEW id \in 1..MaxId,
         \/ dungeons[id] > 0 /\ dungeons' = Minus(dungeons, id) /\ arenas' = arenas
         \/ arenas[id] > 0 /\ arenas' = Minus(arenas, id) /\ dungeons' = dungeons
  PROVE  /\ Counts' /\ Holders(id)' = Holders(id) - 1 /\ Holders(id) > 0
         /\ \A i \in 1..MaxId \ {id} : Holders(i)' = Holders(i)
         /\ HeldIds' \subseteq HeldIds /\ HeldIds \ {id} \subseteq HeldIds'
         /\ \A i \in 1..MaxId : Holders(i) \in Nat
         /\ id \in HeldIds
<1>1. \A i \in 1..MaxId : Holders(i) \in Nat
  BY DEF Counts, Holders
<1>2. /\ Counts' /\ Holders(id)' = Holders(id) - 1 /\ Holders(id) > 0
      /\ \A i \in 1..MaxId \ {id} : Holders(i)' = Holders(i)
  <2>1. CASE dungeons[id] > 0 /\ dungeons' = Minus(dungeons, id) /\ arenas' = arenas
    <3>1. /\ dungeons' \in [1..MaxId -> Nat] /\ dungeons'[id] = dungeons[id] - 1
          /\ \A i \in 1..MaxId \ {id} : dungeons'[i] = dungeons[i]
      BY <2>1, Counting DEF Counts
    <3> QED
      BY <2>1, <3>1 DEF Counts, Holders
  <2>2. CASE arenas[id] > 0 /\ arenas' = Minus(arenas, id) /\ dungeons' = dungeons
    <3>1. /\ arenas' \in [1..MaxId -> Nat] /\ arenas'[id] = arenas[id] - 1
          /\ \A i \in 1..MaxId \ {id} : arenas'[i] = arenas[i]
      BY <2>2, Counting DEF Counts
    <3> QED
      BY <2>2, <3>1 DEF Counts, Holders
  <2> QED
    BY <2>1, <2>2
<1>3. HeldIds' \subseteq HeldIds /\ HeldIds \ {id} \subseteq HeldIds' /\ id \in HeldIds
  BY <1>1, <1>2 DEF HeldIds
<1> QED
  BY <1>1, <1>2, <1>3

-----------------------------------------------------------------------------
(* The world thread *)

\* While the world thread runs no thread frees an id.
LEMMA NobodyFrees ==
  ASSUME IdInv, main # "maps"
  PROVE  \A w \in Workers : ~Busy(w) /\ work[w] = Idle /\ work[w].pc = "idle"
  BY DEF IdInv, Freeing, Busy, Idle

\* Loading a row of the table.
LEMMA RegisterKeeps ==
  ASSUME IdInv, RegisterInstanceId
  PROVE  IdInv'
<1>0. MaxId \in Nat
  BY InstanceIdsAssumption
<1>id. PICK id : id = Min(toLoad)
  OBVIOUS
<1>1. id \in toLoad /\ \A j \in toLoad : id <= j
  <2>1. toLoad \subseteq Nat /\ toLoad # {}
    BY <1>0 DEF RegisterInstanceId, IdInv, Types
  <2> QED
    BY <1>id, <2>1, MinOf
<1>2. /\ main = "boot" /\ main' = main /\ toLoad' = toLoad \ {id}
      /\ next' = IF next = id THEN id + 1 ELSE next
      /\ bits' = IF id < size THEN bits \cup {id} ELSE bits
      /\ dungeons' = Plus(dungeons, id)
      /\ UNCHANGED <<size, capacity, work, arenas, left, overlapped>>
  BY <1>id DEF RegisterInstanceId
<1>3. id \in 1..MaxId /\ id <= size /\ \A i \in HeldIds : i < id
  BY <1>1, <1>2 DEF IdInv, Types, Sizes, Ascending
<1>4. /\ Counts' /\ Holders(id)' = Holders(id) + 1
      /\ \A i \in 1..MaxId \ {id} : Holders(i)' = Holders(i)
      /\ HeldIds' = HeldIds \cup {id}
      /\ \A i \in 1..MaxId : Holders(i) \in Nat
  <2>1. Counts
    BY DEF IdInv, Types, Counts
  <2>2. dungeons' = Plus(dungeons, id) /\ arenas' = arenas
    BY <1>2
  <2> QED
    BY <1>3, <2>1, <2>2, GivenTo
<1>5. \A w \in Workers : ~Busy(w) /\ work[w] = Idle /\ work[w].pc = "idle"
  BY <1>2, NobodyFrees
<1>6. Types'
  <2>1. next' \in 1..MaxId + 1
    BY <1>0, <1>2, <1>3 DEF IdInv, Types
  <2>2. bits' \subseteq 0..MaxId /\ \A i \in bits' : i < size'
    BY <1>0, <1>2, <1>3 DEF IdInv, Types
  <2> QED
    BY <1>2, <1>4, <2>1, <2>2 DEF IdInv, Types, Counts
<1>7. Freeing'
  BY <1>2 DEF IdInv, Freeing, Busy
<1>8. Sizes'
  <2>1. next' <= size + 1
    BY <1>0, <1>2, <1>3 DEF IdInv, Types, Sizes
  <2> QED
    BY <1>2, <1>3, <1>4, <2>1 DEF IdInv, Sizes
<1>9. Ascending'
  <2> SUFFICES ASSUME NEW i \in HeldIds', NEW j \in toLoad' PROVE i < j
    BY DEF Ascending
  <2>1. j \in toLoad /\ j \in 1..MaxId /\ j # id /\ id <= j
    BY <1>1, <1>2 DEF IdInv, Types
  <2>2. i = id \/ i < id
    BY <1>3, <1>4
  <2>3. i \in 1..MaxId
    BY DEF HeldIds
  <2> QED
    BY <1>0, <1>3, <2>1, <2>2, <2>3
<1>10. id % Chunk # 0 => id < size
  <2> SUFFICES ASSUME id = size PROVE id % Chunk = 0
    BY <1>0, <1>3 DEF IdInv, Types
  <2> QED
    BY DEF IdInv, Sizes
<1>11. Holders(id) = 0
  BY <1>0, <1>3, <1>4 DEF HeldIds
<1>12. Unique'
  <2> SUFFICES ASSUME NEW i \in 1..MaxId, i % Chunk # 0 PROVE Holders(i)' <= 1
    BY <1>2, <1>5 DEF Unique, Busy
  <2> QED
    BY <1>4, <1>11 DEF IdInv, Unique
<1>13. Covered'
  BY <1>2, <1>4, <1>5, <1>10 DEF IdInv, Covered, SameUnit
<1>14. NextFree'
  BY <1>0, <1>2, <1>3, <1>4 DEF IdInv, NextFree, Types
<1>15. Exact'
  <2> SUFFICES ASSUME ~overlapped PROVE Exact'
    BY <1>2 DEF Exact
  <2>1. bits \subseteq HeldIds /\ 1..next - 1 \subseteq HeldIds
    BY <1>5 DEF IdInv, Exact
  <2>2. bits' \subseteq HeldIds'
    BY <1>2, <1>4, <2>1
  <2>3. 1..next' - 1 \subseteq HeldIds'
    BY <1>0, <1>2, <1>3, <1>4, <2>1 DEF IdInv, Types
  <2>4. \A w \in Workers : ~Busy(w)' /\ work'[w].pc = "idle"
    BY <1>2, <1>5 DEF Busy
  <2> QED
    BY <2>2, <2>3, <2>4 DEF Exact
<1> QED
  BY <1>6, <1>7, <1>8, <1>9, <1>12, <1>13, <1>14, <1>15 DEF IdInv

\* The scan ends at most one past the last index.
LEMMA ScanEnd ==
  ASSUME NEW id \in Nat, NEW n \in Nat, NEW s \in Nat, NEW z \in Nat,
         id <= z, s <= z, n >= id + 1, \A i \in id + 1..n - 1 : i < s
  PROVE  n <= z + 1
<1> SUFFICES ASSUME n > z + 1 PROVE FALSE
  OBVIOUS
<1>1. n - 1 \in id + 1..n - 1
  OBVIOUS
<1> QED
  BY <1>1

\* GenerateInstanceId: the scan ends at an id that nobody holds, and the id that
\* is handed out gets its bit unless it is a multiple of the chunk.
LEMMA GenerateKeeps ==
  ASSUME IdInv, GenerateInstanceId, left' \in [1..MaxId -> Nat],
         \/ dungeons' = Plus(dungeons, next) /\ arenas' = arenas
         \/ arenas' = Plus(arenas, next) /\ dungeons' = dungeons
  PROVE  IdInv'
<1>0. MaxId \in Nat
  BY InstanceIdsAssumption
<1>id. PICK id : id = next
  OBVIOUS
<1>n. PICK n : n = NextAfter(id)
  OBVIOUS
<1> DEFINE T == {i \in id + 1..MaxId + 1 : i >= size \/ i \notin bits}
<1>1. /\ main = "world" /\ main' = main /\ id <= MaxId
      /\ next' = n
      /\ size' = IF id < size THEN size
                 ELSE IF size < capacity THEN capacity ELSE RoundUp(id)
      /\ capacity' = CapacityFor(size')
      /\ bits' = IF id < size' THEN bits \cup {id} ELSE bits
      /\ UNCHANGED <<toLoad, work, overlapped>>
  BY <1>id, <1>n DEF GenerateInstanceId
<1>2. id \in 1..MaxId /\ id <= size + 1 /\ (id \in HeldIds => id % Chunk = 0)
  BY <1>0, <1>id, <1>1 DEF IdInv, Types, Sizes, NextFree
<1>3. n \in T /\ \A m \in T : n <= m
  <2>1. MaxId + 1 \in T
    BY <1>0, <1>2 DEF IdInv, Types
  <2>2. T \subseteq Nat /\ T # {}
    BY <1>0, <1>2, <2>1
  <2> QED
    BY <1>n, <2>2, MinOf DEF NextAfter
<1>4. /\ n \in id + 1..MaxId + 1 /\ n \notin bits
      /\ \A i \in id + 1..n - 1 : i \in bits /\ i < size
  <2>1. n \notin bits
    BY <1>3 DEF IdInv, Types
  <2>2. ASSUME NEW i \in id + 1..n - 1 PROVE i \in bits /\ i < size
    <3>1. i \in id + 1..MaxId + 1 /\ i < n
      BY <1>0, <1>2, <1>3
    <3>2. i \notin T
      BY <1>0, <1>2, <1>3, <3>1
    <3> QED
      BY <3>1, <3>2 DEF IdInv, Types
  <2> QED
    BY <1>3, <2>1, <2>2
<1> HIDE DEF T
<1>5. /\ size' \in Nat /\ size <= size' /\ id <= size' /\ size' % Chunk = 0
      /\ id % Chunk # 0 => id < size'
  <2>1. id \in Nat /\ size \in Nat /\ capacity \in Nat /\ size <= capacity
    BY <1>0, <1>2 DEF IdInv, Types, Sizes
  <2>2. size % Chunk = 0 /\ capacity % Chunk = 0
    BY DEF IdInv, Sizes
  <2>3. CASE id < size
    BY <1>1, <2>1, <2>2, <2>3
  <2>4. CASE ~(id < size) /\ size < capacity
    <3>1. size' = capacity /\ id <= capacity
      BY <1>1, <1>2, <2>1, <2>4
    <3> QED
      BY <2>1, <2>2, <2>4, <3>1
  <2>5. CASE ~(id < size) /\ ~(size < capacity)
    <3>1. size' = RoundUp(id)
      BY <1>1, <2>5
    <3>2. RoundUp(id) \in Nat /\ RoundUp(id) >= id /\ RoundUp(id) % Chunk = 0
      BY <2>1, RoundUpOf, RoundUpMultiple
    <3>3. id % Chunk # 0 => RoundUp(id) > id
      BY <2>1, RoundUpHolds
    <3> QED
      BY <2>1, <2>5, <3>1, <3>2, <3>3
  <2> QED
    BY <2>3, <2>4, <2>5
<1>6. capacity' \in Nat /\ capacity' % Chunk = 0 /\ size' <= capacity'
  <2>1. PICK z \in Nat : z = size'
    BY <1>5
  <2>2. CapacityFor(z) \in Nat /\ CapacityFor(z) % Chunk = 0 /\ z <= CapacityFor(z)
    BY CapacityOf DEF IdInv, Types, Sizes
  <2> QED
    BY <1>1, <2>1, <2>2
<1>7. /\ Counts' /\ Holders(id)' = Holders(id) + 1
      /\ \A i \in 1..MaxId \ {id} : Holders(i)' = Holders(i)
      /\ HeldIds' = HeldIds \cup {id}
      /\ \A i \in 1..MaxId : Holders(i) \in Nat
  <2>1. Counts
    BY DEF IdInv, Types, Counts
  <2>2. \/ dungeons' = Plus(dungeons, id) /\ arenas' = arenas
        \/ arenas' = Plus(arenas, id) /\ dungeons' = dungeons
    BY <1>id
  <2> QED
    BY <1>2, <2>1, <2>2, GivenTo
<1>8. \A w \in Workers : ~Busy(w) /\ work[w] = Idle /\ work[w].pc = "idle"
  BY <1>1, NobodyFrees
<1>9. \A w \in Workers : ~Busy(w)' /\ work'[w] = Idle /\ work'[w].pc = "idle"
  BY <1>1, <1>8 DEF Busy
<1>10. Types'
  <2>1. \A i \in bits' : i < size' /\ i \in 0..MaxId
    BY <1>0, <1>1, <1>2, <1>5 DEF IdInv, Types
  <2>2. n \in 1..MaxId + 1
    BY <1>0, <1>2, <1>4
  <2>3. \A w \in Workers : work'[w].word = {}
    BY <1>9 DEF Idle
  <2> QED
    BY <1>1, <1>5, <1>6, <1>7, <2>1, <2>2, <2>3 DEF IdInv, Types, Counts
<1>11. Freeing'
  BY <1>9 DEF Freeing
<1>12. Sizes'
  <2>1. n <= size' + 1
    <3>1. PICK z \in Nat : z = size' /\ id <= z /\ size <= z
      BY <1>5
    <3>2. n \in Nat /\ id \in Nat /\ size \in Nat /\ n >= id + 1
      BY <1>0, <1>2, <1>4 DEF IdInv, Types
    <3>3. PICK s \in Nat : s = size
      BY <3>2
    <3>4. \A i \in id + 1..n - 1 : i < s
      BY <1>4, <3>3
    <3>5. n <= z + 1
      BY <3>1, <3>2, <3>3, <3>4, ScanEnd
    <3> QED
      BY <3>1, <3>5
  <2>2. \A i \in HeldIds' \cup toLoad' : i <= size'
    <3> SUFFICES ASSUME NEW i \in HeldIds' \cup toLoad' PROVE i <= size'
      OBVIOUS
    <3>1. CASE i = id
      BY <1>5, <3>1
    <3>2. CASE i # id
      <4>1. i \in HeldIds \cup toLoad /\ i \in 1..MaxId
        BY <1>1, <1>7, <3>2 DEF IdInv, Types, HeldIds
      <4>2. i <= size
        BY <4>1 DEF IdInv, Sizes
      <4> QED
        BY <1>0, <1>5, <4>1, <4>2 DEF IdInv, Types
    <3> QED
      BY <3>1, <3>2
  <2>3. \A w \in Workers : work'[w].id <= size'
    BY <1>5, <1>9 DEF Idle
  <2> QED
    BY <1>1, <1>5, <1>6, <2>1, <2>2, <2>3 DEF Sizes
<1>13. Ascending'
  BY <1>1 DEF Ascending
<1>14. Unique'
  <2> SUFFICES ASSUME NEW i \in 1..MaxId, i % Chunk # 0 PROVE Holders(i)' <= 1
    BY <1>9 DEF Unique
  <2>1. CASE i = id
    <3>1. Holders(id) = 0
      BY <1>2, <1>7, <2>1 DEF HeldIds
    <3> QED
      BY <1>7, <2>1, <3>1
  <2>2. CASE i # id
    BY <1>7, <2>2 DEF IdInv, Unique
  <2> QED
    BY <2>1, <2>2
<1>15. Covered'
  <2> SUFFICES ASSUME NEW i \in HeldIds', i % Chunk # 0 PROVE i \in bits'
    BY <1>9 DEF Covered
  <2>1. CASE i = id
    BY <1>1, <1>5, <2>1
  <2>2. CASE i # id
    <3>1. i \in HeldIds
      BY <1>7, <2>2
    <3> QED
      BY <1>1, <3>1 DEF IdInv, Covered
  <2> QED
    BY <2>1, <2>2
<1>16. NextFree'
  <2> SUFFICES ASSUME n \in HeldIds' PROVE n % Chunk = 0
    BY <1>1 DEF NextFree
  <2>1. n # id
    BY <1>0, <1>2, <1>4
  <2>2. n \in HeldIds
    BY <1>7, <2>1
  <2> QED
    BY <1>4, <2>2 DEF IdInv, Covered
<1>17. Exact'
  <2> SUFFICES ASSUME ~overlapped PROVE Exact'
    BY <1>1 DEF Exact
  <2>1. 1..id - 1 \subseteq HeldIds /\ bits \subseteq HeldIds
    BY <1>id, <1>8 DEF IdInv, Exact
  <2>2. bits' \subseteq HeldIds'
    BY <1>1, <1>7, <2>1
  <2>3. ASSUME NEW i \in 1..n - 1 PROVE i \in HeldIds'
    <3>1. CASE i < id
      BY <1>2, <1>4, <1>7, <2>1, <3>1
    <3>2. CASE i = id
      BY <1>7, <3>2
    <3>3. CASE i > id
      BY <1>2, <1>4, <1>7, <2>1, <3>3
    <3> QED
      BY <1>2, <1>4, <3>1, <3>2, <3>3
  <2> QED
    BY <1>1, <1>9, <2>2, <2>3 DEF Exact
<1> QED
  BY <1>10, <1>11, <1>12, <1>13, <1>14, <1>15, <1>16, <1>17 DEF IdInv

\* A dungeon gets an id.
LEMMA CreateInstanceKeeps ==
  ASSUME IdInv, NEW found \in BOOLEAN, CreateInstanceForPlayer(found)
  PROVE  IdInv'
<1>1. /\ GenerateInstanceId /\ dungeons' = Plus(dungeons, next) /\ arenas' = arenas
      /\ left' = (IF found THEN Minus(left, next) ELSE left)
      /\ found => left[next] > 0
  BY DEF CreateInstanceForPlayer
<1>2. left' \in [1..MaxId -> Nat]
  <2>1. left \in [1..MaxId -> Nat] /\ next \in 1..MaxId
    BY <1>1, InstanceIdsAssumption DEF GenerateInstanceId, IdInv, Types
  <2>2. CASE found
    BY <1>1, <2>1, <2>2, Counting
  <2>3. CASE ~found
    BY <1>1, <2>1, <2>3
  <2> QED
    BY <2>2, <2>3
<1> QED
  BY <1>1, <1>2, GenerateKeeps

\* Freeing the id of a dungeon.
LEMMA ResetKeeps ==
  ASSUME IdInv, NEW id \in 1..MaxId, NEW loaded \in BOOLEAN, ResetInstance(id, loaded)
  PROVE  IdInv'
<1>0. MaxId \in Nat
  BY InstanceIdsAssumption
<1>1. /\ main = "world" /\ dungeons[id] > 0
      /\ next' = (IF id < next THEN id ELSE next)
      /\ bits' = bits \ {id} /\ dungeons' = Minus(dungeons, id)
      /\ left' = (IF loaded THEN Plus(left, id) ELSE left)
      /\ UNCHANGED <<main, toLoad, size, capacity, work, arenas, overlapped>>
  BY DEF ResetInstance
<1>2. /\ Counts' /\ Holders(id)' = Holders(id) - 1 /\ Holders(id) > 0
      /\ \A i \in 1..MaxId \ {id} : Holders(i)' = Holders(i)
      /\ HeldIds' \subseteq HeldIds /\ HeldIds \ {id} \subseteq HeldIds'
      /\ \A i \in 1..MaxId : Holders(i) \in Nat
      /\ id \in HeldIds
  <2>1. Counts
    BY DEF IdInv, Types, Counts
  <2>2. dungeons[id] > 0 /\ dungeons' = Minus(dungeons, id) /\ arenas' = arenas
    BY <1>1
  <2> QED
    BY <2>1, <2>2, TakenFrom
<1>3. left' \in [1..MaxId -> Nat]
  <2>1. left \in [1..MaxId -> Nat]
    BY DEF IdInv, Types
  <2>2. CASE loaded
    BY <1>1, <2>1, <2>2, Counting
  <2>3. CASE ~loaded
    BY <1>1, <2>1, <2>3
  <2> QED
    BY <2>2, <2>3
<1>4. \A w \in Workers : ~Busy(w) /\ work[w] = Idle /\ work[w].pc = "idle"
  BY <1>1, NobodyFrees
<1>5. \A w \in Workers : ~Busy(w)' /\ work'[w] = Idle /\ work'[w].pc = "idle"
  BY <1>1, <1>4 DEF Busy
<1>6. Types'
  <2>1. next' \in 1..MaxId + 1
    BY <1>0, <1>1 DEF IdInv, Types
  <2> QED
    BY <1>1, <1>2, <1>3, <2>1 DEF IdInv, Types, Counts
<1>7. Freeing'
  BY <1>5 DEF Freeing
<1>8. Sizes'
  <2>1. next' <= size + 1
    BY <1>0, <1>1 DEF IdInv, Types, Sizes
  <2> QED
    BY <1>1, <1>2, <2>1 DEF IdInv, Sizes
<1>9. Ascending'
  BY <1>1 DEF Ascending
<1>10. Unique'
  <2> SUFFICES ASSUME NEW i \in 1..MaxId, i % Chunk # 0 PROVE Holders(i)' <= 1
    BY <1>5 DEF Unique
  <2>1. Holders(i) <= 1
    BY DEF IdInv, Unique
  <2> QED
    BY <1>2, <2>1
<1>11. id % Chunk # 0 => id \notin HeldIds'
  <2> SUFFICES ASSUME id % Chunk # 0 PROVE Holders(id)' = 0
    BY DEF HeldIds
  <2>1. Holders(id) <= 1
    BY DEF IdInv, Unique
  <2> QED
    BY <1>2, <2>1
<1>12. Covered'
  <2> SUFFICES ASSUME NEW i \in HeldIds', i % Chunk # 0 PROVE i \in bits'
    BY <1>5 DEF Covered
  <2>1. i # id /\ i \in HeldIds
    BY <1>2, <1>11
  <2> QED
    BY <1>1, <2>1 DEF IdInv, Covered
<1>13. NextFree'
  BY <1>1, <1>2, <1>11 DEF IdInv, NextFree
<1>14. Exact'
  <2> SUFFICES ASSUME ~overlapped PROVE Exact'
    BY <1>1 DEF Exact
  <2>1. 1..next - 1 \subseteq HeldIds /\ bits \subseteq HeldIds
    BY <1>4 DEF IdInv, Exact
  <2>2. bits' \subseteq HeldIds'
    BY <1>1, <1>2, <2>1
  <2>3. 1..next' - 1 \subseteq HeldIds'
    <3> SUFFICES ASSUME NEW i \in 1..next' - 1 PROVE i \in HeldIds'
      OBVIOUS
    <3>1. i \in 1..next - 1 /\ i # id
      BY <1>0, <1>1 DEF IdInv, Types
    <3> QED
      BY <1>2, <2>1, <3>1
  <2> QED
    BY <1>1, <1>5, <2>2, <2>3 DEF Exact
<1> QED
  BY <1>6, <1>7, <1>8, <1>9, <1>10, <1>12, <1>13, <1>14 DEF IdInv

-----------------------------------------------------------------------------
(* The map update threads *)

\* A thread takes up the id of a battleground.
LEMMA FreeKeeps ==
  ASSUME IdInv, NEW w \in Workers, NEW id \in 1..MaxId, FreeInstanceId(w, id)
  PROVE  IdInv'
<1> DEFINE new == [pc |-> IF id < next THEN "setnext" ELSE "read", id |-> id, word |-> {}]
<1>0. MaxId \in Nat
  BY InstanceIdsAssumption
<1>1. /\ main = "maps" /\ work[w] = Idle /\ arenas[id] > 0
      /\ work' = [work EXCEPT ![w] = new]
      /\ arenas' = Minus(arenas, id)
      /\ overlapped' = (overlapped \/ \E v \in Workers : work[v] # Idle)
      /\ UNCHANGED <<main, toLoad, next, bits, size, capacity, dungeons, left>>
  BY DEF FreeInstanceId
<1>2. /\ Counts' /\ Holders(id)' = Holders(id) - 1 /\ Holders(id) > 0
      /\ \A i \in 1..MaxId \ {id} : Holders(i)' = Holders(i)
      /\ HeldIds' \subseteq HeldIds /\ HeldIds \ {id} \subseteq HeldIds'
      /\ \A i \in 1..MaxId : Holders(i) \in Nat
      /\ id \in HeldIds
  <2>1. Counts
    BY DEF IdInv, Types, Counts
  <2>2. arenas[id] > 0 /\ arenas' = Minus(arenas, id) /\ dungeons' = dungeons
    BY <1>1
  <2> QED
    BY <2>1, <2>2, TakenFrom
<1>3. /\ new.id = id /\ new.word = {} /\ new.pc = (IF id < next THEN "setnext" ELSE "read")
      /\ new \in WorkType
  BY <1>0 DEF WorkType
<1> HIDE DEF new
<1>4. /\ work'[w] = new /\ \A v \in Workers \ {w} : work'[v] = work[v]
      /\ ~Busy(w) /\ Busy(w)' /\ \A v \in Workers \ {w} : Busy(v)' <=> Busy(v)
  BY <1>1, <1>3 DEF IdInv, Types, Busy, Idle
<1>5. Types'
  <2>1. \A v \in Workers : \A i \in work'[v].word : i < size
    BY <1>3, <1>4 DEF IdInv, Types
  <2>2. work' \in [Workers -> WorkType]
    BY <1>1, <1>3 DEF IdInv, Types
  <2>3. overlapped' \in BOOLEAN
    BY <1>1, Zenon
  <2> QED
    BY <1>1, <1>2, <2>1, <2>2, <2>3 DEF IdInv, Types, Counts
<1>6. Freeing'
  BY <1>1, <1>3, <1>4 DEF IdInv, Freeing
<1>7. Sizes'
  <2>1. id <= size
    BY <1>2 DEF IdInv, Sizes
  <2> QED
    BY <1>1, <1>2, <1>3, <1>4, <2>1 DEF IdInv, Sizes
<1>8. Ascending'
  BY <1>1 DEF Ascending
<1>9. Unique'
  <2> SUFFICES ASSUME NEW i \in 1..MaxId, i % Chunk # 0
               PROVE  /\ Holders(i)' <= 1
                      /\ \A v \in Workers : Busy(v)' /\ work'[v].id = i => Holders(i)' = 0
    BY DEF Unique
  <2>1. Holders(i) <= 1 /\ \A v \in Workers : Busy(v) /\ work[v].id = i => Holders(i) = 0
    BY DEF IdInv, Unique
  <2>2. CASE i = id
    BY <1>2, <2>1, <2>2
  <2>3. CASE i # id
    BY <1>2, <1>3, <1>4, <2>1, <2>3
  <2> QED
    BY <2>2, <2>3
<1>10. Covered'
  BY <1>1, <1>2, <1>3, <1>4 DEF IdInv, Covered, SameUnit
<1>11. NextFree'
  BY <1>1, <1>2 DEF IdInv, NextFree
<1>12. Exact'
  <2> SUFFICES ASSUME ~overlapped' PROVE Exact'
    BY DEF Exact
  <2>1. ~overlapped /\ \A v \in Workers : work[v] = Idle
    BY <1>1, Zenon
  <2>2. \A v \in Workers : ~Busy(v) /\ work[v].pc = "idle"
    BY <2>1 DEF Busy, Idle
  <2>3. 1..next - 1 \subseteq HeldIds /\ bits \subseteq HeldIds
    BY <2>1, <2>2 DEF IdInv, Exact
  <2>4. \A v \in Workers : v # w => ~Busy(v)'
    BY <1>4, <2>2
  <2>5. next \in Nat /\ new.pc # "write" /\ (new.pc = "setnext" <=> id < next)
    BY <1>0, <1>3 DEF IdInv, Types
  <2>6. \A i \in bits' : i \in HeldIds' \/ (Busy(w)' /\ work'[w].id = i)
    <3>1. work'[w].id = id /\ Busy(w)' /\ bits' = bits
      BY <1>1, <1>3, <1>4
    <3> QED
      BY <1>2, <2>3, <3>1
  <2>7. ASSUME NEW i \in 1..next' - 1
        PROVE  i \in HeldIds' \/ (work'[w].pc = "setnext" /\ work'[w].id = i)
    <3>1. i \in HeldIds /\ i < next
      BY <1>1, <2>3, <2>5
    <3>2. CASE i = id
      BY <1>3, <1>4, <2>5, <3>1, <3>2
    <3>3. CASE i # id
      BY <1>2, <3>1, <3>3
    <3> QED
      BY <3>2, <3>3
  <2>8. \A v \in Workers : /\ work'[v].pc = "setnext" => work'[v].id < next'
                           /\ work'[v].pc # "write"
    BY <1>1, <1>3, <1>4, <2>2, <2>5
  <2> QED
    BY <2>4, <2>6, <2>7, <2>8 DEF Exact
<1> QED
  BY <1>5, <1>6, <1>7, <1>8, <1>9, <1>10, <1>11, <1>12 DEF IdInv

\* A thread moves on with the id it frees: the other threads are as before.
LEMMA StepOf ==
  ASSUME IdInv, NEW w \in Workers, Busy(w),
         NEW pc \in {"setnext", "read", "write"}, NEW word \in SUBSET (0..MaxId),
         Step(w, pc, word)
  PROVE  /\ work'[w].pc = pc /\ work'[w].id = work[w].id /\ work'[w].word = word
         /\ \A v \in Workers \ {w} : work'[v] = work[v]
         /\ work' \in [Workers -> WorkType]
         /\ \A v \in Workers : (Busy(v)' <=> Busy(v)) /\ work'[v].id = work[v].id
<1>1. work \in [Workers -> WorkType]
  BY DEF IdInv, Types
<1> DEFINE new == [pc |-> pc, id |-> work[w].id, word |-> word]
<1>2. work' = [work EXCEPT ![w] = new]
  BY <1>1 DEF Step
<1>3. /\ new \in WorkType
      /\ new.pc = pc /\ new.id = work[w].id /\ new.word = word
  BY <1>1 DEF WorkType
<1>4. work'[w] = new /\ \A v \in Workers \ {w} : work'[v] = work[v]
  BY <1>1, <1>2
<1>5. work' \in [Workers -> WorkType]
  BY <1>1, <1>2, <1>3
<1>6. \A v \in Workers : (Busy(v)' <=> Busy(v)) /\ work'[v].id = work[v].id
  BY <1>3, <1>4 DEF Busy
<1> QED
  BY <1>3, <1>4, <1>5, <1>6

\* What a step of a thread leaves alone.
LEMMA HeldSame ==
  ASSUME UNCHANGED <<dungeons, arenas>>
  PROVE  HeldIds' = HeldIds /\ \A i \in 1..MaxId : Holders(i)' = Holders(i)
  BY DEF HeldIds, Holders

\* _nextInstanceId goes back to the id that is being freed.
LEMMA SetNextKeeps ==
  ASSUME IdInv, NEW w \in Workers, SetNextInstanceId(w)
  PROVE  IdInv'
<1>0. MaxId \in Nat
  BY InstanceIdsAssumption
<1>1. /\ work[w].pc = "setnext" /\ Busy(w) /\ next' = work[w].id /\ Step(w, "read", {})
      /\ UNCHANGED <<main, toLoad, bits, size, capacity, dungeons, arenas, left, overlapped>>
  BY DEF SetNextInstanceId, Busy
<1>2. /\ work'[w].pc = "read" /\ work'[w].id = work[w].id /\ work'[w].word = {}
      /\ \A v \in Workers \ {w} : work'[v] = work[v]
      /\ work' \in [Workers -> WorkType]
      /\ \A v \in Workers : (Busy(v)' <=> Busy(v)) /\ work'[v].id = work[v].id
  BY <1>1, StepOf
<1>3. HeldIds' = HeldIds /\ \A i \in 1..MaxId : Holders(i)' = Holders(i)
  BY <1>1, HeldSame
<1>4. work[w].id \in 1..MaxId /\ work[w].id <= size
  BY <1>1 DEF IdInv, Freeing, Sizes
<1>5. Types'
  <2>1. \A v \in Workers : \A i \in work'[v].word : i < size
    BY <1>2 DEF IdInv, Types
  <2>2. next' \in 1..MaxId + 1
    BY <1>0, <1>1, <1>4
  <2> QED
    BY <1>1, <1>2, <2>1, <2>2 DEF IdInv, Types
<1>6. Freeing'
  BY <1>1, <1>2 DEF IdInv, Freeing, Busy
<1>7. Sizes'
  <2>1. next' <= size + 1
    BY <1>0, <1>1, <1>4 DEF IdInv, Types
  <2> QED
    BY <1>1, <1>2, <1>3, <2>1 DEF IdInv, Sizes
<1>8. Ascending' /\ Covered'
  BY <1>1, <1>2, <1>3 DEF IdInv, Ascending, Covered, SameUnit, Freeing
<1>9. Unique'
  BY <1>2, <1>3 DEF IdInv, Unique
<1>10. NextFree'
  <2> SUFFICES ASSUME work[w].id \in HeldIds, work[w].id % Chunk # 0 PROVE FALSE
    BY <1>1, <1>3 DEF NextFree
  <2>1. Holders(work[w].id) = 0
    BY <1>1, <1>4 DEF IdInv, Unique
  <2> QED
    BY <2>1 DEF HeldIds
<1>11. Exact'
  <2> SUFFICES ASSUME ~overlapped PROVE Exact'
    BY <1>1 DEF Exact
  <2>1. /\ \A v \in Workers : Busy(v) => v = w
        /\ \A i \in bits : i \in HeldIds \/ \E v \in Workers : Busy(v) /\ work[v].id = i
        /\ \A i \in 1..next - 1 :
             i \in HeldIds \/ \E v \in Workers : work[v].pc = "setnext" /\ work[v].id = i
        /\ work[w].id < next
    BY <1>1 DEF IdInv, Exact
  <2>n. next \in Nat
    BY <1>0 DEF IdInv, Types
  <2>2. ASSUME NEW i \in 1..next' - 1 PROVE i \in HeldIds'
    <3>1. i \in 1..next - 1 /\ i # work[w].id
      BY <1>1, <1>4, <2>n, <2>1
    <3>2. \A v \in Workers : work[v].pc = "setnext" => v = w
      BY <2>1 DEF Busy
    <3> QED
      BY <1>3, <2>1, <3>1, <3>2
  <2>3. \A v, u \in Workers : Busy(v)' /\ Busy(u)' => v = u
    BY <1>2, <2>1
  <2>4. \A i \in bits' : i \in HeldIds' \/ \E v \in Workers : Busy(v)' /\ work'[v].id = i
    BY <1>1, <1>2, <1>3, <2>1
  <2>5. \A v \in Workers : work'[v].pc \notin {"setnext", "write"}
    BY <1>2, <2>1 DEF Busy
  <2> QED
    BY <2>2, <2>3, <2>4, <2>5 DEF Exact
<1> QED
  BY <1>5, <1>6, <1>7, <1>8, <1>9, <1>10, <1>11 DEF IdInv

\* The storage unit is read.
LEMMA ReadKeeps ==
  ASSUME IdInv, NEW w \in Workers, ReadUnit(w)
  PROVE  IdInv'
<1>w. PICK word : word = bits \cap SameUnit(work[w].id)
  OBVIOUS
<1>1. /\ work[w].pc = "read" /\ Busy(w) /\ Step(w, "write", word)
      /\ UNCHANGED <<main, toLoad, next, bits, size, capacity, dungeons, arenas, left, overlapped>>
  BY <1>w DEF ReadUnit, Busy
<1>2. word \in SUBSET (0..MaxId)
  BY <1>w DEF SameUnit
<1>3. /\ work'[w].pc = "write" /\ work'[w].id = work[w].id /\ work'[w].word = word
      /\ \A v \in Workers \ {w} : work'[v] = work[v]
      /\ work' \in [Workers -> WorkType]
      /\ \A v \in Workers : (Busy(v)' <=> Busy(v)) /\ work'[v].id = work[v].id
  BY <1>1, <1>2, StepOf
<1>4. HeldIds' = HeldIds /\ \A i \in 1..MaxId : Holders(i)' = Holders(i)
  BY <1>1, HeldSame
<1>5. Types'
  BY <1>w, <1>1, <1>3 DEF IdInv, Types
<1>6. Freeing'
  BY <1>1, <1>3 DEF IdInv, Freeing, Busy
<1>7. Sizes'
  BY <1>1, <1>3, <1>4 DEF IdInv, Sizes
<1>8. Ascending' /\ NextFree'
  BY <1>1, <1>4 DEF IdInv, Ascending, NextFree
<1>9. Unique'
  BY <1>3, <1>4 DEF IdInv, Unique
<1>10. Covered'
  <2> SUFFICES ASSUME NEW i \in HeldIds, i % Chunk # 0
               PROVE  /\ i \in bits
                      /\ \A v \in Workers :
                           work'[v].pc = "write" /\ i \in SameUnit(work'[v].id) => i \in work'[v].word
    BY <1>1, <1>4 DEF Covered, SameUnit
  <2>1. i \in bits /\ \A v \in Workers :
           work[v].pc = "write" /\ i \in SameUnit(work[v].id) => i \in work[v].word
    BY DEF IdInv, Covered
  <2> QED
    BY <1>w, <1>3, <2>1
<1>11. Exact'
  <2> SUFFICES ASSUME ~overlapped PROVE Exact'
    BY <1>1 DEF Exact
  <2>1. /\ \A v \in Workers : Busy(v) => v = w
        /\ \A i \in bits : i \in HeldIds \/ \E v \in Workers : Busy(v) /\ work[v].id = i
        /\ \A i \in 1..next - 1 :
             i \in HeldIds \/ \E v \in Workers : work[v].pc = "setnext" /\ work[v].id = i
    BY <1>1 DEF IdInv, Exact
  <2>2. \A v \in Workers : work[v].pc # "setnext"
    BY <1>1, <2>1 DEF Busy
  <2>3. \A v, u \in Workers : Busy(v)' /\ Busy(u)' => v = u
    BY <1>3, <2>1
  <2>4. \A i \in bits' : i \in HeldIds' \/ \E v \in Workers : Busy(v)' /\ work'[v].id = i
    BY <1>1, <1>3, <1>4, <2>1
  <2>5. \A i \in 1..next' - 1 : i \in HeldIds'
    BY <1>1, <1>4, <2>1, <2>2
  <2>6. \A v \in Workers : /\ work'[v].pc # "setnext"
                           /\ work'[v].pc = "write" => v = w
    BY <1>3, <2>1, <2>2 DEF Busy
  <2>7. work'[w].word = bits' \cap SameUnit(work'[w].id)
    BY <1>w, <1>1, <1>3 DEF SameUnit
  <2> QED
    BY <2>3, <2>4, <2>5, <2>6, <2>7 DEF Exact, SameUnit
<1> QED
  BY <1>5, <1>6, <1>7, <1>8, <1>9, <1>10, <1>11 DEF IdInv

\* The storage unit is written back, with what it held when it was read.
LEMMA WriteKeeps ==
  ASSUME IdInv, NEW w \in Workers, WriteUnit(w)
  PROVE  IdInv'
<1>p. PICK id, unit, word : id = work[w].id /\ unit = SameUnit(work[w].id) /\ word = work[w].word
  OBVIOUS
<1>0. MaxId \in Nat
  BY InstanceIdsAssumption
<1>1. /\ work[w].pc = "write" /\ Busy(w)
      /\ bits' = (bits \ unit) \cup (word \ {id})
      /\ work' = [work EXCEPT ![w] = Idle]
      /\ UNCHANGED <<main, toLoad, next, size, capacity, dungeons, arenas, left, overlapped>>
  BY <1>p DEF WriteUnit, Busy, Cleared
<1>2. id \in 1..MaxId /\ word \subseteq 0..MaxId /\ id \in unit /\ \A i \in word : i < size
  <2>1. id \in 1..MaxId
    BY <1>p, <1>1 DEF IdInv, Freeing
  <2>2. work[w] \in WorkType
    BY DEF IdInv, Types
  <2> QED
    BY <1>0, <1>p, <2>1, <2>2 DEF IdInv, Types, SameUnit, WorkType
<1>3. HeldIds' = HeldIds /\ \A i \in 1..MaxId : Holders(i)' = Holders(i)
  BY <1>1, HeldSame
<1>4. /\ work'[w] = Idle /\ \A v \in Workers \ {w} : work'[v] = work[v]
      /\ ~Busy(w)' /\ \A v \in Workers \ {w} : Busy(v)' <=> Busy(v)
  BY <1>1 DEF IdInv, Types, Busy, Idle
<1>5. Types'
  <2>1. Idle \in WorkType
    BY <1>0 DEF Idle, WorkType
  <2>2. work' \in [Workers -> WorkType]
    BY <1>1, <2>1 DEF IdInv, Types
  <2>3. \A v \in Workers : \A i \in work'[v].word : i < size
    BY <1>4 DEF IdInv, Types, Idle
  <2>4. bits' \subseteq 0..MaxId /\ \A i \in bits' : i < size
    BY <1>1, <1>2 DEF IdInv, Types
  <2> QED
    BY <1>1, <2>2, <2>3, <2>4 DEF IdInv, Types
<1>6. Freeing'
  BY <1>1, <1>4 DEF IdInv, Freeing
<1>7. Sizes'
  BY <1>1, <1>3, <1>4 DEF IdInv, Sizes, Types, Idle
<1>8. Ascending' /\ NextFree'
  BY <1>1, <1>3 DEF IdInv, Ascending, NextFree
<1>9. Unique'
  BY <1>3, <1>4 DEF IdInv, Unique
<1>10. Covered'
  <2> SUFFICES ASSUME NEW i \in HeldIds, i % Chunk # 0
               PROVE  /\ i \in bits'
                      /\ \A v \in Workers :
                           work'[v].pc = "write" /\ i \in SameUnit(work'[v].id) => i \in work'[v].word
    BY <1>3 DEF Covered, SameUnit
  <2>1. i \in bits /\ \A v \in Workers :
           work[v].pc = "write" /\ i \in SameUnit(work[v].id) => i \in work[v].word
    BY DEF IdInv, Covered
  <2>2. i # id
    <3> SUFFICES ASSUME i = id PROVE FALSE
      OBVIOUS
    <3>1. Holders(id) = 0
      BY <1>p, <1>1, <1>2 DEF IdInv, Unique
    <3> QED
      BY <3>1 DEF HeldIds
  <2>3. i \in unit => i \in word
    BY <1>p, <1>1, <2>1
  <2>4. i \in bits'
    BY <1>1, <2>1, <2>2, <2>3
  <2>5. work'[w].pc # "write"
    BY <1>4 DEF Idle
  <2> QED
    BY <1>4, <2>1, <2>4, <2>5
<1>11. Exact'
  <2> SUFFICES ASSUME ~overlapped PROVE Exact'
    BY <1>1 DEF Exact
  <2>1. /\ \A v \in Workers : Busy(v) => v = w
        /\ \A i \in bits : i \in HeldIds \/ \E v \in Workers : Busy(v) /\ work[v].id = i
        /\ \A i \in 1..next - 1 :
             i \in HeldIds \/ \E v \in Workers : work[v].pc = "setnext" /\ work[v].id = i
        /\ word = bits \cap unit
    BY <1>p, <1>1 DEF IdInv, Exact
  <2>2. \A v \in Workers : work[v].pc # "setnext"
    BY <1>1, <2>1 DEF Busy
  <2>3. \A v \in Workers : ~Busy(v)' /\ work'[v].pc = "idle"
    BY <1>4, <2>1 DEF Busy
  <2>4. bits' = bits \ {id}
    BY <1>1, <1>2, <2>1
  <2>5. bits' \subseteq HeldIds'
    BY <1>p, <1>3, <2>1, <2>4
  <2>6. \A i \in 1..next' - 1 : i \in HeldIds'
    BY <1>1, <1>3, <2>1, <2>2
  <2> QED
    BY <2>3, <2>5, <2>6 DEF Exact
<1> QED
  BY <1>5, <1>6, <1>7, <1>8, <1>9, <1>10, <1>11 DEF IdInv

-----------------------------------------------------------------------------
(* Theorems *)

\* The size and the capacity that InitInstanceIds asks for.
LEMMA InitKeeps == Init => IdInv
<1> SUFFICES ASSUME Init PROVE IdInv
  OBVIOUS
<1>0. MaxId \in Nat /\ Unit \in Nat /\ Unit > 0 /\ toLoad \subseteq 1..MaxId
  BY InstanceIdsAssumption DEF Init
<1>1. size \in Nat /\ size % Chunk = 0 /\ \A i \in toLoad : i <= size
  <2>1. CASE toLoad = {}
    <3>1. 0 % Chunk = 0
      BY InstanceIdsAssumption
    <3> QED
      BY <2>1, <3>1 DEF Init
  <2>2. CASE toLoad # {}
    <3>1. toLoad \subseteq 0..MaxId
      BY <1>0
    <3>2. Max(toLoad) \in toLoad /\ \A i \in toLoad : i <= Max(toLoad)
      BY <1>0, <2>2, <3>1, MaxOf
    <3>3. PICK m \in toLoad : m = Max(toLoad) /\ \A i \in toLoad : i <= m
      BY <3>2
    <3>4. size = RoundUp(m)
      BY <2>2, <3>3 DEF Init
    <3>5. m \in Nat
      BY <1>0
    <3>6. RoundUp(m) \in Nat /\ RoundUp(m) >= m /\ RoundUp(m) % Chunk = 0
      BY <3>5, RoundUpOf, RoundUpMultiple
    <3> QED
      BY <1>0, <3>3, <3>4, <3>5, <3>6
  <2> QED
    BY <2>1, <2>2
<1>2. capacity \in Nat /\ capacity % Chunk = 0 /\ size <= capacity
  <2>1. size + Unit - 1 \in Nat
    BY <1>0, <1>1
  <2>2. PICK q \in Nat : q = (size + Unit - 1) \div Unit
    BY <1>0, <2>1
  <2>3. capacity = q * Unit
    BY <2>2 DEF Init
  <2>4. q * Unit \in Nat /\ (q * Unit) % Chunk = 0
    BY UnitsMultiple
  <2>5. CASE size = 0
    BY <2>3, <2>4, <2>5
  <2>6. CASE size > 0
    BY <1>1, <2>2, <2>3, <2>4, <2>6, WholeUnits
  <2> QED
    BY <1>1, <2>3, <2>4, <2>5, <2>6
<1>3. \A w \in Workers : work[w] = Idle /\ ~Busy(w) /\ work[w].pc = "idle" /\ work[w].word = {}
                         /\ work[w].id = 0
  BY DEF Init, Idle, Busy
<1>4. HeldIds = {} /\ \A i \in 1..MaxId : Holders(i) = 0
  BY DEF Init, HeldIds, Holders, Nobody
<1>5. Types
  <2>1. Idle \in WorkType
    BY <1>0 DEF Idle, WorkType
  <2>2. work \in [Workers -> WorkType]
    BY <2>1 DEF Init
  <2>3. next \in 1..MaxId + 1
    BY <1>0 DEF Init
  <2>4. Nobody \in [1..MaxId -> Nat]
    BY DEF Nobody
  <2> QED
    BY <1>0, <1>1, <1>2, <1>3, <2>2, <2>3, <2>4 DEF Init, Types
<1>6. Sizes
  <2>1. next <= size + 1
    BY <1>1 DEF Init
  <2>2. \A w \in Workers : work[w].id <= size
    BY <1>1, <1>3
  <2>3. \A i \in HeldIds \cup toLoad : i <= size
    BY <1>1, <1>4
  <2> QED
    BY <1>1, <1>2, <2>1, <2>2, <2>3 DEF Sizes
<1>7. Exact
  BY <1>3 DEF Init, Exact
<1>8. Freeing
  BY <1>3 DEF Freeing
<1> QED
  BY <1>3, <1>4, <1>5, <1>6, <1>7, <1>8 DEF IdInv, Ascending, Unique, Covered, NextFree

\* A step that touches neither the vector nor the ids.
LEMMA OtherKeeps ==
  ASSUME IdInv, left' \in [1..MaxId -> Nat], main' \in {"boot", "world", "maps"},
         main' = "boot" => main = "boot",
         main' # "maps" => \A w \in Workers : ~Busy(w),
         UNCHANGED <<toLoad, next, bits, size, capacity, work, dungeons, arenas, overlapped>>
  PROVE  IdInv'
<1>1. HeldIds' = HeldIds /\ \A i \in 1..MaxId : Holders(i)' = Holders(i)
  BY HeldSame
<1>2. Types'
  BY DEF IdInv, Types
<1>3. Freeing' /\ Sizes' /\ Ascending'
  BY <1>1 DEF IdInv, Freeing, Sizes, Ascending, Busy
<1>4. Unique'
  BY <1>1 DEF IdInv, Unique, Busy
<1>5. Covered' /\ NextFree'
  BY <1>1 DEF IdInv, Covered, NextFree, SameUnit
<1>6. Exact'
  BY <1>1 DEF IdInv, Exact, Busy, SameUnit
<1> QED
  BY <1>2, <1>3, <1>4, <1>5, <1>6 DEF IdInv

\* Every step keeps the invariant.
LEMMA IdStep == IdInv /\ [Next]_vars => IdInv'
<1> SUFFICES ASSUME IdInv, [Next]_vars PROVE IdInv'
  OBVIOUS
<1>0. left \in [1..MaxId -> Nat] /\ main \in {"boot", "world", "maps"}
  BY DEF IdInv, Types
<1>1. CASE RegisterInstanceId
  BY <1>1, RegisterKeeps
<1>2. CASE BootDone
  <2>1. \A w \in Workers : ~Busy(w)
    BY <1>2, NobodyFrees DEF BootDone
  <2> QED
    BY <1>0, <1>2, <2>1, OtherKeeps DEF BootDone
<1>3. CASE CreateNewBattleground
  BY <1>0, <1>3, GenerateKeeps DEF CreateNewBattleground
<1>4. ASSUME NEW found \in BOOLEAN, CreateInstanceForPlayer(found) PROVE IdInv'
  BY <1>4, CreateInstanceKeeps
<1>5. ASSUME NEW id \in 1..MaxId, NEW loaded \in BOOLEAN, ResetInstance(id, loaded)
      PROVE  IdInv'
  BY <1>5, ResetKeeps
<1>6. CASE UpdateMaps
  BY <1>0, <1>6, OtherKeeps DEF UpdateMaps
<1>7. CASE MapsUpdated
  <2>1. \A w \in Workers : ~Busy(w)
    BY <1>7 DEF MapsUpdated, Busy, Idle
  <2> QED
    BY <1>0, <1>7, <2>1, OtherKeeps DEF MapsUpdated
<1>8. ASSUME NEW id \in 1..MaxId, DestroyLeft(id) PROVE IdInv'
  <2>1. left' \in [1..MaxId -> Nat]
    BY <1>0, <1>8, Counting DEF DestroyLeft
  <2> QED
    BY <1>8, <2>1, OtherKeeps DEF DestroyLeft
<1>9. ASSUME NEW w \in Workers, NEW id \in 1..MaxId, FreeInstanceId(w, id) PROVE IdInv'
  BY <1>9, FreeKeeps
<1>10. ASSUME NEW w \in Workers, SetNextInstanceId(w) PROVE IdInv'
  BY <1>10, SetNextKeeps
<1>11. ASSUME NEW w \in Workers, ReadUnit(w) PROVE IdInv'
  BY <1>11, ReadKeeps
<1>12. ASSUME NEW w \in Workers, WriteUnit(w) PROVE IdInv'
  BY <1>12, WriteKeeps
<1>13. CASE UNCHANGED vars
  <2>1. main # "maps" => \A w \in Workers : ~Busy(w)
    BY NobodyFrees
  <2> QED
    BY <1>0, <1>13, <2>1, OtherKeeps DEF vars
<1> QED
  BY <1>1, <1>2, <1>3, <1>4, <1>5, <1>6, <1>7, <1>8, <1>9, <1>10, <1>11, <1>12, <1>13 DEF Next

\* The invariant holds whatever is saved, handed out, reset and freed.
THEOREM IdsInvariant == Spec => []IdInv
  BY InitKeeps, IdStep, PTL DEF Spec

\* GenerateInstanceId hands out no id that an instance holds, unless it is a
\* multiple of the chunk, and the lowest one as long as frees do not overlap:
\* the races of the map update threads never break the first, for any sizes.
THEOREM NextIsNotInUse == Spec => []NextIsAvailable
<1>1. IdInv => NextIsAvailable
  <2> SUFFICES ASSUME IdInv, main = "world"
               PROVE  /\ next \in HeldIds => next % Chunk = 0
                      /\ ~overlapped => 1..next - 1 \subseteq HeldIds
    BY DEF NextIsAvailable
  <2>1. \A w \in Workers : work[w].pc = "idle"
    BY NobodyFrees
  <2> QED
    BY <2>1 DEF IdInv, Exact, NextFree
<1> QED
  BY <1>1, IdsInvariant, PTL

\* No id that is held loses its bit, only multiples of the chunk never had one,
\* and frees that do not overlap leave no bit behind.
THEOREM BitsAreExact == Spec => []BitsExact
<1>1. IdInv => BitsExact
  <2> SUFFICES ASSUME IdInv, main = "world"
               PROVE  /\ \A id \in HeldIds \ bits : id % Chunk = 0
                      /\ ~overlapped => bits \subseteq HeldIds
    BY DEF BitsExact
  <2>1. \A w \in Workers : ~Busy(w)
    BY NobodyFrees
  <2> QED
    BY <2>1 DEF IdInv, Exact, Covered
<1> QED
  BY <1>1, IdsInvariant, PTL

\* Two instances that hold an id, in any state, have the same one only if it is a
\* multiple of the chunk.
THEOREM IdsAreUnique == Spec => []IdsUnique
<1>1. IdInv => IdsUnique
  <2> SUFFICES ASSUME IdInv, NEW id \in 1..MaxId, Holders(id) > 1, id % Chunk # 0 PROVE FALSE
    BY DEF IdsUnique
  <2>1. Holders(id) <= 1 /\ Holders(id) \in Nat
    BY DEF IdInv, Unique, Types, Holders
  <2> QED
    BY <2>1
<1> QED
  BY <1>1, IdsInvariant, PTL

=============================================================================
