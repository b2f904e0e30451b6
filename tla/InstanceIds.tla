---------------------------- MODULE InstanceIds -----------------------------
(***************************************************************************)
(* The allocator of instance ids in MapManager: a vector<bool> of used ids *)
(* and _nextInstanceId, which GenerateInstanceId returns without looking   *)
(* at its bit.  The world thread loads the ids of saved instances, hands   *)
(* out ids and frees those of reset dungeons, whose maps may stay loaded;  *)
(* the map update threads free those of battlegrounds, without a lock,     *)
(* while the world thread waits for them (the barrier of module            *)
(* MapUpdater).                                                            *)
(***************************************************************************)
EXTENDS Naturals, FiniteSets, FiniteSetsExt, Functions

CONSTANTS
  Workers,   \* map update threads
  Chunk,     \* 32, the multiple to which the vector is sized
  Unit,      \* bits in one storage unit of vector<bool>, a multiple of Chunk
  MaxId,     \* bound on the ids handed out
  MaxInstances, \* bound on the instances that exist at once
  Boots      \* sets of saved instances the server may start with

ASSUME InstanceIdsAssumption ==
  /\ IsFiniteSet(Workers)
  /\ Chunk \in Nat \ {0} /\ Unit \in Nat \ {0} /\ Unit % Chunk = 0
  /\ MaxId \in Nat /\ MaxInstances \in Nat
  /\ Boots \subseteq SUBSET (1..MaxId) /\ Boots # {}

VARIABLES
  main,      \* the world thread: "boot", "world", or "maps" while it waits
  toLoad,    \* rows of table instance that LoadResetTimes has not reached
  next,      \* _nextInstanceId
  bits,      \* the indices of _instanceIds that are true
  size,      \* _instanceIds.size()
  capacity,  \* _instanceIds.capacity()
  work,      \* per worker: where it is in FreeInstanceId
  dungeons,  \* per id: dungeons to which it was given, and not freed since
  arenas,    \* per id: battlegrounds and arenas that have it
  left,      \* per id: loaded maps of dungeons that were reset, their id freed
  overlapped \* history: two threads were in FreeInstanceId at once

vars == <<main, toLoad, next, bits, size, capacity, work, dungeons, arenas, left, overlapped>>

Idle == [pc |-> "idle", id |-> 0, word |-> {}]

TypeOK ==
  /\ main \in {"boot", "world", "maps"}
  /\ toLoad \in SUBSET (1..MaxId)
  /\ next \in 1..MaxId + 1
  /\ size \in Nat /\ capacity \in Nat /\ size <= capacity
  /\ \A i \in bits : i < size
  /\ work \in [Workers -> [pc : {"idle", "setnext", "read", "write"},
                           id : 0..MaxId, word : SUBSET (0..MaxId)]]
  /\ dungeons \in [1..MaxId -> Nat] /\ arenas \in [1..MaxId -> Nat]
  /\ left \in [1..MaxId -> Nat]
  /\ overlapped \in BOOLEAN

\* The instances that hold an id: it was handed out, or read from the table, and
\* not freed.
Holders(id) == dungeons[id] + arenas[id]

Population == SumFunction(dungeons) + SumFunction(arenas) + SumFunction(left)

HeldIds == {id \in 1..MaxId : Holders(id) > 0}

Nobody == [id \in 1..MaxId |-> 0]
Plus(f, id) == [f EXCEPT ![id] = @ + 1]
Minus(f, id) == [f EXCEPT ![id] = @ - 1]

\* Mutant: sized to hold exactly id bits.
RoundUp_Exact(id) == id

\* (id / 32) * 32 + (id % 32 > 0 ? 32 : 0)
RoundUp(id) == (id \div Chunk) * Chunk + (IF id % Chunk > 0 THEN Chunk ELSE 0)

\* What vector<bool>::resize(n) leaves as capacity: growing at least doubles the
\* size, in whole storage units.
CapacityFor(n) ==
  IF n <= capacity THEN capacity
  ELSE LET len == IF 2 * size > n THEN 2 * size ELSE n
       IN  ((len + Unit - 1) \div Unit) * Unit

\* InitInstanceIds, with Size = RoundUp(MAX(id)).
Init ==
  /\ main = "boot"
  /\ toLoad \in Boots
  /\ next = 1
  /\ bits = {}
  /\ size = IF toLoad = {} THEN 0 ELSE RoundUp(Max(toLoad))
  /\ capacity = ((size + Unit - 1) \div Unit) * Unit
  /\ work = [w \in Workers |-> Idle]
  /\ dungeons = Nobody /\ arenas = Nobody /\ left = Nobody
  /\ overlapped = FALSE

-----------------------------------------------------------------------------
(* The world thread *)

\* LoadResetTimes for the next row, in ascending order: _nextInstanceId moves
\* past the id, then RegisterInstanceId.  A write past the end of the vector is
\* lost, because a later resize sets the new elements to false.
RegisterInstanceId ==
  /\ main = "boot"
  /\ toLoad # {}
  /\ LET id == Min(toLoad)
     IN  /\ toLoad' = toLoad \ {id}
         /\ next' = IF next = id THEN id + 1 ELSE next
         /\ bits' = IF id < size THEN bits \cup {id} ELSE bits
         /\ dungeons' = Plus(dungeons, id)
  /\ UNCHANGED <<main, size, capacity, work, arenas, left, overlapped>>

BootDone ==
  /\ main = "boot"
  /\ toLoad = {}
  /\ main' = "world"
  /\ UNCHANGED <<toLoad, next, bits, size, capacity, work, dungeons, arenas, left, overlapped>>

\* Mutant: the scan starts at the id that is being handed out.
NextAfter_Same(id) == Min({i \in id..MaxId + 1 : i >= size \/ i \notin bits})

\* The scan for the lowest available id above the one handed out.
NextAfter(id) == Min({i \in id + 1..MaxId + 1 : i >= size \/ i \notin bits})

\* GenerateInstanceId: the vector grows to its capacity, or to RoundUp of the id,
\* and a write past its end is lost.
GenerateInstanceId ==
  /\ main = "world"
  /\ next <= MaxId
  /\ next' = NextAfter(next)
  /\ size' = IF next < size THEN size
             ELSE IF size < capacity THEN capacity ELSE RoundUp(next)
  /\ capacity' = CapacityFor(size')
  /\ bits' = IF next < size' THEN bits \cup {next} ELSE bits
  /\ UNCHANGED <<main, toLoad, work, overlapped>>

CreateNewBattleground ==
  /\ Population < MaxInstances
  /\ GenerateInstanceId
  /\ arenas' = Plus(arenas, next)
  /\ UNCHANGED <<dungeons, left>>

\* A dungeon gets a map of its own, or the one that is still loaded under the id
\* if that is of the same dungeon.
CreateInstanceForPlayer(found) ==
  /\ GenerateInstanceId
  /\ IF found THEN left[next] > 0 ELSE Population < MaxInstances
  /\ dungeons' = Plus(dungeons, next)
  /\ left' = IF found THEN Minus(left, next) ELSE left
  /\ UNCHANGED arenas

\* InstanceSaveManager::_ResetInstance of a dungeon: FreeInstanceId, whether its
\* map is loaded or not.
ResetInstance(id, loaded) ==
  /\ main = "world"
  /\ dungeons[id] > 0
  /\ next' = IF id < next THEN id ELSE next
  /\ bits' = bits \ {id}
  /\ dungeons' = Minus(dungeons, id)
  /\ left' = IF loaded THEN Plus(left, id) ELSE left
  /\ UNCHANGED <<main, toLoad, size, capacity, work, arenas, overlapped>>

\* MapManager::Update schedules the maps, and later returns from wait().
UpdateMaps ==
  /\ main = "world"
  /\ main' = "maps"
  /\ UNCHANGED <<toLoad, next, bits, size, capacity, work, dungeons, arenas, left, overlapped>>

MapsUpdated ==
  /\ main = "maps"
  /\ \A w \in Workers : work[w] = Idle
  /\ main' = "world"
  /\ UNCHANGED <<toLoad, next, bits, size, capacity, work, dungeons, arenas, left, overlapped>>

-----------------------------------------------------------------------------
(* The map update threads: FreeInstanceId in MapInstanced::DestroyInstance *)

Step(w, pc, word) == work' = [work EXCEPT ![w] = [pc |-> pc, id |-> @.id, word |-> word]]

\* DestroyInstance of a battleground, as far as "instanceId < _nextInstanceId" in
\* FreeInstanceId.  The map is empty and unloaded by now, and its deletion
\* follows before the world thread goes on.
FreeInstanceId(w, id) ==
  /\ main = "maps"
  /\ work[w] = Idle
  /\ arenas[id] > 0
  /\ work' = [work EXCEPT ![w] = [pc |-> IF id < next THEN "setnext" ELSE "read",
                                  id |-> id, word |-> {}]]
  /\ arenas' = Minus(arenas, id)
  /\ overlapped' = (overlapped \/ \E v \in Workers : work[v] # Idle)
  /\ UNCHANGED <<main, toLoad, next, bits, size, capacity, dungeons, left>>

\* DestroyInstance of a dungeon that was reset frees nothing again.
DestroyLeft(id) ==
  /\ main = "maps"
  /\ left[id] > 0
  /\ left' = Minus(left, id)
  /\ UNCHANGED <<main, toLoad, next, bits, size, capacity, work, dungeons, arenas, overlapped>>

SetNextInstanceId(w) ==
  /\ work[w].pc = "setnext"
  /\ next' = work[w].id
  /\ Step(w, "read", {})
  /\ UNCHANGED <<main, toLoad, bits, size, capacity, dungeons, arenas, left, overlapped>>

\* The bits that share a storage unit with id.
SameUnit(id) == {i \in 0..MaxId : i \div Unit = id \div Unit}

\* "_instanceIds[instanceId] = false" reads a storage unit and writes it back.
ReadUnit(w) ==
  /\ work[w].pc = "read"
  /\ Step(w, "write", bits \cap SameUnit(work[w].id))
  /\ UNCHANGED <<main, toLoad, next, bits, size, capacity, dungeons, arenas, left, overlapped>>

Cleared(w) == work[w].word \ {work[w].id}

WriteUnit(w) ==
  /\ work[w].pc = "write"
  /\ bits' = (bits \ SameUnit(work[w].id)) \cup Cleared(w)
  /\ work' = [work EXCEPT ![w] = Idle]
  /\ UNCHANGED <<main, toLoad, next, size, capacity, dungeons, arenas, left, overlapped>>

Next ==
  \/ RegisterInstanceId
  \/ BootDone
  \/ CreateNewBattleground
  \/ \E found \in BOOLEAN : CreateInstanceForPlayer(found)
  \/ \E id \in 1..MaxId, loaded \in BOOLEAN : ResetInstance(id, loaded)
  \/ UpdateMaps
  \/ MapsUpdated
  \/ \E id \in 1..MaxId : DestroyLeft(id)
  \/ \E w \in Workers :
       \/ \E id \in 1..MaxId : FreeInstanceId(w, id)
       \/ SetNextInstanceId(w)
       \/ ReadUnit(w)
       \/ WriteUnit(w)

Spec == Init /\ [][Next]_vars

-----------------------------------------------------------------------------
(* Properties *)

\* The id GenerateInstanceId is about to return is held by no instance (a map that
\* is left loaded after its reset holds none), although its bit is not looked at,
\* except a multiple of the chunk, whose bit the vector may have been too short for
\* (MapManager.cpp:434); and it is the lowest such id, as the comment of the scan
\* says, unless two threads were in FreeInstanceId at once.
NextIsAvailable ==
  main = "world" =>
    /\ next \in HeldIds => next % Chunk = 0
    /\ ~overlapped => 1..next - 1 \subseteq HeldIds

\* Every id that is held has its bit set, so that the scan of a later
\* GenerateInstanceId steps over it, except a multiple of the chunk; and unless
\* two frees overlapped no freed id keeps its bit, which would lose it for as long
\* as the server runs.
BitsExact ==
  main = "world" =>
    /\ \A id \in HeldIds \ bits : id % Chunk = 0
    /\ ~overlapped => bits \subseteq HeldIds

\* Two instances hold the same id only if it is a multiple of the chunk: the
\* races of the map update threads and the maps that stay loaded after their
\* reset add no other way.
IdsUnique == \A id \in 1..MaxId : Holders(id) > 1 => id % Chunk = 0

\* What one would like and the code does not keep: the next id is that of no
\* instance, loaded or held.
NextIsUnused == main = "world" => next \notin HeldIds \cup {id \in 1..MaxId : left[id] > 0}

=============================================================================
