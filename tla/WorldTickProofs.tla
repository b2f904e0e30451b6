--------------------------- MODULE WorldTickProofs ---------------------------
(***************************************************************************)
(* Proofs about the two state machines of the world's tick: MapUpdater, for *)
(* any number of maps, instances and worker threads and any capacity of the *)
(* activation queue, and SessionPackets, for any kinds and any number of    *)
(* packets.  They share no state; what is proved of one uses nothing of the *)
(* other.                                                                   *)
(***************************************************************************)
EXTENDS MapUpdater, SessionPackets, FiniteSetTheorems, TLAPS

-----------------------------------------------------------------------------
(* The map update pool *)

\* The type invariant of the map tick is preserved by every step of the world
\* thread and of the workers.
THEOREM TypeCorrect == Spec => []TypeOK
<1>1. Init => TypeOK
  BY DEF Init, TypeOK, MainStates, Idle, Exited
<1>2. TypeOK /\ [Next]_vars => TypeOK'
  <2> SUFFICES ASSUME TypeOK, [Next]_vars PROVE TypeOK'
    OBVIOUS
  <2> USE DEF TypeOK, MainStates
  <2>1. ASSUME NEW i \in Instances, CreateInstance(i) PROVE TypeOK'
    BY <2>1 DEF CreateInstance
  <2>2. CASE StartTick
    BY <2>2 DEF StartTick
  <2>3. ASSUME NEW b \in BaseMaps, ScheduleBase(b) PROVE TypeOK'
    BY <2>3 DEF ScheduleBase, schedule_update, Maps
  <2>4. ASSUME NEW b \in BaseMaps, UpdateInline(b) PROVE TypeOK'
    BY <2>4 DEF UpdateInline, InstancesOf, Maps
  <2>5. CASE wait
    BY <2>5 DEF wait
  <2>6. CASE DelayedUpdate
    BY <2>6 DEF DelayedUpdate
  <2>7. CASE UnloadAll
    BY <2>7 DEF UnloadAll
  <2>8. CASE deactivate
    BY <2>8 DEF deactivate
  <2>9. CASE JoinThreads
    BY <2>9 DEF JoinThreads
  <2>10. ASSUME NEW w \in Workers, Dequeue(w) PROVE TypeOK'
    BY <2>10 DEF Dequeue, InstancesOf, Job
  <2>11. ASSUME NEW w \in Workers, ExitThread(w) PROVE TypeOK'
    BY <2>11 DEF ExitThread
  <2>12. ASSUME NEW w \in Workers, NEW i \in Instances, VisitInstance(w, i)
         PROVE  TypeOK'
    <3> DEFINE Jobs == [pc : {"update"}, map : Maps, left : SUBSET Instances]
    <3>1. work[w] \in Jobs
      BY <2>12 DEF VisitInstance, Idle, Exited
    <3>2. Job(work[w].map, work[w].left \ {i}) \in Jobs
      BY <3>1 DEF Job
    <3>3. work' \in [Workers -> {Idle, Exited} \cup Jobs]
      BY <2>12, <3>2 DEF VisitInstance
    <3>4. /\ queue \in Seq(Maps) /\ pending \in Nat /\ live \in SUBSET Instances
          /\ i \in Maps
      BY DEF Maps
    <3>5. \/ queue' = Append(queue, i) /\ pending' = pending + 1
          \/ UNCHANGED <<queue, pending>>
      BY <2>12 DEF VisitInstance, schedule_update
    <3>6. queue' \in Seq(Maps) /\ pending' \in Nat
      <4> HIDE DEF TypeOK, MainStates, Maps
      <4> QED BY <3>4, <3>5
    <3>7. live' \in SUBSET Instances
      BY <2>12, <3>4 DEF VisitInstance
    <3> QED
      BY <2>12, <3>3, <3>6, <3>7 DEF VisitInstance
  <2>13. ASSUME NEW w \in Workers, update_finished(w) PROVE TypeOK'
    BY <2>13 DEF update_finished, Idle, Exited
  <2>14. CASE UNCHANGED vars
    BY <2>14 DEF vars
  <2> QED
    BY <2>1, <2>2, <2>3, <2>4, <2>5, <2>6, <2>7, <2>8, <2>9, <2>10, <2>11,
       <2>12, <2>13, <2>14 DEF Next, Tick, Worker
<1> QED
  BY <1>1, <1>2, PTL DEF Spec

-----------------------------------------------------------------------------

\* BarrierHolds is not inductive: it says nothing about the states in which
\* the world thread schedules or waits.  The strengthening counts.
BarrierInv ==
  /\ TypeOK
  /\ PendingExact
  /\ main \notin {"scheduling", "waiting", "woken"} => pending = 0
  /\ ~activated => pending = 0

\* The set of busy workers is finite, so its cardinality is a number, and it
\* is zero only when no worker is busy.
LEMMA BusyFinite ==
  ASSUME TypeOK
  PROVE  /\ IsFiniteSet(Busy) /\ Cardinality(Busy) \in Nat
         /\ Cardinality(Busy) = 0 <=> Busy = {}
<1>1. IsFiniteSet(Busy)
  BY MapUpdaterAssumption, FS_Subset DEF Busy
<1> QED
  BY <1>1, FS_CardinalityType, FS_EmptySet

\* While a worker executes a request the count is positive and the world
\* thread is inside the scheduling and waiting part of its tick.
LEMMA BusyMeansPending ==
  ASSUME BarrierInv, NEW w \in Workers, work[w].pc = "update"
  PROVE  /\ pending > 0 /\ activated
         /\ main \in {"scheduling", "waiting", "woken"}
<1>1. Busy # {} /\ TypeOK /\ PendingExact
  BY DEF Busy, BarrierInv
<1>2. Cardinality(Busy) \in Nat \ {0}
  BY <1>1, BusyFinite
<1>3. Len(queue) \in Nat /\ pending \in Nat
  BY <1>1 DEF TypeOK
<1>4. pending > 0
  BY <1>1, <1>2, <1>3 DEF PendingExact
<1> QED
  BY <1>4 DEF BarrierInv, TypeOK

\* pending_requests is exact in every step: a dequeue moves a request from
\* the queue to a worker, update_finished takes one off both sides.
LEMMA PendingPreserved ==
  ASSUME BarrierInv, [Next]_vars PROVE PendingExact'
<1> USE DEF PendingExact
<1>0. TypeOK /\ PendingExact /\ Len(queue) \in Nat /\ pending \in Nat
  BY DEF BarrierInv, TypeOK
<1>1. IsFiniteSet(Busy) /\ Cardinality(Busy) \in Nat
  BY <1>0, BusyFinite
<1>2. ASSUME UNCHANGED <<queue, pending, work>> PROVE PendingExact'
  BY <1>0, <1>2 DEF Busy
<1>3. ASSUME NEW m \in Maps, schedule_update(m), Busy' = Busy PROVE PendingExact'
  <2>1. queue \in Seq(Maps)
    BY <1>0 DEF TypeOK
  <2> QED
    BY <1>0, <1>1, <1>3, <2>1 DEF schedule_update
<1>4. ASSUME NEW b \in BaseMaps, ScheduleBase(b) PROVE PendingExact'
  BY <1>3, <1>4 DEF ScheduleBase, Busy, Maps
<1>5. ASSUME NEW w \in Workers, Dequeue(w) PROVE PendingExact'
  <2>1. w \notin Busy
    BY <1>5 DEF Dequeue, Busy, Idle
  <2>2. Busy' = Busy \cup {w}
    BY <1>0, <1>5 DEF Dequeue, Busy, Job, TypeOK
  <2>3. Cardinality(Busy') = Cardinality(Busy) + 1
    BY <1>1, <2>1, <2>2, FS_AddElement
  <2>4. Len(queue') = Len(queue) - 1
    BY <1>0, <1>5 DEF Dequeue, TypeOK
  <2>5. pending' = pending
    BY <1>5 DEF Dequeue
  <2> QED
    BY <1>0, <1>1, <2>3, <2>4, <2>5
<1>6. ASSUME NEW w \in Workers, ExitThread(w) PROVE PendingExact'
  <2>1. Busy' = Busy
    BY <1>0, <1>6 DEF ExitThread, Busy, Idle, Exited, TypeOK
  <2> QED
    BY <1>0, <1>6, <2>1 DEF ExitThread
<1>7. ASSUME NEW w \in Workers, NEW i \in Instances, VisitInstance(w, i)
      PROVE  PendingExact'
  <2>1. Busy' = Busy
    BY <1>0, <1>7 DEF VisitInstance, Busy, Job, TypeOK
  <2>2. CASE schedule_update(i)
    BY <1>3, <2>1, <2>2 DEF Maps
  <2>3. CASE UNCHANGED <<queue, pending>>
    BY <1>0, <2>1, <2>3
  <2> QED
    BY <1>7, <2>2, <2>3 DEF VisitInstance
<1>8. ASSUME NEW w \in Workers, update_finished(w) PROVE PendingExact'
  <2>1. w \in Busy
    BY <1>8 DEF update_finished, Busy
  <2>2. Busy' = Busy \ {w}
    BY <1>0, <1>8 DEF update_finished, Busy, Idle, TypeOK
  <2>3. Cardinality(Busy') = Cardinality(Busy) - 1
    BY <1>1, <2>1, <2>2, FS_RemoveElement
  <2>4. pending > 0
    BY <1>8, BusyMeansPending DEF update_finished
  <2>5. pending' = pending - 1 /\ queue' = queue
    BY <1>0, <1>8, <2>4 DEF update_finished
  <2> QED
    BY <1>0, <1>1, <2>3, <2>5
<1> QED
  BY <1>2, <1>4, <1>5, <1>6, <1>7, <1>8
     DEF Next, Tick, Worker, CreateInstance, StartTick, UpdateInline, wait,
         DelayedUpdate, UnloadAll, deactivate, JoinThreads, vars

\* Outside the scheduling part of the tick nothing is pending: the world
\* thread leaves it only through the loop condition of MapUpdater::wait, and
\* no step outside it adds a request.
LEMMA QuietPreserved ==
  ASSUME BarrierInv, [Next]_vars
  PROVE  /\ main' \notin {"scheduling", "waiting", "woken"} => pending' = 0
         /\ ~activated' => pending' = 0
<1> USE DEF BarrierInv, TypeOK
<1>1. ASSUME NEW w \in Workers, update_finished(w)
      PROVE  main' \in {"scheduling", "waiting", "woken"} /\ activated'
  BY <1>1, BusyMeansPending DEF update_finished
<1>2. ASSUME NEW w \in Workers, NEW i \in Instances, VisitInstance(w, i)
      PROVE  main' \in {"scheduling", "waiting", "woken"} /\ activated'
  BY <1>2, BusyMeansPending DEF VisitInstance
<1>3. ASSUME NEW w \in Workers, Dequeue(w) \/ ExitThread(w)
      PROVE  UNCHANGED <<main, activated, pending>>
  BY <1>3 DEF Dequeue, ExitThread
<1>4. ASSUME NEW b \in BaseMaps, ScheduleBase(b)
      PROVE  main' = "scheduling" /\ activated'
  BY <1>4 DEF ScheduleBase
<1>5. ASSUME NEW b \in BaseMaps, UpdateInline(b)
      PROVE  UNCHANGED <<main, activated, pending>>
  BY <1>5 DEF UpdateInline
<1>6. CASE wait
  BY <1>6 DEF wait
<1>7. CASE \/ \E i \in Instances : CreateInstance(i)
           \/ StartTick \/ DelayedUpdate \/ UnloadAll \/ deactivate
           \/ JoinThreads \/ UNCHANGED vars
  BY <1>7 DEF CreateInstance, StartTick, DelayedUpdate, UnloadAll, deactivate,
              JoinThreads, vars
<1> QED
  BY <1>1, <1>2, <1>3, <1>4, <1>5, <1>6, <1>7 DEF Next, Tick, Worker

\* The strengthened invariant holds in every reachable state.
THEOREM BarrierInvariant == Spec => []BarrierInv
<1>1. Init => BarrierInv
  <2> SUFFICES ASSUME Init PROVE BarrierInv
    OBVIOUS
  <2>1. TypeOK
    BY DEF Init, TypeOK, MainStates, Idle, Exited
  <2>2. Busy = {}
    BY DEF Init, Busy, Idle, Exited
  <2>3. Cardinality(Busy) = 0
    BY <2>1, <2>2, BusyFinite
  <2> QED
    BY <2>1, <2>3 DEF Init, BarrierInv, PendingExact
<1>2. BarrierInv /\ TypeOK' /\ [Next]_vars => BarrierInv'
  BY PendingPreserved, QuietPreserved DEF BarrierInv
<1> QED
  BY <1>1, <1>2, TypeCorrect, PTL DEF Spec

\* pending_requests always equals the requests queued or being executed, for
\* any number of maps and threads.
THEOREM PendingIsExact == Spec => []PendingExact
<1>1. BarrierInv => PendingExact
  BY DEF BarrierInv
<1> QED
  BY <1>1, BarrierInvariant, PTL

\* The barrier of MapManager::Update: whenever the world thread is past
\* MapUpdater::wait, no map update is queued or running, for any number of
\* maps and threads.
THEOREM BarrierIsSafe == Spec => []BarrierHolds
<1>1. BarrierInv => BarrierHolds
  <2> SUFFICES ASSUME BarrierInv, main \notin {"scheduling", "waiting", "woken"}
               PROVE  queue = <<>> /\ Busy = {}
    BY DEF BarrierHolds
  <2>1. Cardinality(Busy) \in Nat /\ Len(queue) \in Nat
    BY BusyFinite DEF BarrierInv, TypeOK
  <2>2. Len(queue) = 0 /\ Cardinality(Busy) = 0
    BY <2>1 DEF BarrierInv, PendingExact
  <2> QED
    BY <2>2, BusyFinite DEF BarrierInv, TypeOK
<1> QED
  BY <1>1, BarrierInvariant, PTL

-----------------------------------------------------------------------------
(* Who updates which map, and how often *)


\* No request of this tick has been made for m.
Fresh(m) == m \notin Requested \cup Updating \cup updated

Distinct == \A i, j \in DOMAIN queue : queue[i] = queue[j] => i = j

\* A map is queued and updated once because it is requested once: a base map
\* when the loop over i_maps reaches it, an instance when the loop of its base
\* map does.  Until then it is fresh, and the instances that a worker has still
\* to visit are those of its own map.
TickInv ==
  /\ NoConcurrentUpdate
  /\ NoUpdateOfDeletedMap
  /\ (Requested \cup Updating) \cap updated = {}
  /\ \A b \in toVisit : Fresh(b)
  /\ \A w \in Busy : \A i \in work[w].left :
       i \in live /\ BaseOf[i] = work[w].map /\ Fresh(i)
  /\ \A i \in Instances : Fresh(i) \/ BaseOf[i] \notin toVisit \cup Requested

\* schedule_update adds at most its map to the queue.
LEMMA Scheduled ==
  ASSUME TypeOK, Distinct, NEW m \in Maps, m \notin Requested, schedule_update(m)
  PROVE  Distinct' /\ Requested' \subseteq Requested \cup {m}
<1>1. queue \in Seq(Maps)
  BY DEF TypeOK
<1>2. CASE queue' = queue
  BY <1>2 DEF Distinct, Requested
<1>3. CASE queue' = Append(queue, m)
  <2>1. /\ DOMAIN queue = 1..Len(queue) /\ DOMAIN queue' = 1..(Len(queue) + 1)
        /\ Len(queue) \in Nat
        /\ \A i \in 1..Len(queue) : queue'[i] = queue[i]
        /\ queue'[Len(queue) + 1] = m
    BY <1>1, <1>3
  <2>2. \A i \in DOMAIN queue : queue[i] # m
    BY DEF Requested
  <2> QED
    BY <2>1, <2>2 DEF Distinct, Requested
<1> QED
  BY <1>2, <1>3 DEF schedule_update

\* A dequeue takes its map out of the queue.
LEMMA Taken ==
  ASSUME TypeOK, Distinct, queue # <<>>, queue' = Tail(queue)
  PROVE  /\ Distinct' /\ Head(queue) \in Requested /\ Head(queue) \in Maps
         /\ Requested' = Requested \ {Head(queue)}
<1>1. queue \in Seq(Maps)
  BY DEF TypeOK
<1>2. /\ DOMAIN queue = 1..Len(queue) /\ Len(queue) \in Nat \ {0}
      /\ DOMAIN queue' = 1..(Len(queue) - 1)
      /\ \A i \in 1..(Len(queue) - 1) : queue'[i] = queue[i + 1]
      /\ Head(queue) = queue[1] /\ Head(queue) \in Maps
  BY <1>1
<1>3. Distinct'
  BY <1>2 DEF Distinct
<1>4. Requested' \subseteq Requested \ {Head(queue)}
  BY <1>2 DEF Distinct, Requested
<1>5. Requested \ {Head(queue)} \subseteq Requested'
  <2> SUFFICES ASSUME NEW k \in 1..Len(queue), queue[k] # Head(queue)
               PROVE  queue[k] \in Requested'
    BY <1>2 DEF Requested
  <2>1. k - 1 \in DOMAIN queue' /\ queue'[k - 1] = queue[k]
    BY <1>2
  <2> QED
    BY <2>1 DEF Requested
<1>6. Head(queue) \in Requested
  BY <1>2 DEF Requested
<1> QED
  BY <1>2, <1>3, <1>4, <1>5, <1>6

\* Nothing is queued or updated while the world thread is past the barrier, or
\* runs without worker threads.
LEMMA Quiet ==
  ASSUME BarrierInv, main \notin {"scheduling", "waiting", "woken"} \/ ~activated
  PROVE  queue = <<>> /\ Busy = {}
<1>1. Cardinality(Busy) \in Nat /\ Len(queue) \in Nat
  BY BusyFinite DEF BarrierInv, TypeOK
<1>2. Len(queue) = 0 /\ Cardinality(Busy) = 0
  BY <1>1 DEF BarrierInv, PendingExact
<1> QED
  BY <1>2, BusyFinite DEF BarrierInv, TypeOK

\* After a step that leaves no request at all only the freshness of toVisit, and
\* of the instances of a map in toVisit, is left to show.
LEMMA QuietStep ==
  ASSUME queue' = <<>>, Busy' = {}, toVisit' \cap updated' = {},
         \A i \in Instances : i \in updated' => BaseOf[i] \notin toVisit'
  PROVE  TickInv'
<1>1. Requested' = {} /\ Updating' = {}
  BY DEF Requested, Updating
<1>2. DOMAIN queue' = {}
  OBVIOUS
<1> QED
  BY <1>1, <1>2 DEF TickInv, NoConcurrentUpdate, NoUpdateOfDeletedMap, Fresh

\* Every step keeps the invariant.
LEMMA TickInvPreserved ==
  ASSUME BarrierInv, TickInv, [Next]_vars
  PROVE  TickInv'
<1>0. TypeOK /\ Distinct /\ BaseOf \in [Instances -> BaseMaps]
      /\ BaseMaps \cap Instances = {}
  BY MapUpdaterAssumption DEF BarrierInv, TickInv, NoConcurrentUpdate, Distinct
<1>1. ASSUME NEW i \in Instances, CreateInstance(i) PROVE TickInv'
  <2>1. queue = <<>> /\ Busy = {}
    BY <1>1, Quiet DEF CreateInstance
  <2> QED
    BY <1>0, <1>1, <2>1, QuietStep DEF CreateInstance, Busy, TickInv, Fresh
<1>2. CASE StartTick
  <2>1. queue = <<>> /\ Busy = {}
    BY <1>2, Quiet DEF StartTick
  <2> QED
    BY <1>2, <2>1, QuietStep DEF StartTick, Busy
<1>3. ASSUME NEW b \in BaseMaps, ScheduleBase(b) PROVE TickInv'
  <2>1. b \in toVisit /\ Fresh(b) /\ b \in Maps /\ b \notin Instances
    BY <1>0, <1>3 DEF ScheduleBase, TickInv, Maps
  <2>2. Distinct' /\ Requested' \subseteq Requested \cup {b}
    BY <1>0, <1>3, <2>1, Scheduled DEF ScheduleBase, Fresh
  <2>3. Busy' = Busy /\ Updating' = Updating
    BY <1>3 DEF ScheduleBase, Busy, Updating
  <2>4. /\ toVisit' = toVisit \ {b}
        /\ UNCHANGED <<live, work, updated>>
    BY <1>3 DEF ScheduleBase
  <2>5. NoConcurrentUpdate' /\ NoUpdateOfDeletedMap'
    BY <2>1, <2>2, <2>3, <2>4
       DEF TickInv, NoConcurrentUpdate, NoUpdateOfDeletedMap, Distinct, Fresh
  <2>6. \A m : m # b /\ Fresh(m) => Fresh(m)'
    BY <2>2, <2>3, <2>4 DEF Fresh
  <2>7. ((Requested \cup Updating) \cap updated = {})'
    BY <2>1, <2>2, <2>3, <2>4 DEF TickInv, Fresh
  <2>8. \A w \in Busy : \A i \in work[w].left :
          i \in live /\ BaseOf[i] = work[w].map /\ Fresh(i)'
    BY <1>0, <2>1, <2>6 DEF TickInv, TypeOK
  <2>9. \A i \in Instances : Fresh(i)' \/ BaseOf[i] \notin toVisit' \cup Requested'
    BY <2>1, <2>2, <2>4, <2>6 DEF TickInv
  <2> QED
    BY <2>3, <2>4, <2>5, <2>6, <2>7, <2>8, <2>9 DEF TickInv
<1>4. ASSUME NEW b \in BaseMaps, UpdateInline(b) PROVE TickInv'
  <2>1. queue = <<>> /\ Busy = {}
    BY <1>4, Quiet DEF UpdateInline
  <2>2. /\ queue' = queue /\ Busy' = Busy /\ b \in toVisit
        /\ toVisit' = toVisit \ {b}
        /\ \E kept \in SUBSET InstancesOf(b) : updated' = updated \cup {b} \cup kept
    BY <1>4 DEF UpdateInline, Busy
  <2>3. toVisit \cap updated = {} /\ toVisit \subseteq BaseMaps
    BY <1>0 DEF TickInv, Fresh, TypeOK
  <2>4. \A i \in InstancesOf(b) : i \in Instances /\ BaseOf[i] = b
    BY <1>0 DEF InstancesOf, TypeOK
  <2>5. \A i \in Instances : i \in updated => BaseOf[i] \notin toVisit
    BY DEF TickInv, Fresh
  <2>6. toVisit' \cap updated' = {}
    BY <1>0, <2>2, <2>3, <2>4
  <2>7. \A i \in Instances : i \in updated' => BaseOf[i] \notin toVisit'
    BY <1>0, <2>2, <2>4, <2>5
  <2> QED
    BY <2>1, <2>2, <2>6, <2>7, QuietStep
<1>5. ASSUME NEW w \in Workers, Dequeue(w) PROVE TickInv'
  <2> DEFINE m == Head(queue)
  <2>1. /\ queue # <<>> /\ queue' = Tail(queue) /\ work[w] = Idle
        /\ UNCHANGED <<toVisit, live, updated>>
    BY <1>5 DEF Dequeue
  <2>2. /\ Distinct' /\ m \in Requested /\ m \in Maps
        /\ Requested' = Requested \ {m}
    BY <1>0, <2>1, Taken
  <2>3. /\ work'[w].pc = "update" /\ work'[w].map = m
        /\ \A i \in work'[w].left : i \in live /\ BaseOf[i] = m
    BY <1>0, <1>5 DEF Dequeue, Job, InstancesOf, TypeOK
  <2>4. \A v \in Workers \ {w} : work'[v] = work[v]
    BY <1>0, <1>5 DEF Dequeue, TypeOK
  <2>5. w \notin Busy /\ Busy' = Busy \cup {w}
    BY <2>1, <2>3, <2>4 DEF Busy, Idle
  <2>6. Updating' = Updating \cup {m}
    BY <2>3, <2>4, <2>5 DEF Updating, Busy
  <2>7. \A x : Fresh(x)' <=> Fresh(x)
    BY <2>1, <2>2, <2>6 DEF Fresh
  <2> HIDE DEF m
  <2>8. m \notin Updating
    BY <2>2 DEF TickInv, NoConcurrentUpdate
  <2>9. NoConcurrentUpdate'
    <3>1. (Requested \cap Updating = {})'
      BY <2>2, <2>6 DEF TickInv, NoConcurrentUpdate
    <3>2. \A v \in Busy : work[v].map # m /\ work'[v] = work[v]
      BY <2>4, <2>5, <2>8 DEF Updating, Busy
    <3>3. \A v, u \in Busy' : work'[v].map = work'[u].map => v = u
      BY <2>3, <2>5, <3>2 DEF TickInv, NoConcurrentUpdate
    <3> QED
      BY <2>2, <3>1, <3>3 DEF NoConcurrentUpdate, Distinct
  <2>10. NoUpdateOfDeletedMap'
    BY <2>1, <2>2, <2>6 DEF TickInv, NoUpdateOfDeletedMap
  <2>11. ((Requested \cup Updating) \cap updated = {})'
    BY <2>1, <2>2, <2>6 DEF TickInv
  <2>12. \A v \in Busy' : \A i \in work'[v].left :
           i \in live /\ BaseOf[i] = work'[v].map /\ Fresh(i)
    <3>1. \A i \in work'[w].left : Fresh(i)
      BY <1>0, <2>2, <2>3 DEF TickInv, TypeOK
    <3>2. \A v \in Busy : work'[v] = work[v]
      BY <2>4, <2>5 DEF Busy
    <3> QED
      BY <2>3, <2>5, <3>1, <3>2 DEF TickInv
  <2>13. \A i \in Instances : Fresh(i) \/ BaseOf[i] \notin toVisit \cup Requested'
    BY <2>2 DEF TickInv
  <2> QED
    BY <2>1, <2>7, <2>9, <2>10, <2>11, <2>12, <2>13 DEF TickInv
<1>6. ASSUME NEW w \in Workers, ExitThread(w) PROVE TickInv'
  <2>1. queue = <<>> /\ Busy = {}
    BY <1>6, Quiet DEF ExitThread
  <2>2. Busy' = {} /\ queue' = <<>> /\ UNCHANGED <<toVisit, updated>>
    BY <1>0, <1>6, <2>1 DEF ExitThread, Busy, Exited, TypeOK
  <2> QED
    BY <1>0, <2>2, QuietStep DEF TickInv, Fresh
<1>7. ASSUME NEW w \in Workers, NEW i \in Instances, VisitInstance(w, i)
      PROVE  TickInv'
  <2>1. /\ w \in Busy /\ i \in work[w].left
        /\ UNCHANGED <<toVisit, updated>>
    BY <1>7 DEF VisitInstance, Busy
  <2>2. /\ work'[w].pc = "update" /\ work'[w].map = work[w].map
        /\ work'[w].left = work[w].left \ {i}
    BY <1>0, <1>7 DEF VisitInstance, Job, TypeOK
  <2>3. \A v \in Workers \ {w} : work'[v] = work[v]
    BY <1>0, <1>7 DEF VisitInstance, TypeOK
  <2>4. Busy' = Busy /\ Updating' = Updating
    BY <2>1, <2>2, <2>3 DEF Busy, Updating
  <2>5. i \in live /\ BaseOf[i] = work[w].map /\ Fresh(i)
    BY <2>1 DEF TickInv
  <2>6. \A v \in Busy : i \notin work'[v].left /\ work'[v].left \subseteq work[v].left
                        /\ work'[v].map = work[v].map
    <3>1. \A v \in Busy : i \in work[v].left => v = w
      BY <2>1, <2>5 DEF TickInv, NoConcurrentUpdate
    <3> QED
      BY <2>2, <2>3, <3>1 DEF Busy
  <2>7. Distinct' /\ Requested' \subseteq Requested \cup {i}
        /\ live \ {i} \subseteq live' /\ (i \in Requested' => i \in live')
    <3>1. CASE schedule_update(i) /\ UNCHANGED live
      BY <1>0, <2>5, <3>1, Scheduled DEF Maps, Fresh
    <3>2. CASE live' = live \ {i} /\ UNCHANGED <<queue, pending>>
      BY <1>0, <2>5, <3>2 DEF Distinct, Requested, Fresh
    <3>3. CASE UNCHANGED <<live, queue, pending>>
      BY <1>0, <2>5, <3>3 DEF Distinct, Requested
    <3> QED
      BY <1>7, <3>1, <3>2, <3>3 DEF VisitInstance
  <2>8. \A m : m # i /\ Fresh(m) => Fresh(m)'
    BY <2>1, <2>4, <2>7 DEF Fresh
  <2>9. NoConcurrentUpdate'
    BY <2>4, <2>5, <2>6, <2>7 DEF TickInv, NoConcurrentUpdate, Distinct, Fresh
  <2>10. NoUpdateOfDeletedMap'
    BY <2>4, <2>5, <2>7 DEF TickInv, NoUpdateOfDeletedMap, Fresh
  <2>11. ((Requested \cup Updating) \cap updated = {})'
    BY <2>1, <2>4, <2>5, <2>7 DEF TickInv, Fresh
  <2>12. \A b \in toVisit' : Fresh(b)'
    BY <1>0, <2>1, <2>8 DEF TickInv, TypeOK
  <2>13. \A v \in Busy' : \A k \in work'[v].left :
           k \in live' /\ BaseOf[k] = work'[v].map /\ Fresh(k)'
    BY <2>4, <2>6, <2>7, <2>8 DEF TickInv
  <2>14. work[w].map \in Updating
    BY <2>1 DEF Updating
  <2>15. BaseOf[i] \notin toVisit' \cup Requested'
    BY <1>0, <2>1, <2>5, <2>7, <2>14 DEF TickInv, NoConcurrentUpdate, Fresh
  <2>16. \A k \in Instances : Fresh(k)' \/ BaseOf[k] \notin toVisit' \cup Requested'
    BY <1>0, <2>1, <2>7, <2>8, <2>15 DEF TickInv
  <2> QED
    BY <2>9, <2>10, <2>11, <2>12, <2>13, <2>16 DEF TickInv
<1>8. ASSUME NEW w \in Workers, update_finished(w) PROVE TickInv'
  <2> DEFINE m == work[w].map
  <2>1. /\ w \in Busy /\ UNCHANGED <<toVisit, live, queue>>
        /\ updated' = updated \cup {m}
    BY <1>8 DEF update_finished, Busy
  <2>2. \A v \in Workers \ {w} : work'[v] = work[v]
    BY <1>0, <1>8 DEF update_finished, TypeOK
  <2>3. Busy' = Busy \ {w}
    BY <1>0, <1>8, <2>2 DEF update_finished, Busy, Idle, TypeOK
  <2>4. m \in Updating
    BY <2>1 DEF Updating
  <2>5. \A v \in Busy' : work'[v] = work[v] /\ work[v].map # m
    BY <2>1, <2>2, <2>3 DEF Busy, TickInv, NoConcurrentUpdate
  <2>6. Updating' = Updating \ {m}
    BY <2>1, <2>3, <2>5 DEF Updating
  <2>7. Requested' = Requested
    BY <2>1 DEF Requested
  <2>8. \A x : Fresh(x)' <=> Fresh(x)
    BY <2>1, <2>4, <2>6, <2>7 DEF Fresh
  <2> HIDE DEF m
  <2>9. NoConcurrentUpdate'
    BY <2>1, <2>3, <2>5, <2>6, <2>7 DEF TickInv, NoConcurrentUpdate
  <2>10. NoUpdateOfDeletedMap'
    BY <2>1, <2>6, <2>7 DEF TickInv, NoUpdateOfDeletedMap
  <2>11. ((Requested \cup Updating) \cap updated = {})'
    BY <2>1, <2>4, <2>6, <2>7 DEF TickInv, NoConcurrentUpdate
  <2> QED
    BY <2>1, <2>3, <2>5, <2>7, <2>8, <2>9, <2>10, <2>11 DEF TickInv
<1>9. CASE UnloadAll
  <2>1. queue = <<>> /\ Busy = {}
    BY <1>9, Quiet DEF UnloadAll
  <2> QED
    BY <1>0, <1>9, <2>1, QuietStep DEF UnloadAll, Busy, TickInv, Fresh
<1>10. CASE UNCHANGED <<toVisit, live, queue, work, updated>>
  BY <1>10 DEF TickInv, NoConcurrentUpdate, NoUpdateOfDeletedMap, Fresh,
               Requested, Updating, Busy
<1> QED
  BY <1>1, <1>2, <1>3, <1>4, <1>5, <1>6, <1>7, <1>8, <1>9, <1>10
     DEF Next, Tick, Worker, wait, DelayedUpdate, deactivate, JoinThreads, vars

\* The strengthened invariant holds in every reachable state.
THEOREM TickInvariant == Spec => []TickInv
<1>1. Init => TickInv
  <2> SUFFICES ASSUME Init PROVE TickInv
    OBVIOUS
  <2>1. Busy = {} /\ queue = <<>> /\ toVisit = {} /\ updated = {}
    BY DEF Init, Busy, Idle, Exited
  <2>2. Requested = {} /\ Updating = {} /\ DOMAIN queue = {}
    BY <2>1 DEF Requested, Updating
  <2> QED
    BY <2>1, <2>2 DEF TickInv, NoConcurrentUpdate, NoUpdateOfDeletedMap, Fresh
<1>2. BarrierInv /\ TickInv /\ [Next]_vars => TickInv'
  BY TickInvPreserved
<1> QED
  BY <1>1, <1>2, BarrierInvariant, PTL DEF Spec

\* Two threads never update the same map at once, for any maps and threads.
THEOREM OneThreadPerMap == Spec => []NoConcurrentUpdate
<1>1. TickInv => NoConcurrentUpdate
  BY DEF TickInv
<1> QED
  BY <1>1, TickInvariant, PTL

\* DestroyInstance and UnloadAll never delete a map that a request refers to.
THEOREM NoDanglingRequest == Spec => []NoUpdateOfDeletedMap
<1>1. TickInv => NoUpdateOfDeletedMap
  BY DEF TickInv
<1> QED
  BY <1>1, TickInvariant, PTL

\* A map is updated at most once in a tick, whatever the queue refuses.
THEOREM OneUpdatePerTick == Spec => UpdatedOncePerTick
<1>1. TickInv => \A w \in Workers :
        work[w].pc = "update" => work[w].map \notin updated
  BY DEF TickInv, Updating, Busy
<1>2. TickInv => [\A w \in Workers :
        work[w].pc = "update" /\ work'[w] = Idle => work[w].map \notin updated]_vars
  BY <1>1
<1> QED
  BY <1>2, TickInvariant, PTL DEF UpdatedOncePerTick

-----------------------------------------------------------------------------
(* The packets of a session *)

\* Appending keeps the elements and adds one.
LEMMA AppendOf ==
  ASSUME NEW S, NEW s \in Seq(S), NEW e \in S
  PROVE  /\ Append(s, e) \in Seq(S) /\ Len(s) \in Nat
         /\ DOMAIN s = 1..Len(s) /\ DOMAIN Append(s, e) = 1..(Len(s) + 1)
         /\ \A i \in 1..Len(s) : Append(s, e)[i] = s[i] /\ s[i] \in S
         /\ Append(s, e)[Len(s) + 1] = e
  OBVIOUS

\* Taking the first element leaves the others, in their order.
LEMMA TailOf ==
  ASSUME NEW S, NEW s \in Seq(S), s # <<>>
  PROVE  /\ Tail(s) \in Seq(S) /\ Len(s) \in Nat \ {0} /\ Len(Tail(s)) = Len(s) - 1
         /\ DOMAIN s = 1..Len(s) /\ DOMAIN Tail(s) = 1..(Len(s) - 1)
         /\ Head(s) = s[1] /\ s[1] \in S
         /\ \A i \in 1..(Len(s) - 1) : Tail(s)[i] = s[i + 1]
  OBVIOUS

\* The state of the player: what a login in progress, a player and a logout
\* request say about each other.  Neither property is inductive without the
\* types; NoStaleLogoutRequest needs OnePlayer for the login that fails.
PlayerInv ==
  /\ player \in {"none", "world", "transfer"}
  /\ login \in {"none", "pending", "ready"}
  /\ loading \in BOOLEAN /\ leaving \in BOOLEAN
  /\ OnePlayer
  /\ NoStaleLogoutRequest

\* Every handler and every step of Update keeps the state of the player consistent.
LEMMA PlayerInvPreserved ==
  ASSUME PlayerInv, [SessionNext]_sessionVars PROVE PlayerInv'
<1> USE DEF PlayerInv, OnePlayer, NoStaleLogoutRequest
<1>1. CASE UNCHANGED session
  BY <1>1 DEF session
<1>2. CASE CloseSocket \/ PassQueue
  BY <1>2 DEF CloseSocket, PassQueue
<1>3. CASE LoginQueriesDone
  BY <1>3 DEF LoginQueriesDone
<1>4. CASE TeleportFar
  BY <1>4 DEF TeleportFar
<1>5. ASSUME NEW k \in Kinds, Other(k) \/ Transfer(k) PROVE PlayerInv'
  <2>1. CASE Other(k)
    BY <1>1, <2>1 DEF Other
  <2>2. CASE Transfer(k)
    <3>1. player = "world"
      BY <2>2 DEF Transfer, Handled, Status
    <3> QED
      BY <2>2, <3>1 DEF Transfer
  <2> QED
    BY <1>5, <2>1, <2>2
<1>6. CASE CharEnum
  BY <1>6 DEF CharEnum
<1>7. CASE HandlePlayerLogin
  BY <1>7 DEF HandlePlayerLogin
<1>8. CASE HandleLogoutRequest
  <2>1. player = "world"
    BY <1>8 DEF HandleLogoutRequest, Handled, Status
  <2> QED
    BY <1>8, <2>1 DEF HandleLogoutRequest, LoggedOut
<1>9. CASE HandleMoveWorldportAck
  <2>1. player = "transfer"
    BY <1>9 DEF HandleMoveWorldportAck, Handled, Status
  <2> QED
    BY <1>9, <2>1 DEF HandleMoveWorldportAck, LoggedOut
<1>10. CASE PlayerLoaded
  <2>1. player = "none" /\ ~leaving
    BY <1>10 DEF PlayerLoaded
  <2>2. login' = "none" /\ ~leaving' /\ loading' = FALSE
    BY <1>10, <2>1 DEF PlayerLoaded
  <2>3. player' \in {"none", "world", "transfer"}
    BY <1>10 DEF PlayerLoaded
  <2> QED
    BY <2>2, <2>3, <1>10 DEF PlayerLoaded
<1>11. CASE EndWorldUpdate
  <2>1. CASE LoggedOut /\ UNCHANGED <<login, loading>>
    BY <2>1 DEF LoggedOut
  <2>2. CASE UNCHANGED <<player, leaving, login, loading>>
    BY <2>2
  <2> QED
    BY <1>11, <2>1, <2>2 DEF EndWorldUpdate
<1>12. CASE Remove
  BY <1>12 DEF Remove, LoggedOut
<1> QED
  BY <1>1, <1>2, <1>3, <1>4, <1>5, <1>6, <1>7, <1>8, <1>9, <1>10, <1>11, <1>12
     DEF SessionNext, WorldUpdate, MapUpdate, Process, QueuePacket, StartWorldUpdate,
         StartMapUpdate, SkipMapUpdate, EndMapUpdate, Reenqueue, sessionVars, session

\* PlayerInv holds in every reachable state.
THEOREM PlayerInvariant == SessionSpec => []PlayerInv
<1>1. SessionInit => PlayerInv
  BY DEF SessionInit, PlayerInv, OnePlayer, NoStaleLogoutRequest
<1> QED
  BY <1>1, PlayerInvPreserved, PTL DEF SessionSpec

\* A session never has two players, whatever packets the client sends and
\* however late the database answers the login.
THEOREM SessionHasOnePlayer == SessionSpec => []OnePlayer
<1>1. PlayerInv => OnePlayer
  BY DEF PlayerInv
<1> QED
  BY <1>1, PlayerInvariant, PTL

\* No logout request outlives its player.
THEOREM LogoutRequestIsFresh == SessionSpec => []NoStaleLogoutRequest
<1>1. PlayerInv => NoStaleLogoutRequest
  BY DEF PlayerInv
<1> QED
  BY <1>1, PlayerInvariant, PTL

-----------------------------------------------------------------------------

\* Packets as they are numbered, for any number of them.
Numbered == [id : Nat, kind : Kinds]

\* Packets are numbered as they come, so that what is appended is new.
QueueInv ==
  /\ recvQueue \in Seq(Numbered)
  /\ received \in Nat
  /\ \A i \in DOMAIN recvQueue : recvQueue[i].id <= received
  /\ \A n \in deleted : n \in Nat /\ n <= received
  /\ NoUseAfterDelete

\* Every step takes a packet out of the queue before it deletes it, and what goes
\* back into the queue was taken out of it.
LEMMA QueueInvPreserved ==
  ASSUME QueueInv, [SessionNext]_sessionVars PROVE QueueInv'
<1>0. /\ recvQueue \in Seq(Numbered) /\ received \in Nat
      /\ \A p \in Numbered : p.id \in Nat
      /\ DOMAIN recvQueue = 1..Len(recvQueue)
  BY DEF QueueInv, Numbered
<1>1. CASE UNCHANGED <<recvQueue, received, deleted>>
  BY <1>1 DEF QueueInv, NoUseAfterDelete, Waiting
<1>2. ASSUME NEW k \in Kinds, QueuePacket(k) PROVE QueueInv'
  <2> DEFINE p == [id |-> received + 1, kind |-> k]
  <2>1. /\ p \in Numbered /\ p.id = received + 1
        /\ recvQueue' = Append(recvQueue, p) /\ received' = received + 1
        /\ deleted' = deleted
    BY <1>0, <1>2 DEF QueuePacket, Numbered
  <2> HIDE DEF p
  <2>2. /\ recvQueue' \in Seq(Numbered) /\ Len(recvQueue) \in Nat
        /\ DOMAIN recvQueue = 1..Len(recvQueue)
        /\ DOMAIN recvQueue' = 1..(Len(recvQueue) + 1)
        /\ \A i \in 1..Len(recvQueue) : recvQueue'[i] = recvQueue[i] /\ recvQueue[i].id \in Nat
        /\ recvQueue'[Len(recvQueue) + 1] = p
    BY <1>0, <2>1, AppendOf
  <2>3. \A i \in DOMAIN recvQueue' : recvQueue'[i].id <= received'
    BY <1>0, <2>1, <2>2 DEF QueueInv
  <2>4. \A n \in deleted' : n \in Nat /\ n <= received'
    BY <1>0, <2>1 DEF QueueInv
  <2>5. \A i \in DOMAIN recvQueue' : recvQueue'[i].id \notin deleted'
    BY <1>0, <2>1, <2>2 DEF QueueInv, NoUseAfterDelete, Waiting
  <2>6. \A i, j \in DOMAIN recvQueue' : recvQueue'[i].id = recvQueue'[j].id => i = j
    BY <1>0, <2>1, <2>2 DEF QueueInv, NoUseAfterDelete
  <2> QED
    BY <1>0, <2>1, <2>2, <2>3, <2>4, <2>5, <2>6 DEF QueueInv, NoUseAfterDelete, Waiting
<1>3. CASE Reenqueue
  <2> DEFINE q == Tail(recvQueue)
             p == Head(recvQueue)
  <2>1. /\ recvQueue # <<>> /\ recvQueue' = Append(q, p)
        /\ received' = received /\ deleted' = deleted
    BY <1>3 DEF Reenqueue, More
  <2>2. /\ q \in Seq(Numbered) /\ Len(q) = Len(recvQueue) - 1
        /\ Len(recvQueue) \in Nat \ {0}
        /\ p = recvQueue[1] /\ p \in Numbered
        /\ \A i \in 1..(Len(recvQueue) - 1) : q[i] = recvQueue[i + 1]
    BY <1>0, <2>1, TailOf
  <2> HIDE DEF q, p
  <2>3. /\ recvQueue' \in Seq(Numbered)
        /\ DOMAIN recvQueue' = 1..Len(recvQueue)
        /\ \A i \in 1..(Len(recvQueue) - 1) : recvQueue'[i] = recvQueue[i + 1]
        /\ recvQueue'[Len(recvQueue)] = recvQueue[1]
    BY <2>1, <2>2, AppendOf
  <2> DEFINE From(i) == IF i = Len(recvQueue) THEN 1 ELSE i + 1
  <2>4. \A i \in DOMAIN recvQueue' :
          From(i) \in DOMAIN recvQueue /\ recvQueue'[i] = recvQueue[From(i)]
    <3> SUFFICES ASSUME NEW i \in 1..Len(recvQueue)
                 PROVE  From(i) \in DOMAIN recvQueue /\ recvQueue'[i] = recvQueue[From(i)]
      BY <2>3
    <3>1. CASE i = Len(recvQueue)
      BY <1>0, <2>2, <2>3, <3>1
    <3>2. CASE i # Len(recvQueue)
      <4>1. From(i) = i + 1 /\ i \in 1..(Len(recvQueue) - 1)
        BY <2>2, <3>2
      <4> HIDE DEF From
      <4>2. i + 1 \in 1..Len(recvQueue)
        BY <2>2, <4>1
      <4> QED
        BY <1>0, <2>3, <4>1, <4>2
    <3> QED
      BY <3>1, <3>2
  <2>5. \A i, j \in DOMAIN recvQueue' : From(i) = From(j) => i = j
    BY <2>2, <2>3
  <2> HIDE DEF From
  <2>6. \A i, j \in DOMAIN recvQueue' : recvQueue'[i].id = recvQueue'[j].id => i = j
    BY <2>4, <2>5 DEF QueueInv, NoUseAfterDelete
  <2>7. \A i \in DOMAIN recvQueue' : recvQueue'[i].id <= received /\ recvQueue'[i].id \notin deleted
    BY <2>4 DEF QueueInv, NoUseAfterDelete, Waiting
  <2>8. NoUseAfterDelete'
    BY <2>1, <2>6, <2>7 DEF NoUseAfterDelete, Waiting
  <2> QED
    BY <1>0, <2>1, <2>3, <2>7, <2>8 DEF QueueInv
<1>4. ASSUME NEW k, Consume(k) PROVE QueueInv'
  <2>1. /\ recvQueue # <<>> /\ recvQueue' = Tail(recvQueue) /\ received' = received
        /\ deleted' \subseteq deleted \cup {Head(recvQueue).id}
    BY <1>4 DEF Consume, More
  <2>2. /\ recvQueue' \in Seq(Numbered) /\ Len(recvQueue) \in Nat \ {0}
        /\ DOMAIN recvQueue = 1..Len(recvQueue)
        /\ DOMAIN recvQueue' = 1..(Len(recvQueue) - 1)
        /\ Head(recvQueue) = recvQueue[1] /\ recvQueue[1].id \in Nat
        /\ \A i \in 1..(Len(recvQueue) - 1) : recvQueue'[i] = recvQueue[i + 1]
    BY <1>0, <2>1, TailOf
  <2>3. \A i \in DOMAIN recvQueue' :
          i \in Nat /\ i + 1 \in DOMAIN recvQueue /\ recvQueue'[i] = recvQueue[i + 1]
    BY <2>2
  <2>4. \A i, j \in DOMAIN recvQueue' : recvQueue'[i].id = recvQueue'[j].id => i = j
    <3> SUFFICES ASSUME NEW i \in DOMAIN recvQueue', NEW j \in DOMAIN recvQueue',
                        recvQueue'[i].id = recvQueue'[j].id
                 PROVE  i = j
      OBVIOUS
    <3>1. i + 1 = j + 1
      BY <2>3 DEF QueueInv, NoUseAfterDelete
    <3> QED
      BY <2>3, <3>1
  <2>5. \A i \in DOMAIN recvQueue' : /\ recvQueue'[i].id <= received
                                     /\ recvQueue'[i].id \notin deleted
                                     /\ recvQueue'[i].id # recvQueue[1].id
    <3> SUFFICES ASSUME NEW i \in DOMAIN recvQueue'
                 PROVE  /\ recvQueue'[i].id <= received
                        /\ recvQueue'[i].id \notin deleted
                        /\ recvQueue'[i].id # recvQueue[1].id
      OBVIOUS
    <3>1. /\ i + 1 \in DOMAIN recvQueue /\ 1 \in DOMAIN recvQueue /\ i + 1 # 1
          /\ recvQueue'[i] = recvQueue[i + 1]
      BY <2>2
    <3> QED
      BY <3>1 DEF QueueInv, NoUseAfterDelete, Waiting
  <2>6. \A n \in deleted' : n \in Nat /\ n <= received
    BY <2>1, <2>2 DEF QueueInv
  <2> QED
    BY <1>0, <2>1, <2>2, <2>4, <2>5, <2>6 DEF QueueInv, NoUseAfterDelete, Waiting
<1>5. CASE Remove
  <2>1. /\ recvQueue' = <<>> /\ received' = received
        /\ deleted' = deleted \cup {recvQueue[i].id : i \in DOMAIN recvQueue}
    BY <1>5 DEF Remove, Waiting
  <2>2. \A i \in DOMAIN recvQueue : recvQueue[i].id \in Nat
    BY <1>0
  <2>3. \A n \in deleted' : n \in Nat /\ n <= received
    BY <2>1, <2>2 DEF QueueInv
  <2>4. recvQueue' \in Seq(Numbered) /\ DOMAIN recvQueue' = {}
    BY <2>1
  <2> QED
    BY <1>0, <2>1, <2>3, <2>4 DEF QueueInv, NoUseAfterDelete, Waiting
<1> QED
  BY <1>1, <1>2, <1>3, <1>4, <1>5
     DEF SessionNext, WorldUpdate, MapUpdate, Process, Other, Transfer, CharEnum,
         HandlePlayerLogin, HandleLogoutRequest, HandleMoveWorldportAck,
         PlayerLoaded, EndMapUpdate, EndWorldUpdate, CloseSocket,
         LoginQueriesDone, PassQueue, TeleportFar, StartWorldUpdate,
         StartMapUpdate, SkipMapUpdate, sessionVars

\* A packet is never read after delete, nor deleted twice, although packets
\* go round the queue.
THEOREM PacketsAreSafe == SessionSpec => []NoUseAfterDelete
<1>1. SessionInit => QueueInv
  BY DEF SessionInit, QueueInv, NoUseAfterDelete, Waiting
<1>2. QueueInv => NoUseAfterDelete
  BY DEF QueueInv
<1> QED
  BY <1>1, <1>2, QueueInvPreserved, PTL DEF SessionSpec

=============================================================================
