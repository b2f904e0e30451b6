----------------------------- MODULE MapUpdater -----------------------------
(***************************************************************************)
(* The map tick: the world thread schedules one update request per map on  *)
(* a bounded activation queue, a pool of worker threads executes them, and *)
(* the world thread waits on a condition variable until every request is   *)
(* finished before it touches the maps again                               *)
(* (MapManager::Update, MapInstanced::Update, MapUpdater, DelayExecutor).  *)
(*                                                                         *)
(* Every access to pending_requests is made under MapUpdater::m_mutex, so  *)
(* each critical section is one action.  Dequeuing is not under that mutex *)
(* and is an action of its own.                                            *)
(***************************************************************************)
EXTENDS Naturals, Sequences, FiniteSets

CONSTANTS
  BaseMaps,     \* keys of MapManager::i_maps
  Instances,    \* the instance copies that can exist at all
  Workers,      \* the threads MapUpdate.Threads asks for when it is not 0
  BaseOf,       \* BaseOf[i]: the MapInstanced that owns instance i
  QueueLimit    \* requests below the high water mark of the activation queue

Maps == BaseMaps \cup Instances

ASSUME MapUpdaterAssumption ==
  /\ IsFiniteSet(Workers) /\ Workers # {}
  /\ BaseMaps \cap Instances = {}
  /\ BaseOf \in [Instances -> BaseMaps]
  /\ QueueLimit \in Nat \ {0}

VARIABLES
  main,       \* where the world thread is in its tick
  toVisit,    \* base maps its loop over i_maps has not reached yet
  live,       \* instances in some m_InstancedMaps
  queue,      \* DelayExecutor::queue_
  pending,    \* MapUpdater::pending_requests
  activated,  \* DelayExecutor::activated_
  work,       \* what each worker thread is doing
  updated     \* history: maps whose Update ran to its end in this tick

vars == <<main, toVisit, live, queue, pending, activated, work, updated>>

MainStates == {"sessions", "scheduling", "waiting", "woken", "delayed",
               "unloading", "joining", "stopped"}

Idle   == [pc |-> "dequeue", map |-> "none", left |-> {}]
Exited == [pc |-> "exited",  map |-> "none", left |-> {}]
Job(m, todo) == [pc |-> "update", map |-> m, left |-> todo]

\* A worker is busy from the moment it dequeued a request until its
\* update_finished returned.
Busy == {w \in Workers : work[w].pc = "update"}

\* The maps an update request exists for.
Requested == {queue[i] : i \in DOMAIN queue}
Updating  == {work[w].map : w \in Busy}

TypeOK ==
  /\ main \in MainStates
  /\ toVisit \in SUBSET BaseMaps
  /\ live \in SUBSET Instances
  /\ queue \in Seq(Maps)
  /\ pending \in Nat
  /\ activated \in BOOLEAN
  /\ work \in [Workers -> {Idle, Exited} \cup
                 [pc : {"update"}, map : Maps, left : SUBSET Instances]]
  /\ updated \in SUBSET Maps

\* MapManager::Initialize: threads are started only when MapUpdate.Threads > 0,
\* and activated_ stays false otherwise.
Init ==
  /\ main = "sessions"
  /\ toVisit = {}
  /\ live = {}
  /\ queue = <<>>
  /\ pending = 0
  /\ activated \in BOOLEAN
  /\ work = [w \in Workers |-> IF activated THEN Idle ELSE Exited]
  /\ updated = {}

-----------------------------------------------------------------------------
(* The world thread *)

InstancesOf(b) == {i \in live : BaseOf[i] = b}

\* World::UpdateSessions: a handler running in the world thread may create an
\* instance for a player (MapInstanced::CreateInstanceForPlayer).
CreateInstance(i) ==
  /\ main = "sessions"
  /\ i \notin live
  /\ live' = live \cup {i}
  /\ UNCHANGED <<main, toVisit, queue, pending, activated, work, updated>>

\* MapManager::Update once i_timer has passed: start the loop over i_maps.
StartTick ==
  /\ main = "sessions"
  /\ main' = "scheduling"
  /\ toVisit' = BaseMaps
  /\ updated' = {}
  /\ UNCHANGED <<live, queue, pending, activated, work>>

\* Mutant: the count of a refused request is not taken back.
schedule_update_KeepsCount(m) ==
  /\ queue' = IF Len(queue) < QueueLimit THEN Append(queue, m) ELSE queue
  /\ pending' = IF pending < 8 THEN pending + 1 ELSE pending

\* MapUpdater::schedule_update: count the request, then enqueue it without
\* blocking; a full queue refuses it and the count is taken back.
schedule_update(m) ==
  IF Len(queue) < QueueLimit
  THEN queue' = Append(queue, m) /\ pending' = pending + 1
  ELSE UNCHANGED <<queue, pending>>

ScheduleBase(b) ==
  /\ main = "scheduling"
  /\ b \in toVisit
  /\ activated
  /\ toVisit' = toVisit \ {b}
  /\ schedule_update(b)
  /\ UNCHANGED <<main, live, activated, work, updated>>

\* Without worker threads the map, and the instances it keeps, are updated in
\* the loop itself; an idle instance may be destroyed, or keep a player that
\* could not be removed.
UpdateInline(b) ==
  /\ main = "scheduling"
  /\ b \in toVisit
  /\ ~activated
  /\ toVisit' = toVisit \ {b}
  /\ \E destroyed \in SUBSET InstancesOf(b) :
       \E kept \in SUBSET (InstancesOf(b) \ destroyed) :
         /\ live' = live \ destroyed
         /\ updated' = updated \cup {b} \cup kept
  /\ UNCHANGED <<main, queue, pending, activated, work>>

\* Mutant: "if" instead of "while" around the condition variable.
wait_If ==
  /\ \/ main = "scheduling" /\ toVisit = {}
     \/ main = "woken"
  /\ main' = IF main = "scheduling" /\ activated /\ pending > 0
             THEN "waiting" ELSE "delayed"
  /\ UNCHANGED <<toVisit, live, queue, pending, activated, work, updated>>

\* MapUpdater::wait: the loop condition is tested under m_mutex, on entry and
\* again after every wake-up.
wait ==
  /\ \/ main = "scheduling" /\ toVisit = {}
     \/ main = "woken"
  /\ main' = IF activated /\ pending > 0 THEN "waiting" ELSE "delayed"
  /\ UNCHANGED <<toVisit, live, queue, pending, activated, work, updated>>

\* DelayedUpdate of every map and instance, then ObjectAccessor and the
\* transports: the rest of the tick assumes that no map update runs.
DelayedUpdate ==
  /\ main = "delayed"
  /\ main' = "sessions"
  /\ UNCHANGED <<toVisit, live, queue, pending, activated, work, updated>>

\* MapManager::UnloadAll after the world loop ended: every map is deleted
\* before the updater is deactivated, if it was activated at all.
UnloadAll ==
  /\ main = "sessions"
  /\ main' = IF activated THEN "unloading" ELSE "stopped"
  /\ live' = {}
  /\ UNCHANGED <<toVisit, queue, pending, activated, work, updated>>

\* Mutant: the queue is not deactivated.
deactivate_QueueActive ==
  /\ main = "unloading"
  /\ pending = 0
  /\ main' = "joining"
  /\ UNCHANGED <<toVisit, live, queue, pending, activated, work, updated>>

\* MapUpdater::deactivate: wait() and then DelayExecutor::deactivate, which
\* clears activated_ and deactivates the queue.
deactivate ==
  /\ main = "unloading"
  /\ pending = 0
  /\ main' = "joining"
  /\ activated' = FALSE
  /\ UNCHANGED <<toVisit, live, queue, pending, work, updated>>

\* ACE_Task::wait joins the worker threads.
JoinThreads ==
  /\ main = "joining"
  /\ \A w \in Workers : work[w] = Exited
  /\ main' = "stopped"
  /\ UNCHANGED <<toVisit, live, queue, pending, activated, work, updated>>

-----------------------------------------------------------------------------
(* The worker threads: DelayExecutor::svc *)

Dequeue(w) ==
  /\ work[w] = Idle
  /\ activated
  /\ queue # <<>>
  /\ queue' = Tail(queue)
  /\ work' = [work EXCEPT ![w] =
                Job(Head(queue), IF Head(queue) \in BaseMaps
                                 THEN InstancesOf(Head(queue)) ELSE {})]
  /\ UNCHANGED <<main, toVisit, live, pending, activated, updated>>

\* dequeue fails once the queue is deactivated and the thread leaves svc.
ExitThread(w) ==
  /\ work[w] = Idle
  /\ ~activated
  /\ work' = [work EXCEPT ![w] = Exited]
  /\ UNCHANGED <<main, toVisit, live, queue, pending, activated, updated>>

\* Mutant: the iterator is not advanced after scheduling.
VisitInstance_Again(w, i) ==
  /\ work[w].pc = "update"
  /\ i \in work[w].left
  /\ \/ schedule_update(i) /\ UNCHANGED <<live, work>>
     \/ /\ live' = live \ {i}
        /\ work' = [work EXCEPT ![w] = Job(@.map, @.left \ {i})]
        /\ UNCHANGED <<queue, pending>>
  /\ UNCHANGED <<main, toVisit, activated, updated>>

\* Mutant: the update is scheduled before the unload check deletes the map.
VisitInstance_ScheduleFirst(w, i) ==
  /\ work[w].pc = "update"
  /\ i \in work[w].left
  /\ work' = [work EXCEPT ![w] = Job(@.map, @.left \ {i})]
  /\ schedule_update(i)
  /\ live' \in {live, live \ {i}}
  /\ UNCHANGED <<main, toVisit, activated, updated>>

\* One round of the loop of MapInstanced::Update over m_InstancedMaps.
VisitInstance(w, i) ==
  /\ work[w].pc = "update"
  /\ i \in work[w].left
  /\ work' = [work EXCEPT ![w] = Job(@.map, @.left \ {i})]
  /\ \/ schedule_update(i) /\ UNCHANGED live
     \/ live' = live \ {i} /\ UNCHANGED <<queue, pending>>   \* DestroyInstance
     \/ UNCHANGED <<live, queue, pending>>       \* a player could not leave
  /\ UNCHANGED <<main, toVisit, activated, updated>>

\* Mutant: the condition variable is not signalled.
update_finished_NoBroadcast(w) ==
  /\ work[w].pc = "update"
  /\ work[w].left = {}
  /\ work' = [work EXCEPT ![w] = Idle]
  /\ updated' = updated \cup {work[w].map}
  /\ pending' = IF pending = 0 THEN pending ELSE pending - 1
  /\ UNCHANGED <<main, toVisit, live, queue, activated>>

\* MapUpdateRequest::call after Map::Update: MapUpdater::update_finished.
update_finished(w) ==
  /\ work[w].pc = "update"
  /\ work[w].left = {}
  /\ work' = [work EXCEPT ![w] = Idle]
  /\ updated' = updated \cup {work[w].map}
  /\ IF pending = 0
     THEN UNCHANGED <<pending, main>>
     ELSE /\ pending' = pending - 1
          /\ main' = IF main = "waiting" THEN "woken" ELSE main
  /\ UNCHANGED <<toVisit, live, queue, activated>>

-----------------------------------------------------------------------------

Worker(w) ==
  \/ Dequeue(w)
  \/ ExitThread(w)
  \/ \E i \in Instances : VisitInstance(w, i)
  \/ update_finished(w)

Tick ==
  \/ \E b \in BaseMaps : ScheduleBase(b) \/ UpdateInline(b)
  \/ wait
  \/ DelayedUpdate

Next ==
  \/ \E i \in Instances : CreateInstance(i)
  \/ StartTick
  \/ Tick
  \/ UnloadAll
  \/ deactivate
  \/ JoinThreads
  \/ \E w \in Workers : Worker(w)
  \/ main = "stopped" /\ UNCHANGED vars     \* the process ends

\* Every thread keeps running: nothing outside the condition variable and the
\* queue blocks it.  The world loop itself need not start another tick.
Fairness ==
  /\ WF_vars(Tick)
  /\ WF_vars(deactivate)
  /\ WF_vars(JoinThreads)
  /\ \A w \in Workers : WF_vars(Worker(w))

Spec == Init /\ [][Next]_vars /\ Fairness

-----------------------------------------------------------------------------
(* Properties *)

\* pending_requests counts exactly the requests that are queued or being
\* executed.  One count too many and MapUpdater::wait never returns; one too
\* few and the world thread runs beside a map update.
PendingExact == pending = Len(queue) + Cardinality(Busy)

\* The barrier of MapManager::Update: outside the scheduling and waiting part
\* of the tick no map update is queued or running, so DelayedUpdate, the
\* sessions and UnloadAll have the maps to themselves.
BarrierHolds ==
  main \notin {"scheduling", "waiting", "woken"} =>
    queue = <<>> /\ Busy = {}

\* Two threads never update the same map: a map is queued at most once, never
\* while it is being updated, and never held by two workers.
NoConcurrentUpdate ==
  /\ \A i, j \in DOMAIN queue : queue[i] = queue[j] => i = j
  /\ Requested \cap Updating = {}
  /\ \A v, w \in Busy : work[v].map = work[w].map => v = w

\* MapInstanced::DestroyInstance and UnloadAll delete a map only when no
\* request that refers to it is left (MapUpdateRequest keeps a plain Map&).
NoUpdateOfDeletedMap ==
  \A m \in Requested \cup Updating : m \in Instances => m \in live

\* In one tick a map is updated at most once: the same diff is never applied
\* to it twice.
UpdatedOncePerTick ==
  [][\A w \in Workers :
       work[w].pc = "update" /\ work'[w] = Idle => work[w].map \notin updated]_vars

\* The world thread is always released from MapUpdater::wait.
TickCompletes == main \in {"waiting", "woken"} ~> main = "delayed"

\* MapManager::UnloadAll always gets the threads to exit.
ShutdownCompletes == main = "unloading" ~> main = "stopped"

=============================================================================
