--------------------------- MODULE WorldSessions ----------------------------
(***************************************************************************)
(* Admission of client sessions to the world: World::m_sessions, the login *)
(* queue m_QueuedPlayer that holds sessions above the player limit, the    *)
(* disconnect tolerance, and the world thread's UpdateSessions.            *)
(*                                                                         *)
(* Session objects are identities, so that a pointer to a deleted session  *)
(* can be told from its successor.  Socket threads append to addSessQueue  *)
(* and close sockets at any moment; everything else is the world thread.   *)
(***************************************************************************)
EXTENDS Integers, FiniteSets, SequencesExt

CONSTANTS
  Sessions,     \* session objects; one is reused after it was deleted
  Accounts,
  AccountOf,    \* AccountOf[s]: account the session authenticated for
  Bypass,       \* sessions of game masters and of premium accounts
  Limits,       \* values PlayerLimit is set to; 0 means no limit
  Tolerance,    \* DisconnectToleranceInterval
  RateNum,      \* Rate.Online is RateNum / RateDen: 1.47 unless configured
  RateDen,
  MaxTime,      \* bound: the clock stops here
  MaxAdded,     \* bound on the length of addSessQueue
  NoSession

ASSUME WorldSessionsAssumption ==
  /\ IsFiniteSet(Sessions) /\ NoSession \notin Sessions
  /\ AccountOf \in [Sessions -> Accounts]
  /\ Bypass \subseteq Sessions
  /\ Limits \subseteq Nat /\ Limits # {}
  /\ Tolerance \in Nat /\ MaxTime \in Nat /\ MaxAdded \in Nat
  /\ RateNum \in Nat \ {0} /\ RateDen \in Nat \ {0}

VARIABLES
  phase,         \* where the world thread is: "idle", "adding", "updating"
  toUpdate,      \* accounts the loop of UpdateSessions has not reached
  addSessQueue,  \* sessions authenticated by socket threads, not yet added
  sessions,      \* m_sessions
  queue,         \* m_QueuedPlayer
  inQueue,       \* sessions with m_inQueue set
  told,          \* queue position last sent to the client, 0 for none
  closed,        \* sessions whose socket is closed
  loading,       \* sessions with m_playerLoading set
  disconnects,   \* m_disconnects: time of the last disconnect, -1 for none
  now,
  limit,         \* m_playerLimit
  counted,       \* history: sessions admitted under the limit
  raised         \* history: the limit was raised while sessions waited

vars == <<phase, toUpdate, addSessQueue, sessions, queue, inQueue, told,
          closed, loading, disconnects, now, limit, counted, raised>>

Listed == {s \in Sessions : sessions[AccountOf[s]] = s}
Queued == ToSet(queue)

\* The size of m_sessions.
Total(m) == Cardinality({a \in Accounts : m[a] # NoSession})

\* GetActiveAndQueuedSessionCount and GetActiveSessionCount multiply by
\* RATE_ONLINE and truncate.
Scaled(n) == (n * RateNum) \div RateDen
Active == Scaled(Total(sessions) - Len(queue))

\* One more session would not be above a limit of n.
Room(n) == n = 0 \/ Scaled(Total(sessions) - Len(queue) + 1) <= n

TypeOK ==
  /\ phase \in {"idle", "adding", "updating"}
  /\ toUpdate \in SUBSET Accounts
  /\ addSessQueue \in Seq(Sessions)
  /\ sessions \in [Accounts -> Sessions \cup {NoSession}]
  /\ queue \in Seq(Sessions)
  /\ inQueue \in SUBSET Sessions
  /\ told \in [Sessions -> Nat]
  /\ closed \in SUBSET Sessions
  /\ loading \in SUBSET Sessions
  /\ disconnects \in [Accounts -> Int]
  /\ now \in 0..MaxTime
  /\ limit \in Limits
  /\ counted \in SUBSET Sessions
  /\ raised \in BOOLEAN

Init ==
  /\ phase = "idle"
  /\ toUpdate = {}
  /\ addSessQueue = <<>>
  /\ sessions = [a \in Accounts |-> NoSession]
  /\ queue = <<>>
  /\ inQueue = {}
  /\ told = [s \in Sessions |-> 0]
  /\ closed = {}
  /\ loading = {}
  /\ disconnects = [a \in Accounts |-> -1]
  /\ now = 0
  /\ limit \in Limits
  /\ counted = {}
  /\ raised = FALSE

-----------------------------------------------------------------------------
(* Socket threads and the administrator *)

\* WorldSocket::HandleAuthSession: a new session object is handed over.
AddSession(s) ==
  /\ s \notin Listed \cup ToSet(addSessQueue)
  /\ Len(addSessQueue) < MaxAdded
  /\ addSessQueue' = Append(addSessQueue, s)
  /\ inQueue' = inQueue \ {s}
  /\ closed' = closed \ {s}
  /\ loading' = loading \ {s}
  /\ told' = [told EXCEPT ![s] = 0]
  /\ UNCHANGED <<phase, toUpdate, sessions, queue, disconnects, now, limit,
                 counted, raised>>

\* The client goes away, or the world closes the socket (KickPlayer).
CloseSocket(s) ==
  /\ s \in (Listed \cup ToSet(addSessQueue)) \ closed
  /\ closed' = closed \cup {s}
  /\ UNCHANGED <<phase, toUpdate, addSessQueue, sessions, queue, inQueue, told,
                 loading, disconnects, now, limit, counted, raised>>

\* The "server plimit" command or a reload of the configuration.
SetPlayerAmountLimit(n) ==
  /\ phase # "adding"
  /\ limit # n
  /\ limit' = n
  /\ raised' = (queue # <<>> /\ Room(n))
  /\ UNCHANGED <<phase, toUpdate, addSessQueue, sessions, queue, inQueue, told,
                 closed, loading, disconnects, now, counted>>

\* A console command of the world thread, or one handled inside a session's
\* Update: the login queue is dropped and every socket closed; the sessions
\* themselves go in the next UpdateSessions.
KickAll ==
  /\ phase # "adding"
  /\ queue' = <<>>
  /\ closed' = closed \cup Listed
  /\ UNCHANGED <<phase, toUpdate, addSessQueue, sessions, inQueue, told,
                 loading, disconnects, now, limit, counted, raised>>

KickAllLess ==
  /\ phase # "adding"
  /\ closed' = closed \cup (Listed \ Bypass)
  /\ UNCHANGED <<phase, toUpdate, addSessQueue, sessions, queue, inQueue, told,
                 loading, disconnects, now, limit, counted, raised>>

-----------------------------------------------------------------------------
(* The login queue.  RemoveQueuedPlayer runs up to twice inside one handler, *)
(* so it is a function of the record of the queue, the flags and the         *)
(* positions the clients were told.                                          *)

QueueState == [queue |-> queue, inQueue |-> inQueue, told |-> told]

\* SendAuthWaitQue to the sessions from position k to the end.
SendPositions(q, told0, k) ==
  [s \in Sessions |->
     IF \E i \in k..Len(q) : q[i] = s
     THEN CHOOSE i \in k..Len(q) : q[i] = s ELSE told0[s]]

\* Mutant: the session stays in the queue.
Without_NotErased(q, sess) == q.queue

\* The queue once sess was searched and erased.
Without(q, sess) == RemoveFirst(q.queue, sess)

Found(q, sess) == sess \in ToSet(q.queue)

\* Mutant: a session that was not queued is not taken off the count.
CountLeft_NoDecrement(q, sess, n) == Scaled(n - Len(q.queue))

\* Active sessions that remain, with n sessions in m_sessions: one that was not
\* queued is itself active and leaves.
CountLeft(q, sess, n) ==
  LET active == Scaled(n - Len(q.queue))
  IN  IF ~Found(q, sess) /\ active > 0 THEN active - 1 ELSE active

\* Mutant: one session more than the limit.
Accepts_OffByOne(q, sess, n) ==
  /\ limit = 0 \/ CountLeft(q, sess, n) <= limit
  /\ Without(q, sess) # <<>>

\* Mutant: nobody is let in when a session leaves.
Accepts_Never(q, sess, n) == FALSE

\* Whether the first in the queue is accepted.
Accepts(q, sess, n) ==
  /\ limit = 0 \/ CountLeft(q, sess, n) < limit
  /\ Without(q, sess) # <<>>

\* Mutant: m_inQueue of the accepted session is not cleared.
Dequeued_KeepsFlag(q, sess, n) == IF Found(q, sess) THEN {sess} ELSE {}

\* Sessions whose m_inQueue is cleared.
Dequeued(q, sess, n) ==
  (IF Found(q, sess) THEN {sess} ELSE {}) \cup
  (IF Accepts(q, sess, n) THEN {Head(Without(q, sess))} ELSE {})

\* Mutant: the iterator is not moved back when the front was accepted.
NotifyFrom_NotReset(q, sess, n) ==
  SelectInSeq(Append(q.queue, sess), LAMBDA x : x = sess)

\* First position whose session is told a new one.
NotifyFrom(q, sess, n) ==
  IF Accepts(q, sess, n) THEN 1
  ELSE SelectInSeq(Append(q.queue, sess), LAMBDA x : x = sess)

\* World::RemoveQueuedPlayer(sess)
RemoveQueuedPlayer(q, sess, n) ==
  LET rest    == Without(q, sess)
      waiting == IF Accepts(q, sess, n) THEN Tail(rest) ELSE rest
      out     == Dequeued(q, sess, n)
  IN  [queue   |-> waiting,
       inQueue |-> q.inQueue \ out,
       told    |-> SendPositions(waiting,
                     [s \in Sessions |-> IF s \in out THEN 0 ELSE q.told[s]],
                     NotifyFrom(q, sess, n))]

\* World::AddQueuedPlayer
AddQueuedPlayer(q, sess) ==
  [queue   |-> Append(q.queue, sess),
   inQueue |-> q.inQueue \cup {sess},
   told    |-> [q.told EXCEPT ![sess] = Len(q.queue) + 1]]

SetQueueState(q) ==
  /\ queue' = q.queue
  /\ inQueue' = q.inQueue
  /\ told' = q.told

\* World::HasRecentlyDisconnected compares the stored time minus the present
\* one with the tolerance; entries that fail the comparison are erased.
Recent(a) == disconnects[a] # -1 /\ disconnects[a] - now < Tolerance
HasRecentlyDisconnected(s) == Tolerance # 0 /\ Recent(AccountOf[s])

-----------------------------------------------------------------------------
(* The world thread: World::UpdateSessions *)

\* Time passes between two calls; within one, time(NULL) is taken to be constant.
StartUpdate ==
  /\ phase = "idle"
  /\ phase' = "adding"
  /\ now' \in now..MaxTime
  /\ UNCHANGED <<toUpdate, addSessQueue, sessions, queue, inQueue, told,
                 closed, loading, disconnects, limit, counted, raised>>

\* Whether the uint32 count of sessions, less the one that logs in unless it
\* took the place of a queued one, reaches the limit; 0 - 1 wraps above it.
Reaches(count, decrease) ==
  IF decrease THEN count = 0 \/ count - 1 >= limit ELSE count >= limit

\* AddSession_ when the account's player is still loading: RemoveSession
\* refuses and the new session is closed and deleted.
AddSession_Refused ==
  /\ phase = "adding"
  /\ addSessQueue # <<>>
  /\ LET s == Head(addSessQueue)
         old == sessions[AccountOf[s]]
     IN  /\ old # NoSession /\ old \in loading
         /\ addSessQueue' = Tail(addSessQueue)
  /\ UNCHANGED <<phase, toUpdate, sessions, queue, inQueue, told, closed,
                 loading, disconnects, now, limit, counted, raised>>

\* AddSession_: an old session of the account is taken out of the login queue
\* and deleted, the new one listed, and then queued or let in.
AddSession_ ==
  /\ phase = "adding"
  /\ addSessQueue # <<>>
  /\ LET s        == Head(addSessQueue)
         a        == AccountOf[s]
         old      == sessions[a]
         replace  == old # NoSession
         wasQueued == replace /\ old \in Queued
         q        == IF replace
                     THEN RemoveQueuedPlayer(QueueState, old, Total(sessions))
                     ELSE QueueState
         listed   == [sessions EXCEPT ![a] = s]
         count    == Scaled(Total(listed))
         full     == limit > 0 /\ Reaches(count, ~wasQueued)
         free     == s \in Bypass \/ HasRecentlyDisconnected(s)
         admitted == (Queued \ ToSet(q.queue)) \ {old}
     IN  /\ old \notin loading
         /\ addSessQueue' = Tail(addSessQueue)
         /\ sessions' = listed
         /\ SetQueueState(IF full /\ ~free THEN AddQueuedPlayer(q, s) ELSE q)
         /\ counted' = ((counted \cup admitted) \ {old}) \cup
                       (IF full THEN {} ELSE {s})
         /\ closed' = closed \ {old}
         /\ loading' = loading \ {old}
         /\ disconnects' = IF full /\ s \notin Bypass /\ Tolerance # 0
                           THEN [x \in Accounts |->
                                   IF Recent(x) THEN disconnects[x] ELSE -1]
                           ELSE disconnects
         /\ raised' = (raised /\ (q.queue # <<>> \/ (full /\ ~free)))
  /\ UNCHANGED <<phase, toUpdate, now, limit>>

StartLoop ==
  /\ phase = "adding"
  /\ addSessQueue = <<>>
  /\ phase' = "updating"
  /\ toUpdate' = {a \in Accounts : sessions[a] # NoSession}
  /\ UNCHANGED <<addSessQueue, sessions, queue, inQueue, told, closed, loading,
                 disconnects, now, limit, counted, raised>>

\* WorldSession::Update of a session with an open socket.  A session that is
\* past the login queue may begin to load its player (CMSG_PLAYER_LOGIN), and
\* the load may complete.
UpdateSession(a) ==
  /\ phase = "updating"
  /\ a \in toUpdate
  /\ sessions[a] \notin closed
  /\ toUpdate' = toUpdate \ {a}
  /\ loading' \in {loading, loading \ {sessions[a]}} \cup
       (IF sessions[a] \in inQueue THEN {} ELSE {loading \cup {sessions[a]}})
  /\ UNCHANGED <<phase, addSessQueue, sessions, queue, inQueue, told, closed,
                 disconnects, now, limit, counted, raised>>

\* Update returns false once the socket is closed: the session leaves the
\* login queue or its disconnect is noted, RemoveQueuedPlayer is called a
\* second time, and the session is erased and deleted.
RemoveClosed(a) ==
  /\ phase = "updating"
  /\ a \in toUpdate
  /\ sessions[a] \in closed
  /\ toUpdate' = toUpdate \ {a}
  /\ LET s        == sessions[a]
         n        == Total(sessions)
         once     == RemoveQueuedPlayer(QueueState, s, n)
         twice    == RemoveQueuedPlayer(once, s, n)
         admitted == (Queued \ ToSet(twice.queue)) \ {s}
     IN  /\ SetQueueState(twice)
         /\ counted' = (counted \cup admitted) \ {s}
         /\ disconnects' = IF s \notin Queued /\ Tolerance # 0
                           THEN [disconnects EXCEPT ![a] = now]
                           ELSE disconnects
         /\ sessions' = [sessions EXCEPT ![a] = NoSession]
         /\ closed' = closed \ {s}
         /\ loading' = loading \ {s}
         /\ raised' = (raised /\ twice.queue # <<>>)
  /\ UNCHANGED <<phase, addSessQueue, now, limit>>

EndUpdate ==
  /\ phase = "updating"
  /\ toUpdate = {}
  /\ phase' = "idle"
  /\ UNCHANGED <<toUpdate, addSessQueue, sessions, queue, inQueue, told, closed,
                 loading, disconnects, now, limit, counted, raised>>

Next ==
  \/ \E s \in Sessions : AddSession(s) \/ CloseSocket(s)
  \/ \E n \in Limits : SetPlayerAmountLimit(n)
  \/ KickAll
  \/ KickAllLess
  \/ StartUpdate
  \/ AddSession_Refused
  \/ AddSession_
  \/ StartLoop
  \/ \E a \in Accounts : UpdateSession(a) \/ RemoveClosed(a)
  \/ EndUpdate

Spec == Init /\ [][Next]_vars

-----------------------------------------------------------------------------
(* Properties *)

\* m_QueuedPlayer holds each waiting session once, and no pointer to a session
\* that was deleted or replaced: AddSession_ and UpdateSessions delete sessions
\* only after RemoveQueuedPlayer took them out.
NoDanglingQueueEntry ==
  /\ Queued \subseteq Listed
  /\ Len(queue) = Cardinality(Queued)

\* A session with m_inQueue set and an open socket is in m_QueuedPlayer.
\* Otherwise its client would wait for ever: it may not log in, and
\* IsConnectionIdle never kicks a session that has the flag.
NobodyStranded == (inQueue \cap Listed) \ closed \subseteq Queued

\* Every waiting client was last told its present position, although
\* RemoveQueuedPlayer only notifies a part of the queue.
PositionsKnown == \A i \in DOMAIN queue : told[queue[i]] = i

\* Sessions wait only while one more, counted at Rate.Online, would be above the
\* limit, unless the administrator raised the limit under them
\* (SetPlayerAmountLimit admits nobody): no departure, reconnection or kick
\* leaves a place free that RemoveQueuedPlayer did not give away.
WorkConserving == queue # <<>> /\ Room(limit) => raised

\* Sessions wait only while the active ones reach the limit.
NoIdlePlace == queue # <<>> /\ (limit = 0 \/ limit > Active) => raised

\* Letting a session in under the limit, directly or from the queue, never
\* brings the sessions counted against the limit above it, although a departure
\* runs RemoveQueuedPlayer twice.
AdmissionWithinLimit ==
  [][counted' \ counted # {} => limit' = 0 \/ Cardinality(counted') <= limit']_vars

\* A session without a privilege is never let in past sessions that already
\* wait, unless the limit was raised under them.
NoOvertaking ==
  [][(\E s \in ToSet(addSessQueue) : s \in counted' \ counted) =>
       queue' = <<>> \/ raised]_vars

\* The disconnect tolerance lets a session past the full server only when its
\* account disconnected within the last DisconnectToleranceInterval seconds.
ToleranceExpires ==
  [][\A s \in Sessions \ Bypass :
       /\ s \in ToSet(addSessQueue) /\ sessions'[AccountOf[s]] = s
       /\ s \notin counted' \cup inQueue'
       => now - disconnects[AccountOf[s]] <= Tolerance]_vars

=============================================================================
