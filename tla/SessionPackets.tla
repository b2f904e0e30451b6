-------------------------- MODULE SessionPackets ---------------------------
(***************************************************************************)
(* One WorldSession: the queue of received packets, which a socket thread  *)
(* fills, and WorldSession::Update, which empties it twice in every tick,  *)
(* in the world thread with WorldSessionFilter and in a map thread with    *)
(* MapSessionFilter.  The packets, and the answer of the database to a     *)
(* login, change the state of the player that the filters and the loop     *)
(* look at.  The two calls of Update never overlap (module MapUpdater).    *)
(***************************************************************************)
EXTENDS Naturals, Sequences

CONSTANTS
  Kinds,       \* kinds of packets the client sends
  MaxPackets   \* bound on the number of packets received

\* Status and ProcessingPlace in the opcode table, for a representative of each
\* combination that Update tells apart.
Status ==
  [charEnum |-> "authed", login |-> "authed", move |-> "loggedin",
   leaveBg |-> "loggedin", chat |-> "loggedin", logout |-> "loggedin",
   cancelTrade |-> "recently", worldportAck |-> "transfer", unused |-> "never"]
Place ==
  [charEnum |-> "unsafe", login |-> "unsafe", move |-> "safe",
   leaveBg |-> "inplace", chat |-> "unsafe", logout |-> "unsafe",
   cancelTrade |-> "unsafe", worldportAck |-> "unsafe", unused |-> "inplace"]

ASSUME SessionPacketsAssumption ==
  Kinds \subseteq DOMAIN Status /\ MaxPackets \in Nat

VARIABLES
  phase,     \* "idle", "world" and "map" inside Update, "between", "removed"
  recvQueue, \* _recvQueue
  received,  \* packets received so far; packet n is the n-th
  player,    \* _player: "none", "world", or "transfer" when not in world
  loading,   \* m_playerLoading
  login,     \* _charLoginCallback: "none", "pending", "ready"
  recent,    \* m_playerRecentlyLogout
  inQueue,   \* m_inQueue
  leaving,   \* _logoutTime is set
  socket,    \* m_Socket: "open" or "closed"
  first,     \* firstDelayedPacket, 0 for NULL
  del,       \* deletePacket
  deleted    \* history: packets deleted

sessionVars == <<phase, recvQueue, received, player, loading, login, recent, inQueue,
                 leaving, socket, first, del, deleted>>
session == <<player, loading, login, recent, inQueue, leaving, socket>>

Packet == [id : 1..MaxPackets, kind : Kinds]
Waiting == {recvQueue[i].id : i \in DOMAIN recvQueue}

SessionTypeOK ==
  /\ phase \in {"idle", "world", "between", "map", "removed"}
  /\ recvQueue \in Seq(Packet)
  /\ received \in 0..MaxPackets
  /\ player \in {"none", "world", "transfer"}
  /\ login \in {"none", "pending", "ready"}
  /\ socket \in {"open", "closed"}
  /\ first \in 0..MaxPackets
  /\ loading \in BOOLEAN /\ recent \in BOOLEAN /\ inQueue \in BOOLEAN
  /\ leaving \in BOOLEAN /\ del \in BOOLEAN
  /\ deleted \in SUBSET (1..MaxPackets)

\* A session just added by World::AddSession_, queued or not.
SessionInit ==
  /\ phase = "idle"
  /\ recvQueue = <<>>
  /\ received = 0
  /\ player = "none"
  /\ loading = FALSE
  /\ login = "none"
  /\ recent = FALSE
  /\ inQueue \in BOOLEAN
  /\ leaving = FALSE
  /\ socket = "open"
  /\ first = 0
  /\ del = TRUE
  /\ deleted = {}

-----------------------------------------------------------------------------
(* Socket threads, database threads, and the rest of the world *)

\* WorldSocket::ProcessIncoming
QueuePacket(k) ==
  /\ socket = "open" /\ phase # "removed"
  /\ received < MaxPackets
  /\ received' = received + 1
  /\ recvQueue' = Append(recvQueue, [id |-> received + 1, kind |-> k])
  /\ UNCHANGED <<phase, session, first, del, deleted>>

CloseSocket ==
  /\ socket = "open" /\ phase # "removed"
  /\ socket' = "closed"
  /\ UNCHANGED <<phase, recvQueue, received, player, loading, login, recent,
                 inQueue, leaving, first, del, deleted>>

\* The queries of the LoginQueryHolder are answered.
LoginQueriesDone ==
  /\ login = "pending" /\ phase # "removed"
  /\ login' = "ready"
  /\ UNCHANGED <<phase, recvQueue, received, player, loading, recent, inQueue,
                 leaving, socket, first, del, deleted>>

\* World::RemoveQueuedPlayer accepts the session.
PassQueue ==
  /\ inQueue /\ phase \in {"idle", "between"}
  /\ inQueue' = FALSE
  /\ UNCHANGED <<phase, recvQueue, received, player, loading, login, recent,
                 leaving, socket, first, del, deleted>>

\* Something other than a packet of this session teleports the player far.
TeleportFar ==
  /\ player = "world" /\ phase \in {"idle", "between"}
  /\ player' = "transfer"
  /\ UNCHANGED <<phase, recvQueue, received, loading, login, recent, inQueue,
                 leaving, socket, first, del, deleted>>

-----------------------------------------------------------------------------
(* WorldSession::Update *)

Start(p) == phase' = p /\ first' = 0 /\ del' = TRUE

StartWorldUpdate ==
  /\ phase = "idle"
  /\ Start("world")
  /\ UNCHANGED <<recvQueue, received, session, deleted>>

\* Map::Update reaches the session only while its player is in world.
StartMapUpdate ==
  /\ phase = "between"
  /\ player = "world"
  /\ Start("map")
  /\ UNCHANGED <<recvQueue, received, session, deleted>>

\* The maps are not updated in this tick, or the player is in none.
SkipMapUpdate ==
  /\ phase = "between"
  /\ phase' = "idle"
  /\ UNCHANGED <<recvQueue, received, session, first, del, deleted>>

\* MapSessionFilter::Process
MapSessionFilter(k) ==
  Place[k] = "inplace" \/ (Place[k] = "safe" /\ player = "world")

\* Mutant: packets of a player in world are all left to the map.
WorldSessionFilter_NotInWorld(k) == Place[k] = "inplace" \/ player # "world"

\* WorldSessionFilter::Process
WorldSessionFilter(k) == Place[k] \in {"inplace", "unsafe"} \/ player # "world"

\* The condition of the loop.
More ==
  /\ socket = "open"
  /\ recvQueue # <<>>
  /\ Head(recvQueue).id # first
  /\ IF phase = "map" THEN MapSessionFilter(Head(recvQueue).kind)
     ELSE WorldSessionFilter(Head(recvQueue).kind)

\* A packet that comes before the player is in world.
Delayed(k) == Status[k] = "loggedin" /\ player = "none" /\ ~recent

\* Whether the handler is called.
Handled(k) ==
  CASE Status[k] = "loggedin" -> player = "world"
    [] Status[k] = "recently" -> player # "none" \/ recent
    [] Status[k] = "transfer" -> player = "transfer"
    [] Status[k] = "authed"   -> ~inQueue
    [] OTHER                  -> FALSE

\* Mutant: packets are requeued over and over.
Reenqueue_NoMark ==
  /\ phase \in {"world", "map"} /\ More /\ Delayed(Head(recvQueue).kind)
  /\ recvQueue' = Append(Tail(recvQueue), Head(recvQueue))
  /\ del' = FALSE
  /\ UNCHANGED <<phase, received, session, first, deleted>>

\* Mutant: the requeued packet is deleted.
Reenqueue_Deletes ==
  /\ phase \in {"world", "map"} /\ More /\ Delayed(Head(recvQueue).kind)
  /\ recvQueue' = Append(Tail(recvQueue), Head(recvQueue))
  /\ first' = IF first = 0 THEN Head(recvQueue).id ELSE first
  /\ deleted' = deleted \cup {Head(recvQueue).id}
  /\ UNCHANGED <<phase, received, session, del>>

\* The packet goes to the end of the queue.
Reenqueue ==
  /\ phase \in {"world", "map"} /\ More /\ Delayed(Head(recvQueue).kind)
  /\ recvQueue' = Append(Tail(recvQueue), Head(recvQueue))
  /\ first' = IF first = 0 THEN Head(recvQueue).id ELSE first
  /\ del' = FALSE
  /\ UNCHANGED <<phase, received, session, deleted>>

\* The packet leaves the queue and is deleted if deletePacket still says so.
Consume(k) ==
  /\ phase \in {"world", "map"} /\ More /\ Head(recvQueue).kind = k
  /\ ~Delayed(k)
  /\ recvQueue' = Tail(recvQueue)
  /\ deleted' = IF del THEN deleted \cup {Head(recvQueue).id} ELSE deleted
  /\ UNCHANGED <<phase, received, first, del>>

\* Mutant: the logout request is not reset.
LoggedOut_KeepsRequest == player' = "none" /\ recent' = TRUE /\ UNCHANGED leaving

\* LogoutPlayer
LoggedOut == player' = "none" /\ recent' = TRUE /\ leaving' = FALSE

\* Packets that are ignored, or whose handler does not matter here.
Other(k) ==
  /\ ~Handled(k) \/ k \in {"move", "leaveBg", "chat", "cancelTrade"}
  /\ Consume(k)
  /\ UNCHANGED session

\* Handlers such as HandleBattlefieldLeaveOpcode, or a command in the chat, may
\* teleport the player far.
Transfer(k) ==
  /\ k \in {"leaveBg", "chat"}
  /\ Handled(k) /\ Consume(k)
  /\ player' = "transfer"
  /\ UNCHANGED <<loading, login, recent, inQueue, leaving, socket>>

CharEnum ==
  /\ Handled("charEnum") /\ Consume("charEnum")
  /\ recent' = FALSE
  /\ UNCHANGED <<player, loading, login, inQueue, leaving, socket>>

\* Mutant: a second login is not refused.
HandlePlayerLogin_Again ==
  /\ Handled("login") /\ Consume("login")
  /\ loading' = TRUE /\ login' = "pending" /\ socket' = socket
  /\ UNCHANGED <<player, recent, inQueue, leaving>>

\* HandlePlayerLoginOpcode: refused while a player is there or being loaded.  A
\* packet too short to hold the GUID is dropped (ByteBufferException) and a
\* character of another account gets the client kicked, both with
\* m_playerLoading still set; otherwise the queries are sent, if they can be
\* built.
HandlePlayerLogin ==
  /\ Handled("login") /\ Consume("login")
  /\ IF loading \/ player # "none"
     THEN UNCHANGED <<loading, login, socket>>
     ELSE \/ loading' = TRUE /\ UNCHANGED <<login, socket>>
          \/ loading' = TRUE /\ socket' = "closed" /\ UNCHANGED login
          \/ UNCHANGED <<loading, login, socket>>
          \/ loading' = TRUE /\ login' = "pending" /\ UNCHANGED socket
  /\ UNCHANGED <<player, recent, inQueue, leaving>>

\* HandleLogoutRequestOpcode: refused, at once, or after 20 seconds.
HandleLogoutRequest ==
  /\ Handled("logout") /\ Consume("logout")
  /\ \/ leaving' \in BOOLEAN /\ UNCHANGED <<player, recent>>
     \/ LoggedOut
  /\ UNCHANGED <<loading, login, inQueue, socket>>

\* HandleMoveWorldportAckOpcode: into the new map, sent on to the homebind, or
\* logged out because the coordinates are not valid.
HandleMoveWorldportAck ==
  /\ Handled("worldportAck") /\ Consume("worldportAck")
  /\ \/ player' \in {"world", "transfer"} /\ UNCHANGED <<recent, leaving>>
     \/ LoggedOut
  /\ UNCHANGED <<loading, login, inQueue, socket>>

Process ==
  \/ Reenqueue
  \/ \E k \in Kinds : Other(k) \/ Transfer(k)
  \/ CharEnum
  \/ HandlePlayerLogin
  \/ HandleLogoutRequest
  \/ HandleMoveWorldportAck

\* HandlePlayerLogin, called by ProcessQueryCallbacks once the loop ended: the
\* player is in world, or on its way to another map, or could not be loaded.
PlayerLoaded ==
  /\ phase \in {"world", "map"} /\ ~More
  /\ login = "ready"
  /\ login' = "none"
  /\ loading' = FALSE
  /\ \/ player' \in {"world", "transfer"} /\ UNCHANGED socket
     \/ player' = "none" /\ socket' = "closed"
  /\ UNCHANGED <<phase, recvQueue, received, recent, inQueue, leaving, first,
                 del, deleted>>

EndMapUpdate ==
  /\ phase = "map" /\ ~More /\ login # "ready"
  /\ phase' = "idle"
  /\ UNCHANGED <<recvQueue, received, session, first, del, deleted>>

\* The rest of Update in the world thread, with 20 seconds passed since the
\* logout request or not.
EndWorldUpdate ==
  /\ phase = "world" /\ ~More /\ login # "ready" /\ socket = "open"
  /\ phase' = "between"
  /\ \/ leaving /\ ~loading /\ LoggedOut
     \/ UNCHANGED <<player, recent, leaving>>
  /\ UNCHANGED <<recvQueue, received, loading, login, inQueue, socket, first,
                 del, deleted>>

\* Update returns false and the session is deleted: the destructor logs the
\* player out and deletes the packets that are left.
Remove ==
  /\ phase = "world" /\ ~More /\ login # "ready" /\ socket = "closed"
  /\ phase' = "removed"
  /\ IF player # "none" THEN LoggedOut ELSE UNCHANGED <<player, recent, leaving>>
  /\ recvQueue' = <<>>
  /\ deleted' = deleted \cup Waiting
  /\ UNCHANGED <<received, loading, login, inQueue, socket, first, del>>

WorldUpdate ==
  phase = "world" /\ (Process \/ PlayerLoaded \/ EndWorldUpdate \/ Remove)
MapUpdate == phase = "map" /\ (Process \/ PlayerLoaded \/ EndMapUpdate)

SessionNext ==
  \/ \E k \in Kinds : QueuePacket(k)
  \/ CloseSocket
  \/ LoginQueriesDone
  \/ PassQueue
  \/ TeleportFar
  \/ StartWorldUpdate
  \/ WorldUpdate
  \/ StartMapUpdate
  \/ SkipMapUpdate
  \/ MapUpdate
  \/ phase = "removed" /\ UNCHANGED sessionVars

\* The world loop goes on, and again and again it comes to update the maps.
SessionFairness ==
  /\ WF_sessionVars(StartWorldUpdate) /\ WF_sessionVars(WorldUpdate)
  /\ SF_sessionVars(StartMapUpdate) /\ WF_sessionVars(SkipMapUpdate) /\ WF_sessionVars(MapUpdate)

SessionSpec == SessionInit /\ [][SessionNext]_sessionVars /\ SessionFairness

-----------------------------------------------------------------------------
(* Properties *)

\* A packet in the queue was not deleted and is in it once, although packets go
\* round the queue: Update never reads a packet after delete, nor deletes it
\* twice.
NoUseAfterDelete ==
  /\ Waiting \cap deleted = {}
  /\ \A i, j \in DOMAIN recvQueue : recvQueue[i].id = recvQueue[j].id => i = j

\* A session has at most one player: no login is under way for a session that
\* has a player.
OnePlayer == login # "none" => player = "none" /\ loading

\* LogoutPlayer, which dereferences _player at once, is never called by the
\* timer of a logout request that outlived its player.
NoStaleLogoutRequest == leaving => player # "none"

\* Update comes to an end even while packets are requeued.
UpdateTerminates == phase \in {"world", "map"} ~> phase \notin {"world", "map"}

\* With the player in world no packet blocks the queue for ever, although each
\* thread stops at the first packet that belongs to the other one.
NoHeadOfLineBlocking ==
  \A n \in 1..MaxPackets :
    n \in Waiting ~> (n \notin Waiting \/ player # "world")

\* Every packet that left the queue was deleted.
EveryPacketDeleted ==
  phase = "idle" => Waiting \cup deleted = 1..received

=============================================================================
