--------------------------- MODULE WorldShutdown ----------------------------
(***************************************************************************)
(* How the world stops: the shutdown timer of World (ShutdownServ,         *)
(* ShutdownCancel, _UpdateGameTime, ShutdownMsg), the stop event, and the  *)
(* tail of WorldRunnable::run that kicks and saves every player.           *)
(*                                                                         *)
(* A player in the world is saved by WorldSession::LogoutPlayer, which the *)
(* world thread reaches only through UpdateSessions.                       *)
(***************************************************************************)
EXTENDS Naturals, FiniteSets

CONSTANTS
  Players,
  RateNum,      \* Rate.Online is RateNum / RateDen: 1.47 unless configured
  RateDen,
  Times,        \* arguments of the shutdown commands, in seconds
  MaxTimer,     \* the largest of them
  MaxElapsed,   \* bound on the seconds between two world updates
  MaxCommands   \* bound on the number of shutdown commands

ASSUME WorldShutdownAssumption ==
  /\ IsFiniteSet(Players)
  /\ RateNum \in Nat \ {0} /\ RateDen \in Nat \ {0}
  /\ MaxTimer \in Nat \ {0} /\ Times \subseteq 0..MaxTimer
  /\ MaxElapsed \in Nat \ {0} /\ MaxCommands \in Nat

VARIABLES
  pc,        \* the world thread: a step of World::Update, or of run's tail
  timer,     \* m_ShutdownTimer
  idle,      \* m_ShutdownMask has SHUTDOWN_MASK_IDLE
  stop,      \* m_stopEvent: "no", or set by "shutdown" or by StopNow ("now")
  session,   \* per account: "none", "new" until the UpdateSessions that added it
             \* has ended, "lobby", or "world" with a player to save
  closed,    \* accounts whose socket is closed
  asked,     \* history: a shutdown was asked for and not cancelled since
  commands   \* bound

vars == <<pc, timer, idle, stop, session, closed, asked, commands>>

InWorld == {p \in Players : session[p] = "world"}
Connected == {p \in Players : session[p] # "none"}
Stopped == stop # "no"

TypeOK ==
  /\ pc \in {"gametime", "sessions", "commands", "kick", "lastUpdate",
             "stopped", "crashed"}
  /\ timer \in 0..MaxTimer
  /\ idle \in BOOLEAN
  /\ stop \in {"no", "shutdown", "now"}
  /\ session \in [Players -> {"none", "new", "lobby", "world"}]
  /\ closed \in SUBSET Players
  /\ asked \in BOOLEAN
  /\ commands \in 0..MaxCommands

Init ==
  /\ pc = "gametime"
  /\ timer = 0
  /\ idle = FALSE
  /\ stop = "no"
  /\ session = [p \in Players |-> "none"]
  /\ closed = {}
  /\ asked = FALSE
  /\ commands = 0

-----------------------------------------------------------------------------
(* Clients *)

Running == pc \notin {"stopped", "crashed"}

\* UpdateSessions adds a session, in the very last call too.
Connect(p) ==
  /\ pc \in {"sessions", "lastUpdate"}
  /\ session[p] = "none"
  /\ session' = [session EXCEPT ![p] = "new"]
  /\ UNCHANGED <<pc, timer, idle, stop, closed, asked, commands>>

\* A login is refused until the answer to CMSG_CHAR_ENUM was processed, which is
\* after the packets of the same call: entering takes at least one more call.
EnterWorld(p) ==
  /\ pc = "sessions"
  /\ session[p] = "lobby" /\ p \notin closed
  /\ session' = [session EXCEPT ![p] = "world"]
  /\ UNCHANGED <<pc, timer, idle, stop, closed, asked, commands>>

\* A socket thread sees the connection go.
Disconnect(p) ==
  /\ Running
  /\ p \in Connected \ closed
  /\ closed' = closed \cup {p}
  /\ UNCHANGED <<pc, timer, idle, stop, session, asked, commands>>

-----------------------------------------------------------------------------
(* Steps of World::Update *)

\* ShutdownMsg when the countdown is not for idle mode and stands at 2: KickAll
\* closes the sockets, then ASSERT(false) ends the process.
ShutdownMsgAborts(t, idleMode) == ~idleMode /\ t = 2

\* Mutant: an idle shutdown does not wait for the sessions to leave.
StopsNow_IgnoresIdle(idleMode) == TRUE

\* GetActiveAndQueuedSessionCount: the sessions times RATE_ONLINE, truncated.
SessionCount == (Cardinality(Connected) * RateNum) \div RateDen

\* The stop event is set unless the shutdown is an idle one and sessions remain.
StopsNow(idleMode) == ~idleMode \/ SessionCount = 0

\* Mutant: the countdown never goes down.
Countdown_Stuck(e) == timer

\* m_ShutdownTimer -= elapsed
Countdown(e) == timer - e

\* World::_UpdateGameTime with e seconds since the last update.
UpdateGameTime(e) ==
  LET running == ~Stopped /\ timer > 0 /\ e > 0
      overdue == running /\ timer <= e
      left    == Countdown(e)
      aborts  == running /\ ~overdue /\ ShutdownMsgAborts(left, idle)
  IN
  /\ pc = "gametime"
  /\ pc' = IF aborts THEN "crashed" ELSE "sessions"
  /\ stop' = IF overdue /\ StopsNow(idle) THEN "shutdown" ELSE stop
  /\ timer' = IF overdue THEN (IF StopsNow(idle) THEN timer ELSE 1)
              ELSE IF running THEN left ELSE timer
  /\ closed' = IF aborts THEN Connected ELSE closed
  /\ UNCHANGED <<idle, session, asked, commands>>

\* LogoutPlayer(true) for every session whose socket is closed, and its removal.
RemoveClosed ==
  /\ session' = [p \in Players |-> IF p \in closed THEN "none"
                                  ELSE IF session[p] = "new" THEN "lobby"
                                  ELSE session[p]]
  /\ closed' = {}

UpdateSessions ==
  /\ pc = "sessions"
  /\ pc' = "commands"
  /\ RemoveClosed
  /\ UNCHANGED <<timer, idle, stop, asked, commands>>

\* World::ShutdownServ, from AutoRestartServer, the command of a game master
\* handled in UpdateSessions, or the console.
ShutdownServ(t, idleMode) ==
  /\ pc \in {"sessions", "commands"}
  /\ commands < MaxCommands
  /\ ~Stopped
  /\ commands' = commands + 1
  /\ asked' = TRUE
  /\ idle' = idleMode
  /\ stop' = IF t = 0 /\ StopsNow(idleMode) THEN "shutdown" ELSE stop
  /\ timer' = IF t > 0 THEN t ELSE IF StopsNow(idleMode) THEN timer ELSE 1
  /\ IF t > 0 /\ ShutdownMsgAborts(t, idleMode)
     THEN pc' = "crashed" /\ closed' = Connected
     ELSE UNCHANGED <<pc, closed>>
  /\ UNCHANGED session

\* Mutant: only the message is sent.
ShutdownCancel_KeepsTimer ==
  /\ pc \in {"sessions", "commands"}
  /\ commands < MaxCommands
  /\ timer # 0 /\ ~Stopped
  /\ commands' = commands + 1
  /\ idle' = FALSE
  /\ asked' = FALSE
  /\ UNCHANGED <<pc, timer, stop, session, closed>>

\* World::ShutdownCancel
ShutdownCancel ==
  /\ pc \in {"sessions", "commands"}
  /\ commands < MaxCommands
  /\ timer # 0 /\ ~Stopped
  /\ commands' = commands + 1
  /\ timer' = 0
  /\ idle' = FALSE
  /\ asked' = FALSE
  /\ UNCHANGED <<pc, stop, session, closed>>

\* World::StopNow: a signal handler, or an id generator that ran out.
StopNow ==
  /\ Running /\ ~Stopped
  /\ stop' = "now"
  /\ UNCHANGED <<pc, timer, idle, session, closed, asked, commands>>

-----------------------------------------------------------------------------
(* WorldRunnable::run *)

EndOfUpdate ==
  /\ pc = "commands"
  /\ pc' = IF Stopped THEN "kick" ELSE "gametime"
  /\ UNCHANGED <<timer, idle, stop, session, closed, asked, commands>>

\* Mutant: the sockets are closed only after the last UpdateSessions.
FinalKickAll_Late ==
  /\ pc = "kick"
  /\ pc' = "lastUpdate"
  /\ UNCHANGED <<timer, idle, stop, session, closed, asked, commands>>

FinalKickAll ==
  /\ pc = "kick"
  /\ pc' = "lastUpdate"
  /\ closed' = Connected
  /\ UNCHANGED <<timer, idle, stop, session, asked, commands>>

FinalUpdateSessions ==
  /\ pc = "lastUpdate"
  /\ pc' = "stopped"
  /\ RemoveClosed
  /\ UNCHANGED <<timer, idle, stop, asked, commands>>

WorldThread ==
  \/ \E e \in 0..MaxElapsed : UpdateGameTime(e)
  \/ UpdateSessions
  \/ EndOfUpdate
  \/ FinalKickAll
  \/ FinalUpdateSessions

Next ==
  \/ \E p \in Players : Connect(p) \/ EnterWorld(p) \/ Disconnect(p)
  \/ WorldThread
  \/ \E t \in Times, m \in BOOLEAN : ShutdownServ(t, m)
  \/ ShutdownCancel
  \/ StopNow
  \/ ~Running /\ UNCHANGED vars

\* The world thread keeps looping, and the clock advances between some of its
\* updates: time(NULL) is read in every one.
Fairness ==
  /\ WF_vars(WorldThread)
  /\ SF_vars(\E e \in 1..MaxElapsed : UpdateGameTime(e))

Spec == Init /\ [][Next]_vars /\ Fairness

-----------------------------------------------------------------------------
(* Properties *)

\* When WorldRunnable::run returns, no player is left in the world unsaved,
\* whoever connected or disconnected while the stop event was set.
CleanStopSaves == pc = "stopped" => InWorld = {}

\* A shutdown in idle mode throws nobody out of the world: from the moment it sets
\* the stop event until the process ends no player is in the world, although
\* clients still connect in the two calls of UpdateSessions that follow.
IdleShutdownSparesPlayers == stop = "shutdown" /\ idle => InWorld = {}

\* After ShutdownCancel the server does not go down, unless it is asked again:
\* no earlier countdown survives the cancellation.
CancelIsFinal == stop = "shutdown" => asked

\* A shutdown that does not wait for idleness happens unless it is cancelled
\* or replaced.
ShutdownHappens ==
  (asked /\ timer > 0 /\ ~idle) ~> (Stopped \/ ~Running \/ ~asked \/ idle)

\* However the process ends by a shutdown command, players are saved first.
PlayersSavedAtExit == ~Running => InWorld = {}

=============================================================================
