------------------------ MODULE WorldShutdownProofs -------------------------
(***************************************************************************)
(* Proofs about WorldShutdown for any number of players, any shutdown      *)
(* times and any number of commands.                                       *)
(***************************************************************************)
EXTENDS WorldShutdown, FiniteSetTheorems, TLAPS

\* The state of the shutdown keeps its type; in particular m_ShutdownTimer, an
\* unsigned number, never goes below zero or above the largest argument.
THEOREM TypeCorrect == Spec => []TypeOK
<1>1. Init => TypeOK
  <2>1. 0 \in 0..MaxTimer /\ 0 \in 0..MaxCommands
    BY WorldShutdownAssumption
  <2> QED
    BY <2>1, Zenon DEF Init, TypeOK
<1>2. TypeOK /\ [Next]_vars => TypeOK'
  <2> SUFFICES ASSUME TypeOK, [Next]_vars PROVE TypeOK'
    OBVIOUS
  <2> USE DEF TypeOK
  <2>1. ASSUME NEW p \in Players, Connect(p) \/ EnterWorld(p) \/ Disconnect(p)
        PROVE  TypeOK'
    BY <2>1 DEF Connect, EnterWorld, Disconnect
  <2>2. ASSUME NEW e \in 0..MaxElapsed, UpdateGameTime(e)
        PROVE  TypeOK'
    BY <2>2, WorldShutdownAssumption DEF UpdateGameTime, Countdown, Connected
  <2>3. CASE UpdateSessions \/ FinalUpdateSessions
    BY <2>3 DEF UpdateSessions, FinalUpdateSessions, RemoveClosed
  <2>4. CASE EndOfUpdate \/ FinalKickAll
    BY <2>4 DEF EndOfUpdate, FinalKickAll, Connected
  <2>5. ASSUME NEW t \in Times, NEW m \in BOOLEAN, ShutdownServ(t, m)
        PROVE  TypeOK'
    BY <2>5, WorldShutdownAssumption DEF ShutdownServ, Connected
  <2>6. CASE ShutdownCancel \/ StopNow
    <3>1. 0 \in 0..MaxTimer
      BY WorldShutdownAssumption
    <3>2. ASSUME commands < MaxCommands PROVE commands + 1 \in 0..MaxCommands
      BY <3>2, WorldShutdownAssumption
    <3> QED
      BY <2>6, <3>1, <3>2, Zenon DEF ShutdownCancel, StopNow
  <2>7. CASE UNCHANGED vars
    BY <2>7 DEF vars
  <2> QED
    BY <2>1, <2>2, <2>3, <2>4, <2>5, <2>6, <2>7 DEF Next, WorldThread
<1> QED
  BY <1>1, <1>2, PTL DEF Spec

-----------------------------------------------------------------------------

\* CancelIsFinal speaks of the moment the stop event is set; until then only
\* the timer remembers that a shutdown was asked for.
CancelInv == CancelIsFinal /\ (timer # 0 => asked)

\* A cancelled shutdown never takes place: no countdown survives
\* ShutdownCancel, however the commands and the updates alternate.
THEOREM CancelledIsCancelled == Spec => []CancelIsFinal
<1>1. Init => CancelInv
  BY DEF Init, CancelInv, CancelIsFinal
<1>2. CancelInv /\ [Next]_vars => CancelInv'
  <2> SUFFICES ASSUME CancelInv, [Next]_vars PROVE CancelInv'
    OBVIOUS
  <2> USE DEF CancelInv, CancelIsFinal
  <2>1. ASSUME NEW p \in Players, Connect(p) \/ EnterWorld(p) \/ Disconnect(p)
        PROVE  CancelInv'
    BY <2>1 DEF Connect, EnterWorld, Disconnect
  <2>2. ASSUME NEW e \in 0..MaxElapsed, UpdateGameTime(e)
        PROVE  CancelInv'
    BY <2>2 DEF UpdateGameTime
  <2>3. CASE UpdateSessions \/ FinalUpdateSessions \/ EndOfUpdate \/ FinalKickAll
    BY <2>3 DEF UpdateSessions, FinalUpdateSessions, EndOfUpdate, FinalKickAll
  <2>4. ASSUME NEW t \in Times, NEW m \in BOOLEAN, ShutdownServ(t, m)
        PROVE  CancelInv'
    BY <2>4 DEF ShutdownServ
  <2>5. CASE ShutdownCancel \/ StopNow
    BY <2>5 DEF ShutdownCancel, StopNow, Stopped
  <2>6. CASE UNCHANGED vars
    BY <2>6 DEF vars
  <2> QED
    BY <2>1, <2>2, <2>3, <2>4, <2>5, <2>6 DEF Next, WorldThread
<1>3. CancelInv => CancelIsFinal
  BY DEF CancelInv
<1> QED
  BY <1>1, <1>2, <1>3, PTL DEF Spec

-----------------------------------------------------------------------------

\* Before the last UpdateSessions every player in the world has had its socket
\* closed by KickAll; sessions that are added in between have no player.
SaveInv ==
  /\ CleanStopSaves
  /\ pc = "lastUpdate" => InWorld \subseteq closed

\* When WorldRunnable::run returns every player was saved, for any number of
\* players and whatever their sockets do meanwhile.
THEOREM StopSavesEverybody == Spec => []CleanStopSaves
<1>1. Init => SaveInv
  BY DEF Init, SaveInv, CleanStopSaves
<1>2. TypeOK /\ SaveInv /\ [Next]_vars => SaveInv'
  <2> SUFFICES ASSUME TypeOK, SaveInv, [Next]_vars PROVE SaveInv'
    OBVIOUS
  <2> USE DEF SaveInv, CleanStopSaves, InWorld
  <2>1. ASSUME NEW p \in Players, Connect(p) PROVE SaveInv'
    BY <2>1 DEF Connect, TypeOK
  <2>2. ASSUME NEW p \in Players, EnterWorld(p) \/ Disconnect(p) PROVE SaveInv'
    BY <2>2 DEF EnterWorld, Disconnect, Running
  <2>3. ASSUME NEW e \in 0..MaxElapsed, UpdateGameTime(e) PROVE SaveInv'
    BY <2>3 DEF UpdateGameTime
  <2>4. CASE UpdateSessions \/ EndOfUpdate
    BY <2>4 DEF UpdateSessions, EndOfUpdate
  <2>5. CASE FinalKickAll
    BY <2>5 DEF FinalKickAll, Connected
  <2>6. CASE FinalUpdateSessions
    BY <2>6 DEF FinalUpdateSessions, RemoveClosed, TypeOK
  <2>7. ASSUME NEW t \in Times, NEW m \in BOOLEAN, ShutdownServ(t, m)
        PROVE  SaveInv'
    BY <2>7 DEF ShutdownServ
  <2>8. CASE ShutdownCancel \/ StopNow
    BY <2>8 DEF ShutdownCancel, StopNow
  <2>9. CASE UNCHANGED vars
    BY <2>9 DEF vars
  <2> QED
    BY <2>1, <2>2, <2>3, <2>4, <2>5, <2>6, <2>7, <2>8, <2>9
       DEF Next, WorldThread
<1>3. SaveInv => CleanStopSaves
  BY DEF SaveInv
<1> QED
  BY <1>1, <1>2, <1>3, TypeCorrect, PTL DEF Spec

-----------------------------------------------------------------------------

\* A count that is scaled by a rate of at least 1 and truncated is zero only
\* when there is nothing to count.
LEMMA ScaledZero ==
  ASSUME NEW n \in Nat, NEW a \in Nat, NEW b \in Nat \ {0}, a >= b,
         (n * a) \div b = 0
  PROVE  n = 0
<1> SUFFICES ASSUME n >= 1 PROVE FALSE
  OBVIOUS
<1>1. n * a \in Nat /\ n * a >= a
  OBVIOUS
<1>2. n * a = b * ((n * a) \div b) + ((n * a) % b) /\ (n * a) % b < b
  BY <1>1
<1>3. n * a < b
  BY <1>1, <1>2
<1> QED
  BY <1>1, <1>3

\* With Rate.Online at 1 or above (1.47 by default) GetActiveAndQueuedSessionCount
\* is zero only when m_sessions is empty.
LEMMA NobodyCounted ==
  ASSUME RateNum >= RateDen, SessionCount = 0
  PROVE  Connected = {}
<1>1. IsFiniteSet(Connected)
  BY WorldShutdownAssumption, FS_Subset DEF Connected
<1>2. Cardinality(Connected) \in Nat
  BY <1>1, FS_CardinalityType
<1>3. Cardinality(Connected) = 0
  BY <1>2, ScaledZero, WorldShutdownAssumption DEF SessionCount
<1> QED
  BY <1>1, <1>3, FS_EmptySet

\* Once an idle shutdown has set the stop event the loop of run ends with this
\* update, in whose UpdateSessions everybody who is there is new.
IdleInv ==
  stop = "shutdown" /\ idle =>
    /\ InWorld = {}
    /\ pc # "gametime"
    /\ pc = "sessions" => \A p \in Players : session[p] \in {"none", "new"}

\* An idle shutdown throws nobody out of the world, whoever connects after it has
\* set the stop event, provided the rate of the session count is not below 1.
THEOREM IdleSparesPlayers ==
  ASSUME RateNum >= RateDen
  PROVE  Spec => []IdleShutdownSparesPlayers
<1>1. Init => IdleInv
  BY DEF Init, IdleInv
<1>2. TypeOK /\ IdleInv /\ [Next]_vars => IdleInv'
  <2> SUFFICES ASSUME TypeOK, IdleInv, [Next]_vars PROVE IdleInv'
    OBVIOUS
  <2> USE DEF IdleInv, InWorld
  <2>1. ASSUME NEW e \in 0..MaxElapsed, UpdateGameTime(e) PROVE IdleInv'
    <3>1. pc = "gametime" /\ UNCHANGED <<idle, session>>
      BY <2>1 DEF UpdateGameTime
    <3>2. CASE stop' = stop
      BY <3>1, <3>2
    <3>3. CASE stop' # stop
      <4>1. idle => Connected = {}
        BY <2>1, <3>3, NobodyCounted DEF UpdateGameTime, StopsNow
      <4>2. pc' \in {"sessions", "crashed"}
        BY <2>1 DEF UpdateGameTime
      <4> QED
        BY <3>1, <4>1, <4>2 DEF Connected
    <3> QED
      BY <3>2, <3>3
  <2>2. ASSUME NEW t \in Times, NEW m \in BOOLEAN, ShutdownServ(t, m) PROVE IdleInv'
    <3>1. /\ pc \in {"sessions", "commands"} /\ stop = "no" /\ idle' = m
          /\ session' = session /\ pc' \in {"sessions", "commands", "crashed"}
      BY <2>2 DEF ShutdownServ, Stopped
    <3>2. stop' = "shutdown" /\ m => Connected = {}
      BY <2>2, <3>1, NobodyCounted DEF ShutdownServ, StopsNow
    <3> QED
      BY <3>1, <3>2 DEF Connected
  <2>3. ASSUME NEW p \in Players, Connect(p) PROVE IdleInv'
    BY <2>3 DEF Connect, TypeOK
  <2>4. ASSUME NEW p \in Players, EnterWorld(p) \/ Disconnect(p) PROVE IdleInv'
    BY <2>4 DEF EnterWorld, Disconnect, TypeOK
  <2>5. CASE UpdateSessions \/ FinalUpdateSessions
    <3>1. pc' \in {"commands", "stopped"} /\ UNCHANGED <<stop, idle>>
      BY <2>5 DEF UpdateSessions, FinalUpdateSessions
    <3>2. \A p \in Players : session'[p] = "world" => session[p] = "world"
      BY <2>5 DEF UpdateSessions, FinalUpdateSessions, RemoveClosed, TypeOK
    <3> QED
      BY <3>1, <3>2
  <2>6. CASE EndOfUpdate \/ FinalKickAll
    BY <2>6 DEF EndOfUpdate, FinalKickAll, Stopped
  <2>7. CASE ShutdownCancel \/ StopNow \/ UNCHANGED vars
    BY <2>7 DEF ShutdownCancel, StopNow, Stopped, vars
  <2> QED
    BY <2>1, <2>2, <2>3, <2>4, <2>5, <2>6, <2>7 DEF Next, WorldThread
<1>3. IdleInv => IdleShutdownSparesPlayers
  BY DEF IdleInv, IdleShutdownSparesPlayers
<1> QED
  BY <1>1, <1>2, <1>3, TypeCorrect, PTL DEF Spec
=============================================================================
