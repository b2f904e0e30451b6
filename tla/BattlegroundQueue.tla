------------------------- MODULE BattlegroundQueue -------------------------
(***************************************************************************)
(* The queue of one battleground type and level bracket, the battlegrounds *)
(* it fills, and the state each player keeps about both.                   *)
(*                                                                         *)
(* Everything happens in the world thread: packet handlers run between two *)
(* calls of BattlegroundMgr::Update, and that call updates the             *)
(* battlegrounds one by one, then fires the timed events of the queue,     *)
(* then the queue updates that were scheduled.  `stage' is where the call  *)
(* is: 0 outside, 1..MaxGrounds at a battleground, then Events.  One call  *)
(* is one unit of time.                                                    *)
(*                                                                         *)
(* How many players a battleground expects is counted in one place         *)
(* (invited) and decided in five: invitation, refusal, timeout, logout and *)
(* departure.  The counter is unsigned and steers both who is invited next *)
(* and when the battleground is deleted.                                   *)
(***************************************************************************)
EXTENDS Integers, Sequences, FiniteSets, SequencesExt

CONSTANTS
    Players,               \* the characters
    TeamOf,                \* the faction of each
    Parties,               \* the groups that may queue together (members online)
    Solo,                  \* the players who may queue alone
    MinPlayersPerTeam,     \* of the battleground template
    MaxPlayersPerTeam,
    InviteTime,            \* INVITE_ACCEPT_WAIT_TIME, in updates
    Zoning,                \* may queued players change maps?
    MaxGrounds,            \* bound on the battlegrounds alive at a time
    MaxJoins,              \* bound on the calls of Join
    MaxTrips,              \* bound on logouts and far teleports elsewhere
    Wrap                   \* where the unsigned counter wraps around

Teams == {"alliance", "horde"}
Other(t) == IF t = "alliance" THEN "horde" ELSE "alliance"

ASSUME TeamsAssumption ==
    /\ IsFiniteSet(Players)
    /\ TeamOf \in [Players -> Teams] /\ Solo \subseteq Players
ASSUME PartiesAssumption ==
    \A g \in Parties : /\ g \subseteq Players
                       /\ Cardinality(g) \in 1..MaxPlayersPerTeam
                       /\ \A p, q \in g : TeamOf[p] = TeamOf[q]
ASSUME SizesAssumption ==
    /\ MaxPlayersPerTeam \in Nat /\ MinPlayersPerTeam \in 1..MaxPlayersPerTeam
    /\ InviteTime \in Nat \ {0} /\ MaxGrounds \in Nat \ {0}
    /\ MaxJoins \in Nat /\ MaxTrips \in Nat
    /\ Wrap \in Nat /\ Wrap > 2 * Cardinality(Players)

Grounds == 1..MaxGrounds
Events == MaxGrounds + 1

VARIABLES
    queue,     \* m_QueuedGroups: per kind and team, the groups in order
    ground,    \* the Battleground objects, by instance id
    freeQ,     \* BGFreeSlotQueue: ids, the newest first
    timers,    \* pending BGQueueRemoveEvents
    sched,     \* is an update of this queue in m_QueueUpdateScheduler?
    player,    \* per player: queue slot, invitation, battleground, whereabouts
    stage,     \* progress of BattlegroundMgr::Update
    joins,     \* number of calls of Join so far
    trips      \* number of logouts and far teleports so far

vars == <<queue, ground, freeQ, timers, sched, player, stage, joins, trips>>

Group == [members : SUBSET Players \ {{}}, invited : 0..MaxGrounds, left : 0..InviteTime]

TypeOK ==
    /\ queue \in [{"premade", "normal"} \X Teams -> Seq(Group)]
    /\ ground \in [Grounds -> [status : {"free", "join", "progress", "leave"},
                               invited : [Teams -> 0..(Wrap - 1)],
                               members : SUBSET Players,
                               offline : Seq(Players)]]
    /\ freeQ \in Seq(Grounds)
    /\ timers \subseteq [player : Players, bg : Grounds, left : 0..InviteTime]
    /\ sched \in BOOLEAN
    /\ player \in [Players -> [queued : BOOLEAN, invite : 0..MaxGrounds, bg : 0..MaxGrounds,
                               place : {"world", "loading", "entering", "in", "offline"}]]
    /\ stage \in 0..Events /\ joins \in 0..MaxJoins /\ trips \in 0..MaxTrips

NoGround == [status |-> "free", invited |-> [t \in Teams |-> 0],
             members |-> {}, offline |-> <<>>]

Init ==
    /\ queue = [x \in {"premade", "normal"} \X Teams |-> <<>>]
    /\ ground = [b \in Grounds |-> NoGround]
    /\ freeQ = <<>> /\ timers = {} /\ sched = FALSE
    /\ player = [p \in Players |-> [queued |-> FALSE, invite |-> 0, bg |-> 0, place |-> "world"]]
    /\ stage = 0 /\ joins = 0 /\ trips = 0

-----------------------------------------------------------------------------
(* What the code looks up.                                                 *)

Size(S, t) == Cardinality({p \in S : TeamOf[p] = t})

\* Groups have disjoint members: a group is known by any of them.
GroupsIn(q) == UNION {Range(q[x]) : x \in DOMAIN q}
Queued(p) == \E g \in GroupsIn(queue) : p \in g.members
GroupOf(p) == CHOOSE g \in GroupsIn(queue) : p \in g.members
Invited(p, b) == Queued(p) /\ GroupOf(p).invited = b

\* ObjectAccessor::FindPlayer: a player behind a loading screen is not found.
FindPlayer(p) == player[p].place \in {"world", "in"}

FreeSlots(b, g) == IF g.invited[b] < MaxPlayersPerTeam
                   THEN MaxPlayersPerTeam - g.invited[b] ELSE 0
Allowed(mine, other) == IF mine = other THEN 1 ELSE IF other > mine THEN other - mine ELSE 0
Least(S) == CHOOSE x \in S : \A y \in S : x <= y

\* Mutant: counts who is inside and forgets who was invited.
GetFreeSlotsForTeam_Inside(g, t) ==
    IF g.status \in {"join", "progress"} THEN MaxPlayersPerTeam - Size(g.members, t) ELSE 0

\* Once the battle is on, no team may get ahead of the other.
GetFreeSlotsForTeam(g, t) ==
    LET in(x)   == Size(g.members, x)
        u       == Other(t)
        entered == IF in(t) > in(u)
                   THEN IF g.invited[t] <= MinPlayersPerTeam
                        THEN MinPlayersPerTeam - g.invited[t] + 1 ELSE 0
                   ELSE Allowed(in(t), in(u))
    IN  CASE g.status = "join"     -> FreeSlots(t, g)
          [] g.status = "progress" ->
                Least({Allowed(g.invited[t], g.invited[u]), FreeSlots(t, g), entered})
          [] OTHER -> 0

-----------------------------------------------------------------------------
(* Leaving the queue.                                                      *)

Without(p) ==
    LET cut(s) == [i \in DOMAIN s |-> [s[i] EXCEPT !.members = @ \ {p}]]
    IN  [x \in DOMAIN queue |-> RemoveFirstMatch(cut(queue[x]), LAMBDA g : g.members = {})]

DecreaseInvitedCount(g, t, n) == [g EXCEPT !.invited[t] = (@ - n) % Wrap]

\* Mutant: a player who enters the battle is no longer expected.
RemovePlayer_AlwaysDecrease(p, decrease) ==
    /\ queue' = IF Queued(p) THEN Without(p) ELSE queue
    /\ ground' = IF Queued(p) /\ GroupOf(p).invited # 0
                 THEN [ground EXCEPT ![GroupOf(p).invited] =
                                        DecreaseInvitedCount(@, TeamOf[p], 1)]
                 ELSE ground

\* BattlegroundQueue::RemovePlayer
RemovePlayer(p, decrease) ==
    /\ queue' = IF Queued(p) THEN Without(p) ELSE queue
    /\ ground' = IF Queued(p) /\ decrease /\ GroupOf(p).invited # 0
                    /\ ground[GroupOf(p).invited].status # "free"
                 THEN [ground EXCEPT ![GroupOf(p).invited] =
                                        DecreaseInvitedCount(@, TeamOf[p], 1)]
                 ELSE ground

RemoveBattlegroundQueueId(S) ==
    player' = [p \in Players |-> IF p \in S THEN [player[p] EXCEPT !.queued = FALSE, !.invite = 0]
                                 ELSE player[p]]

-----------------------------------------------------------------------------
(* Leaving a battleground.                                                 *)

\* RemovePlayerAtLeave for every player of S, all members of b, which is g.
\* Who is online is teleported out.
RemovePlayersAtLeave(S, b, g) ==
    LET gone == [g EXCEPT !.members = @ \ S,
                          !.invited = [t \in Teams |-> (@[t] - Size(S, t)) % Wrap]]
        on   == g.status \in {"join", "progress"} /\ S # {}
    IN  /\ ground' = [ground EXCEPT ![b] = gone]
        /\ freeQ' = IF on /\ b \notin Range(freeQ) THEN <<b>> \o freeQ ELSE freeQ
        /\ sched' = (sched \/ on)
        /\ player' = [p \in Players |->
                        IF p \in S /\ FindPlayer(p)
                        THEN [queued |-> FALSE, invite |-> 0, bg |-> 0, place |-> "loading"]
                        ELSE player[p]]

-----------------------------------------------------------------------------
(* Invitations.  s is the state the update of the queue has reached.       *)

\* A loop: step takes what the elements of q before have led to, and the next.
Through(q, start, step(_, _)) ==
    LET after[i \in 0..Len(q)] == IF i = 0 THEN start ELSE step(after[i - 1], q[i])
    IN  after[Len(q)]

EmptyPool == [groups |-> {}, count |-> 0, more |-> TRUE]

\* SelectionPool::AddGroup; more is what it returns.
AddGroup(pool, g, desired) ==
    LET n == Cardinality(g.members)
    IN  IF g.invited = 0 /\ desired >= pool.count + n
        THEN [groups |-> pool.groups \union {g}, count |-> pool.count + n, more |-> TRUE]
        ELSE [pool EXCEPT !.more = pool.count < desired]

\* The branch for CONFIG_BATTLEGROUND_INVITATION_TYPE = 0, the default: each
\* team on its own, in order.  Types 1 and 2 balance the two teams.
FillPlayersToBG(s, b, t) ==
    LET free == GetFreeSlotsForTeam(s.ground[b], t)
        add(pool, g) == IF pool.more THEN AddGroup(pool, g, free) ELSE pool
    IN  Through(s.queue[<<"normal", t>>], EmptyPool, add)

\* The selection of each team; with CONFIG_BATTLEGROUND_INVITATION_TYPE = 0 the
\* two are not balanced afterwards.
CheckNormalMatch(s, t) ==
    LET add(pool, g) == IF pool.count < MinPlayersPerTeam /\ g.invited = 0
                        THEN AddGroup(pool, g, MaxPlayersPerTeam) ELSE pool
    IN  Through(s.queue[<<"normal", t>>], EmptyPool, add)

\* InviteGroupToBG for every group selected.  Whoever is not found is skipped:
\* his group is invited, he is neither counted nor told nor timed.
InviteGroupsToBG(s, G, b) ==
    LET found == {p \in UNION {g.members : g \in G} : FindPlayer(p)}
        mark(g) == IF g \in G THEN [g EXCEPT !.invited = b, !.left = InviteTime] ELSE g
    IN  [s EXCEPT !.queue = [x \in DOMAIN @ |-> [i \in DOMAIN @[x] |-> mark(@[x][i])]],
                  !.ground[b].invited = [t \in Teams |-> (@[t] + Size(found, t)) % Wrap],
                  !.timers = @ \union [player : found, bg : {b}, left : {InviteTime}],
                  !.told = [p \in Players |-> IF p \in found THEN b ELSE @[p]]]

\* One battleground of the free slot queue.
Refill(s, b) ==
    LET G == UNION {FillPlayersToBG(s, b, t).groups : t \in Teams}
        r == InviteGroupsToBG(s, G, b)
    IN  IF s.ground[b].status \notin {"join", "progress"} THEN s
        ELSE IF Cardinality(r.ground[b].members) < 2 * MaxPlayersPerTeam THEN r
        ELSE [r EXCEPT !.freeQ = RemoveFirst(@, b)]

\* CreateNewBattleground, the invitations, StartBattleground.
StartNew(s, G) ==
    LET ids == {b \in Grounds : s.ground[b].status = "free"}
        b   == Least(ids)
        new == [s EXCEPT !.ground[b] = [NoGround EXCEPT !.status = "join"],
                         !.freeQ = <<b>> \o @]
    IN  IF ids = {} THEN s ELSE InviteGroupsToBG(new, G, b)

\* The position of the first group that is not invited, or 0.
FirstWaiting(q) == SelectInSeq(q, LAMBDA g : g.invited = 0)

\* CheckPremadeMatch: premade against premade, topped up from the normal queue;
\* otherwise the first premade group of a team that shrank, or waited for too
\* long (waited), goes to the head of the normal queue.
FirstPremade(s, t) ==
    LET q == s.queue[<<"premade", t>>]
    IN  AddGroup(EmptyPool, q[FirstWaiting(q)], MaxPlayersPerTeam)

PremadePool(s, t) ==
    LET most == Least({FirstPremade(s, u).count : u \in Teams})
        add(pool, g) == IF pool.more /\ g.invited = 0 THEN AddGroup(pool, g, most) ELSE pool
    IN  Through(s.queue[<<"normal", t>>], FirstPremade(s, t), add)

PremadeToNormal(s, waited) ==
    LET moves(t) == LET q == s.queue[<<"premade", t>>]
                    IN  /\ q # <<>>
                        /\ Head(q).invited = 0
                        /\ t \in waited \/ Cardinality(Head(q).members) < MinPlayersPerTeam
        first(t) == Head(s.queue[<<"premade", t>>])
    IN  [s EXCEPT !.queue = [x \in DOMAIN @ |->
            IF ~moves(x[2]) THEN @[x]
            ELSE IF x[1] = "premade" THEN Tail(@[x]) ELSE <<first(x[2])>> \o @[x]]]

CheckPremadeMatch(s, waited) ==
    IF \A t \in Teams : FirstWaiting(s.queue[<<"premade", t>>]) # 0
    THEN StartNew(s, UNION {PremadePool(s, t).groups : t \in Teams}) ELSE PremadeToNormal(s, waited)

NormalMatch(s) ==
    IF \A t \in Teams : CheckNormalMatch(s, t).count >= MinPlayersPerTeam
    THEN StartNew(s, UNION {CheckNormalMatch(s, t).groups : t \in Teams}) ELSE s

\* BattlegroundQueueUpdate: refill what runs, then start something new.
BattlegroundQueueUpdate(waited) ==
    LET s0 == [queue |-> queue, ground |-> ground, freeQ |-> freeQ, timers |-> timers,
               told |-> [p \in Players |-> player[p].invite]]
    IN  \E s1 \in {Through(freeQ, s0, Refill)} :
        \E s2 \in {CheckPremadeMatch(s1, waited)} :
        \E s3 \in {NormalMatch(s2)} :
            /\ queue' = s3.queue /\ ground' = s3.ground
            /\ freeQ' = s3.freeQ /\ timers' = s3.timers
            /\ player' = [p \in Players |-> [player[p] EXCEPT !.invite = s3.told[p]]]

-----------------------------------------------------------------------------
(* The packet handlers, outside of BattlegroundMgr::Update.                *)

\* HandleBattlemasterJoinOpcode, alone or for the members online of a party; the
\* absent ones are counted too when it is decided whether it is a premade.  The
\* party is no larger than bgEntry->maxGroupSize: above that CanJoinBattleground-
\* Queue leaves the refusal to the client, which sends no such request.
Join(leader, party, asGroup, absent) ==
    /\ stage = 0 /\ joins < MaxJoins
    /\ leader \in party
    /\ player[leader].bg = 0
    /\ \A p \in party : player[p].place = "world" /\ ~player[p].queued
    /\ LET kind == IF asGroup /\ Cardinality(party) + absent >= MinPlayersPerTeam
                   THEN "premade" ELSE "normal"
       IN  queue' = [queue EXCEPT ![<<kind, TeamOf[leader]>>] =
                        Append(@, [members |-> party, invited |-> 0, left |-> 0])]
    /\ player' = [p \in Players |-> IF p \in party THEN [player[p] EXCEPT !.queued = TRUE, !.invite = 0]
                                    ELSE player[p]]
    /\ sched' = TRUE /\ joins' = joins + 1
    /\ UNCHANGED <<ground, freeQ, timers, stage, trips>>

\* HandleBattleFieldPortOpcode, leave the queue.
LeaveQueue(p) ==
    /\ stage = 0 /\ player[p].place = "world"
    /\ player[p].queued /\ Queued(p)
    /\ RemovePlayer(p, TRUE)
    /\ RemoveBattlegroundQueueId({p})
    /\ sched' = TRUE
    /\ UNCHANGED <<freeQ, timers, stage, joins, trips>>

\* HandleBattleFieldPortOpcode, enter the battle: the far teleport begins.
EnterBattle(p) ==
    /\ stage = 0 /\ player[p].place = "world"
    /\ player[p].queued /\ Queued(p)
    /\ \E b \in Grounds :
        /\ GroupOf(p).invited = b
        /\ ground[b].status # "free"
        /\ player[p].invite # 0
        /\ RemovePlayer(p, FALSE)
        /\ player' = [player EXCEPT ![p].bg = b, ![p].place = "entering"]
    /\ UNCHANGED <<freeQ, timers, sched, stage, joins, trips>>

\* The end of HandleMoveWorldportAckOpcode on a battleground map; without the
\* battleground there is no map, and the player is sent home.  With it, CanEnter
\* asks only for the id of that very battleground, and AddPlayerToMap for valid
\* coordinates, which a start position is: neither refuses a player here.
AddPlayer(p) ==
    LET b == player[p].bg
    IN  IF ground[b].status # "free" /\ player[p].invite = b
        THEN [ground EXCEPT ![b].members = @ \union {p}] ELSE ground

Arrive(p) ==
    /\ stage = 0 /\ player[p].place = "entering"
    /\ ground' = AddPlayer(p)
    /\ player' = IF ground[player[p].bg].status # "free" THEN [player EXCEPT ![p].place = "in"]
                 ELSE [player EXCEPT ![p].place = "loading", ![p].bg = 0]
    /\ UNCHANGED <<queue, freeQ, timers, sched, stage, joins, trips>>

\* Any other far teleport: a portal, a summons, the way out of a battleground.
ZoneOut(p) ==
    /\ stage = 0 /\ trips < MaxTrips /\ trips' = trips + 1
    /\ player[p].place = "world"
    /\ Zoning \/ ~player[p].queued
    /\ player' = [player EXCEPT ![p].place = "loading"]
    /\ UNCHANGED <<queue, ground, freeQ, timers, sched, stage, joins>>

ZoneIn(p) ==
    /\ stage = 0 /\ player[p].place = "loading"
    /\ player' = [player EXCEPT ![p].place = "world"]
    /\ UNCHANGED <<queue, ground, freeQ, timers, sched, stage, joins, trips>>

LeaveBattleground(p) ==
    /\ stage = 0 /\ player[p].place = "in"
    /\ p \in ground[player[p].bg].members
    /\ RemovePlayersAtLeave({p}, player[p].bg, ground[player[p].bg])
    /\ UNCHANGED <<queue, timers, stage, joins, trips>>

\* LogoutPlayer: a transfer is finished first, a participant stays listed, a
\* queued player is removed - without an update of the queue.
Logout(p) ==
    LET b == player[p].bg
        arrived == IF player[p].place = "entering" THEN AddPlayer(p) ELSE ground
    IN  /\ stage = 0 /\ trips < MaxTrips /\ trips' = trips + 1
        /\ player[p].place # "offline"
        /\ IF b # 0 /\ p \in arrived[b].members
           THEN /\ ground' = [arrived EXCEPT ![b].offline = Append(@, p)]
                /\ UNCHANGED queue
           ELSE RemovePlayer(p, player[p].queued)
        /\ player' = [player EXCEPT ![p].queued = FALSE, ![p].invite = 0, ![p].place = "offline"]
        /\ UNCHANGED <<freeQ, timers, sched, stage, joins>>

\* Player::LoadFromDB: back into the battle, or off its list, or neither.
Login(p) ==
    LET b == player[p].bg
        listed == b # 0 /\ p \in ground[b].members
    IN  /\ stage = 0 /\ player[p].place = "offline"
        /\ \/ /\ listed /\ ground[b].status # "leave"
              /\ ground' = [ground EXCEPT ![b].offline = RemoveFirst(@, p)]
              /\ player' = [player EXCEPT ![p] = [@ EXCEPT !.queued = TRUE, !.invite = b, !.place = "in"]]
              /\ UNCHANGED <<freeQ, sched>>
           \/ /\ listed /\ ground[b].status = "leave"
              /\ ground' = [ground EXCEPT ![b] = DecreaseInvitedCount(
                                [ground[b] EXCEPT !.members = @ \ {p}], TeamOf[p], 1)]
              /\ player' = [player EXCEPT ![p].bg = 0, ![p].place = "world"]
              /\ UNCHANGED <<freeQ, sched>>
           \/ /\ ~listed
              /\ player' = [player EXCEPT ![p].bg = 0, ![p].place = "world"]
              /\ UNCHANGED <<ground, freeQ, sched>>
        /\ UNCHANGED <<queue, timers, stage, joins, trips>>

\* The battle is decided (EndBattleground).
EndBattleground(b) ==
    /\ stage = 0 /\ ground[b].status = "progress"
    /\ ground' = [ground EXCEPT ![b].status = "leave"]
    /\ freeQ' = RemoveFirst(freeQ, b)
    /\ UNCHANGED <<queue, timers, sched, player, stage, joins, trips>>

-----------------------------------------------------------------------------
(* BattlegroundMgr::Update.                                                *)

Later(n) == IF n = 0 THEN 0 ELSE n - 1

BeginUpdate ==
    /\ stage = 0 /\ stage' = 1
    /\ timers' = {[e EXCEPT !.left = Later(@)] : e \in timers}
    /\ queue' = [x \in DOMAIN queue |->
                    [i \in DOMAIN queue[x] |-> [queue[x][i] EXCEPT !.left = Later(@)]]]
    /\ UNCHANGED <<ground, freeQ, sched, player, joins, trips>>

\* Mutant: invitations do not keep a battleground alive.
ToBeDeleted_Empty(g) == g.members = {}

\* Nobody inside and nobody expected; there are no spectators here.
ToBeDeleted(g) == g.members = {} /\ \A t \in Teams : g.invited[t] = 0

DeleteGround(b) ==
    /\ ground[b].status # "free" /\ ToBeDeleted(ground[b])
    /\ ground' = [ground EXCEPT ![b] = NoGround]
    /\ freeQ' = RemoveFirst(freeQ, b)
    /\ UNCHANGED <<sched, player>>

\* _ProcessJoin: the countdown has ended.
StartBattle(b) ==
    /\ ground[b].status = "join" /\ ground[b].members # {}
    /\ ground' = [ground EXCEPT ![b].status = "progress"]
    /\ UNCHANGED <<freeQ, sched, player>>

\* _ProcessJoin, the error paths: the map is not there or cannot be set up.  That
\* is found out at the first of the starting events, which are not told apart.
EndNow(b) ==
    /\ ground[b].status = "join" /\ ground[b].members # {}
    /\ ground' = [ground EXCEPT ![b].status = "leave"]
    /\ freeQ' = RemoveFirst(freeQ, b)
    /\ UNCHANGED <<sched, player>>

\* _ProcessOfflineQueue: the first one to log out has been away for 5 minutes.
ProcessOfflineQueue(b) ==
    LET away == ground[b].offline
    IN  /\ ground[b].status = "progress" /\ away # <<>>
        /\ Head(away) \in ground[b].members
        /\ RemovePlayersAtLeave({Head(away)}, b, [ground[b] EXCEPT !.offline = Tail(away)])

\* _ProcessLeave: two minutes after the end everybody is sent away.
ProcessLeave(b) ==
    /\ ground[b].status = "leave" /\ ground[b].members # {}
    /\ RemovePlayersAtLeave(ground[b].members, b, ground[b])

\* Nothing is due, or there is nobody inside.
Idle(b) ==
    /\ ~(ground[b].status # "free" /\ ToBeDeleted(ground[b]))
    /\ UNCHANGED <<ground, freeQ, sched, player>>

UpdateGround(b) ==
    /\ stage = b /\ stage' = b + 1
    /\ \/ DeleteGround(b) \/ StartBattle(b) \/ EndNow(b)
       \/ ProcessOfflineQueue(b) \/ ProcessLeave(b) \/ Idle(b)
    /\ UNCHANGED <<queue, timers, joins, trips>>

\* Mutant: any timer for this battleground will do.
IsPlayerInvited_AnyTime(e) == Invited(e.player, e.bg)

\* The timer of an invitation and the invitation that stands.
IsPlayerInvited(e) ==
    Invited(e.player, e.bg) /\ GroupOf(e.player).left = e.left

\* Mutant: after the end of the battle the timers are ignored.
RemoveEvent_Running(e) ==
    /\ stage = Events /\ e.left = 0
    /\ timers' = timers \ {e}
    /\ IF /\ ground[e.bg].status \in {"join", "progress"}
          /\ FindPlayer(e.player) /\ player[e.player].queued /\ IsPlayerInvited(e)
       THEN /\ RemovePlayer(e.player, TRUE)
            /\ RemoveBattlegroundQueueId({e.player})
            /\ sched' = TRUE
       ELSE UNCHANGED <<queue, ground, player, sched>>
    /\ UNCHANGED <<freeQ, stage, joins, trips>>

\* BGQueueRemoveEvent::Execute
RemoveEvent(e) ==
    /\ stage = Events /\ e.left = 0
    /\ timers' = timers \ {e}
    /\ IF FindPlayer(e.player) /\ player[e.player].queued /\ IsPlayerInvited(e)
       THEN /\ RemovePlayer(e.player, TRUE)
            /\ RemoveBattlegroundQueueId({e.player})
            /\ sched' = (sched \/ ground[e.bg].status \in {"join", "progress"})
       ELSE UNCHANGED <<queue, ground, player, sched>>
    /\ UNCHANGED <<freeQ, stage, joins, trips>>

\* The scheduled updates, after the last event that is due; a premade group may
\* or may not have waited enough.
UpdateQueues ==
    /\ stage = Events /\ stage' = 0
    /\ \A e \in timers : e.left > 0
    /\ sched' = FALSE
    /\ IF sched /\ GroupsIn(queue) # {}
       THEN \E waited \in SUBSET Teams : BattlegroundQueueUpdate(waited)
       ELSE UNCHANGED <<queue, ground, freeQ, timers, player>>
    /\ UNCHANGED <<joins, trips>>

Update ==
    \/ BeginUpdate
    \/ \E b \in Grounds : UpdateGround(b)
    \/ \E e \in timers : RemoveEvent(e)
    \/ UpdateQueues

Handlers ==
    \/ \E p \in Players, g \in Parties, absent \in 0..(MinPlayersPerTeam - 1) :
        Join(p, g, TRUE, absent)
    \/ \E p \in Solo : Join(p, {p}, FALSE, 0)
    \/ \E p \in Players :
        \/ LeaveQueue(p) \/ EnterBattle(p) \/ Arrive(p) \/ LeaveBattleground(p)
        \/ ZoneOut(p) \/ ZoneIn(p) \/ Logout(p) \/ Login(p)
    \/ \E b \in Grounds : EndBattleground(b)

Next == Update \/ Handlers

\* The world thread calls Update in every turn of its loop, and a client at a
\* loading screen finishes loading or is logged out.
Spec ==
    /\ Init /\ [][Next]_vars
    /\ WF_vars(Update)
    /\ SF_vars(\E p \in Players : Arrive(p))

-----------------------------------------------------------------------------
(* Properties.                                                             *)

\* Everybody a battleground has to reckon with: invited, on the way, inside.
Expected(b, t) ==
    {p \in Players : /\ TeamOf[p] = t
                     /\ \/ Invited(p, b)
                        \/ player[p].place = "entering" /\ player[p].bg = b
                        \/ p \in ground[b].members}

\* The counter of a battleground is the number of players it has to reckon
\* with, whatever the order in which they are invited, refuse, run out of
\* time, log out, come back and leave (Increase/DecreaseInvitedCount).
InvitedExact ==
    \A b \in Grounds : ground[b].status # "free" =>
        \A t \in Teams : ground[b].invited[t] = Cardinality(Expected(b, t))

\* Whoever is in an invited group has been told so himself, and with that is
\* counted and timed: a queued player who cannot be found "should not happen"
\* (InviteGroupToBG).
NobodySkipped ==
    \A p \in Players : Queued(p) => player[p].invite = GroupOf(p).invited

\* No team is ever promised more places than the battleground has, groups
\* and reinforcements of a running battle included (FillPlayersToBG).
NoOverbooking ==
    \A b \in Grounds, t \in Teams : Cardinality(Expected(b, t)) <= MaxPlayersPerTeam

\* A battleground is not deleted under somebody who was promised a place in
\* it (Battleground::Update, m_SetDeleteThis).
PromiseKept ==
    \A b \in Grounds : ground[b].status = "free" =>
        \A t \in Teams : Expected(b, t) = {}

\* The timer takes a player out of the queue only when the invitation that
\* stands has run out, not an earlier one to the same battleground that he
\* refused before he queued again (case 4 of BGQueueRemoveEvent).
FullTimeToAnswer ==
    [][\A p \in Players :
        stage = Events /\ Queued(p) /\ ~Queued(p)' =>
            GroupOf(p).invited # 0 /\ GroupOf(p).left = 0]_vars

\* A battleground does not stay around with nobody inside: who was invited
\* arrives or is struck off, and then it is deleted.
NoAbandonedGround ==
    \A b \in Grounds : []<>(ground[b].status = "free" \/ ground[b].members # {})
=============================================================================
