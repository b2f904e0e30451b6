# Verification of the WoWCircle 4.3.4 server core

TLA+ models, TLC configurations and TLAPS proofs for the concurrent core of the
world server in `src/src/server` and for the protocols by which players exchange
items, money and places. All source paths below are relative to that
directory. `PROJECT.json` maps every definition to its source lines and lists
runs, mutants, findings, hazards and theorems.

Run TLC on a model with `tlc -config X.cfg MCModule`, check proofs with
`tlapm XProofs.tla`.

## 1. The system

`worldserver` is one process. Its threads:

| thread | code | what it does |
|---|---|---|
| world thread | `worldserver/WorldThread/WorldRunnable.cpp` | loops over `World::Update` until the stop event is set, then kicks and saves everybody |
| socket threads | `game/Server/WorldSocketMgr.cpp` | read packets, authenticate, append to session queues |
| map update threads | `game/Maps/MapUpdater.cpp`, `shared/Threading/DelayExecutor.cpp` | update maps in parallel while the world thread waits |
| database workers | `shared/Database/DatabaseWorker.cpp` | run asynchronous SQL operations, one connection each |
| console, remote access, SOAP | `worldserver/CommandLine`, `RemoteAccess`, `TCSoap` | queue commands for the world thread |
| log worker, freeze detector | `shared/Logging`, `worldserver/Master.cpp` | write logs; abort a hung process |

One turn of the world thread (`World::Update`): the game time and the shutdown
timer (`_UpdateGameTime`), the sessions (`UpdateSessions`, which drains
`addSessQueue` and calls `WorldSession::Update` for each session), the maps
(`MapManager::Update`: schedule every map, wait for the map threads, delayed
updates), battlegrounds, LFG and other managers, and the command queue
(`ProcessCliCommands`). Inside `Map::Update` a map thread calls
`WorldSession::Update` again, with another packet filter.

### Inventory

| component | state | operations | interacts with | what is hard | what makes it correct |
|---|---|---|---|---|---|
| Map update pool | activation queue, `pending_requests`, condition | `schedule_update`, `wait`, `update_finished`, `deactivate`, `svc` | `MapManager`, `MapInstanced` | workers schedule more work while the barrier is awaited; refused requests; early wake-ups | the barrier holds, no map updated twice or after deletion, no lost wake-up |
| `MapManager`, `MapInstanced` | `i_maps`, `m_InstancedMaps`, `_instanceIds`, `_nextInstanceId` | create, update, destroy, unload; id generation | sessions, saves, battlegrounds | unlocked ids, deletion inside the update | ids are unique and recycled |
| Session admission | `m_sessions`, `addSessQueue`, `m_QueuedPlayer`, `m_disconnects` | add, replace, queue, admit, kick, remove | socket threads, console | reconnection of a queued account, limit changes under waiting clients | no dangling or stranded session, limit and order respected |
| `WorldSession` packet loop | `_recvQueue`, `_player`, flags of loading, logout, transfer | `Update`, filters, login, logout, worldport | socket thread, map thread, database answers | two consumers with different filters, packets that go round the queue | packets neither lost, stuck nor used after delete; one player per session |
| Database worker pool | queue, connections, transaction state | enqueue, execute, rollback, retry, reconnect, close | every component that saves | failure of one statement, lost connections, closing | transactions atomic, ordered, durable once reported |
| World shutdown | `m_ShutdownTimer`, mask, `m_stopEvent` | `ShutdownServ`, `ShutdownCancel`, `StopNow`, countdown, final kick | console, sessions | cancellation against countdown; who is saved | everybody saved; cancelled means cancelled |
| Instance saves | saves, binds, reset queue | load, reset, warn, bind | `MapManager`, players, groups | resets while the map is loaded | a reset never hits another instance |
| World sockets | handshake, output buffer | reactor callbacks | sessions | lifetime against sessions | planned |
| Player trade | `TradeData` of both sides: slots, money, spell, `m_accepted` | open, set item, gold and spell, accept, unaccept, cancel | inventories, money, logout | an acceptance against a later change; items that leave the inventory meanwhile; storing after removing | exactly what both accepted changes hands, in one step |
| Auction house | `AuctionsMap`, `mAitems`, table `auctionhouse`, mails | sell, bid, buy out, cancel, settle, load at start | mail, database queue, items | memory and tables apart by a queue; a crash between two writes; a restart with lots that are due; 32 bit amounts | money and items are conserved, every lot is settled |
| Mail | mails of a player in memory and tables | deliver, take money, take item, return, expire | auctions, players | expiry against loaded mailboxes | nothing is taken twice |
| Battleground queues | `m_QueuedGroups`, `BGFreeSlotQueue`, `m_Invited*`, removal events, queue slots of players | join, invite, enter, refuse, time out, log out, leave | battlegrounds, players, world thread | one counter changed in five places; timers of old invitations; players at loading screens | the counter is exact, no team overbooked, no promise broken, nothing left behind |
| Groups, loot rolls, LFG, guilds, pools | see `PROJECT.json` | | each other through players | expiry against answers | planned |
| Spells, entities, AI, scripts, movement, static data, tools | game content | | | | not modelled |

Every component, with the reason where it is left out, is in `PROJECT.json`
under `components`; every hazard, with its line, under `hazards`.

## 2. Modules

| module | models | composed with |
|---|---|---|
| `MapUpdater` | `MapUpdater.cpp`, `DelayExecutor.cpp`, the tick of `MapManager.cpp`, `MapInstanced::Update` | gives the barrier that `InstanceIds` and `SessionPackets` assume |
| `WorldSessions` | admission, login queue, tolerance (`World.cpp`) | its sessions run `SessionPackets` |
| `WorldSessionsProofs` | proofs about it | |
| `SessionPackets` | one `WorldSession`: receive queue, `Update`, login and logout | runs in both phases of the tick |
| `WorldTickProofs` | proofs about `MapUpdater` (its counter, its barrier, who updates which map how often) and about `SessionPackets` | extends both |
| `DatabaseWorkerPool` | asynchronous transactions | gives the ordered queue that `AuctionHouse` assumes |
| `DatabaseWorkerPoolProofs` | proofs about it | |
| `WorldShutdown` | shutdown timer, stop event, end of `WorldRunnable::run` | |
| `WorldShutdownProofs` | proofs about it | |
| `InstanceIds` | the allocator of instance ids | |
| `InstanceIdsProofs` | proofs about it | |
| `FairExchange` | what a trade promises: consent and atomic exchange | abstract specification |
| `Trade` | `TradeHandler.cpp`, `TradeData`, `Player::TradeCancel` | refines `FairExchange` |
| `TradeProofs` | proofs about it, the refinement included | |
| `AuctionHouse` | `AuctionHouseMgr.cpp`, `AuctionHouseHandler.cpp`, taking auction mails | its write queue is that of `DatabaseWorkerPool`, in order |
| `AuctionHouseProofs` | proofs about it | |
| `BattlegroundQueue` | `BattlegroundQueue.cpp`, the life of a `Battleground`, the handlers of joining and porting | |
| `BattlegroundQueueProofs` | proofs about it | |
| `MC*` | the TLC instances of the above | |

### MapUpdater

`main` is the position of the world thread in `MapManager::Update`, `UnloadAll`
and `wait`; `work[w]` is the request a worker executes, with the instances
`MapInstanced::Update` has still to visit; `queue` is the activation queue;
`pending` is `pending_requests`. `schedule_update` counts the request, and takes
the count back when the queue refuses it, as the code does. `wait` re-tests its
condition after every wake-up; one that comes too early, or is spurious, changes
nothing and is a stuttering step, so it has no action. What `Map::Update` does
to a map is not modelled, except that a `MapInstanced` destroys or schedules its
copies. Critical sections under `m_mutex` are one action each.

### WorldSessions

Session objects are identities, so a pointer to a deleted session is told from
its successor. `AddSession_` is one action with everything it calls:
`RemoveSession`, `RemoveQueuedPlayer` of the old session, `AddQueuedPlayer`.
`RemoveClosed` calls `RemoveQueuedPlayer` twice, as `UpdateSessions` does, while
`m_sessions` still counts the session. Counts are multiplied by `Rate.Online` and
truncated, and the unsigned decrement wraps. The positions a client was sent are
kept in `told`. Two history variables, `counted` (admitted under the limit) and
`raised` (the limit was raised under waiting clients), are used by properties
only. Time advances between two calls of `UpdateSessions`.

### SessionPackets

A packet is its number and its kind; the kinds are one opcode for each
combination of `SessionStatus` and `PacketProcessing` that `Update` tells apart.
`Consume` is one iteration of the loop in `Update`: the guards `More` and the
filter, then either the requeue with `firstDelayedPacket`, or the handler, and
the delete that `deletePacket` allows. `HandlePlayerLogin`, `HandleLogoutRequest`,
`HandleMoveWorldportAck`, `CharEnum` change the player state; a login packet that is
too short, or names a character of another account, leaves `m_playerLoading` set; all other handlers
are `Other`. The database answers a login at any time after it was asked. The
specification is `SessionSpec` here, so that one proof module can extend this module
and `MapUpdater`.

### DatabaseWorkerPool

A transaction is a number of statements; a statement takes effect in `temp` and
reaches `rows` by a commit. The MySQL server and client library and the ACE
queue are outside the repository and modelled by what the code relies on: see
the head of the module. Faults are a refused statement, START TRANSACTION or
COMMIT, a lost deadlock and a lost connection, the number of which is bounded by
`MaxFaults`. The code looks at the result of a statement only: after a refused START
TRANSACTION it goes on in autocommit mode, and a refused COMMIT it reports as done.
A connection that cannot be reopened is null, or is the new one when only its
prepared statements failed (a prepared statement used later is then an `ASSERT`, which
is not followed). The history variable `hit` holds the transactions during which a
connection was lost or whose START TRANSACTION was refused, `refused` those whose
COMMIT was. Atomicity is required of all outside `hit` in `async_transactions`, and
of all in `reconnect_mid_transaction`; reports are true (`ReportsAreTrue`) with the
refused COMMITs as the one exception, which `SuccessIsDurable` (section 4) does not
make.

### WorldShutdown

The world thread's `pc` follows `_UpdateGameTime`, `UpdateSessions`, the command
queue and the tail of `run`. A player in the world is saved by `LogoutPlayer`,
that is when `UpdateSessions` removes its closed session. A client enters the world
at the earliest in the call after the one that added its session, since a login is
refused until the list of characters was answered (`CharacterHandler.cpp:807`,
`277`). `ShutdownMsg` at two
seconds ends the process with `ASSERT(false)`: `pc = "crashed"`.

### InstanceIds

`bits`, `size`, `capacity` are those of the `vector<bool>`; `Chunk` stands for
the 32 of the code and `Unit` for the 64 bits of a storage unit. Map threads
free ids in the steps a data race can separate: comparison, assignment, read and
write-back of a storage unit. A write past the end of the vector is lost for the
vector, since the next resize sets the new elements to false; what else it hits in
the heap is not modelled. `dungeons` and `arenas` count the instances to which an id
was given and from which it was not taken back (an id can be given twice), `left`
the maps that are still loaded after `_ResetInstance` has freed their id; a new
dungeon that gets such an id makes a map of its own or finds the old one
(`MapInstanced.cpp:211`). Raids and heroic dungeons are never freed by a reset, so
they hold their id until the restart. The history variable `overlapped` says whether
two frees ran at the same time: then an id may be lost or reused late.

`RoundUp` of a multiple of 32 is that number, so the vector has no bit for it: an id
that is such a multiple may be handed out twice. `NextIsAvailable` and `BitsExact`
exempt the multiples of `Chunk`, and speak of the ids that are held: a map in `left`
holds none, and its id is handed out again (`NextIsUnused` fails, section 4).

### Trade and FairExchange

Each opcode handler is one action, since all run in the world thread. An offer is
a function from slots to items, as in `TradeData`; `GetItem` looks the item up in
the inventory of its side, so an item that has left it reads as nothing.
`moveItems` is a recursive function over the slots in the order of the code, after
all items were removed from both inventories. An item is one whole stack in one inventory slot;
merging stacks is left out. `Kind` and `Limit` are the entry of an item and its
`MaxCount` (the limit categories work alike): `CanStoreItems` holds the limit against
each item alone, with what the receiver is about to give away counted, and
`MoveSlot` holds it again against what has been stored so far. When that fails both
items of the slot go back (`GoesBack`) into position lists that may hold a position
for the other item already, so one can be lost for want of a second free slot, or
be stored twice (`Copied`). `pack` is what else a player has, by kind: things that are
never offered, and such copies, which stay where they are. What happens outside of the window (an item sold,
mailed or used up, an item that becomes soulbound, money spent, a logout) is an
action each. `IsBindedNotWith` keeps the list of players an item may still be
given to.

`FairExchange` knows nothing of windows: a player consents to terms, and when the
other one agrees everything changes hands at once; only when that would take one of
the two over the limit of a kind (`Muddled`) may items stay behind, get lost or be
copied, while the money moves as agreed. The mapping is
`Exchange == INSTANCE FairExchange WITH consent <- seen`, where the history
variable `seen` records the terms at the moment `m_accepted` was set and is kept
as long as it stays set. `ImplementsExchange` then says that whatever the handlers
execute is what the accepted terms said.

### AuctionHouse

`mem` is what the world thread sees and `db` the tables; both have purses, bags,
mails and lots. `queue` is the list of transactions and single statements the
database worker still has to do, and `Apply` does one. `DeleteFromDB` ignores the
transaction it is given, as in the code: the `DELETE` is an operation of its own
in front of it. `Stages` lists the tables after each operation of a queue. `SettleLot`
is one round of the loop of `AuctionHouseObject::Update` and `SettleLots` the loop, a
recursive function like `Stages`, so that the proofs can go through it round by
round. Sums of money and of items are cardinalities (`Total` counts the units of a
function one by one), for which the prover has a library. `Restart` replaces `mem` by what the tables hold, may lose the queue
(`LoseQueue`), and goes through the three steps of `World::SetInitialWorldSettings`
in their order; `aitems` is `mAitems`. Amounts are taken modulo `Wrap`, which
stands for 2^32. The history variable `kept` is the money that left the players
by the rules (fees, truncation, full purses); `lost` that a crash dropped writes.
`Players` are characters that exist throughout. Deleting a character
(`Player::DeleteFromDB`) destroys its purse, bags and mails and is not modelled, and
so the five mails to a seller or bidder who no longer has an account
(`AuctionHouseMgr.cpp:136`, `173`, `204`, `226`, `251`: nothing is sent) are always
sent here.

### BattlegroundQueue

One battleground type and level bracket. `stage` is the progress of
`BattlegroundMgr::Update`, between whose calls the handlers run; one call is one unit
of time. A battleground object is its status, its two invitation counters, its
members and its offline queue. A player is a queue slot, an invitation, a
battleground and a whereabouts: in the world, at a loading screen, on the way into
a battleground, inside, or offline. Selection pools, premade matches and refills
follow the code: `Through` is a loop over a list with what its body has led to so
far, a recursive function, so that the proofs can go through it round by round;
`FirstPremade` and `PremadePool` are the two selections of `CheckPremadeMatch`.
Waiting time averages and the rated queues (arenas) are left out, and so are spectators,
who also keep a battleground alive, and the balancing of the two teams with
`Battleground.InvitationType` 1 or 2: the model is the branch for 0, the default of the
code and of the shipped configuration. A party is its members online; the absent ones
only count in the decision whether it is a premade (`absent` in `Join`). Parties above
`maxGroupSize`, for which `CanJoinBattlegroundQueue` skips its checks because the client
refuses to send the request (`Group.cpp:1835`), are excluded. `EndNow` is the error path
of `_ProcessJoin`; it may happen as long as the battle has not started, since the
starting events are not told apart. A player who arrives while the battleground exists
is never turned away: `CanEnter` asks only for the id of that battleground, and
`AddPlayerToMap` for valid coordinates. `Zoning` says whether queued players may pass a
loading screen elsewhere.

## 3. Runs

| run | instance | result |
|---|---|---|
| `map_tick` | 2 workers, a continent, a dungeon with 2 copies, queue of 2 | all properties hold, liveness included |
| `login_queue` | 4 sessions of 3 accounts (one reconnects, one is premium), limit 1, 2 or 3, `Rate.Online` 1.47, tolerance on | all hold |
| `packet_loop` | 3 packets of any of 9 kinds | all hold, liveness included |
| `async_transactions` | 2 workers, 3 transactions of 2, 0 and 2 statements, queue of 2, 3 faults of any kind | atomic unless the connection was lost, reports true up to refused COMMITs, in order, all settle |
| `reconnect_mid_transaction` | 1 worker, 1 lost connection | violation: half a transaction is committed |
| `shutdown` | 2 players, 3 commands, times 0, 1, 2, 4, updates of up to 2 s, `Rate.Online` 1.47 | all hold, liveness included |
| `instance_ids` | 2 workers, ids to 5, 5 instances, `Chunk` 2, `Unit` 4, any saved ids | all hold |
| `trade` | 2 players with room for 2 and 3 items, a bound item, 2 tokens of which nobody may have 3 and one more in a bag, 2 traded slots, a spell, 1 item that leaves or is blocked | implements `FairExchange` |
| `auction_house` | 3 players, 1 item, 2 sales, prices around `Wrap` 22, queue of 3, 1 restart that may lose it | all hold, liveness included |
| `auction_startup` | the same, nothing lost, a lot may fall due while the server is down | violation: its item is in no place |
| `battleground_queue` | 3 against 1, a party of two, teams of up to 2, 3 joins, a logout, invitations of 2 updates | all hold, liveness included |
| `battleground_loading` | the same with queued players at loading screens | violation: a member of an invited group is not told |

### Why the bounds are enough

* `map_tick`: two workers and two copies let a worker schedule a copy, another
  take it at once, and the third request be refused by the queue. More workers
  repeat these cases; for the barrier that is proved (section 5).
* `login_queue`: limit 1 with one premium session gives a queue of two, so that
  positions shift and the double call of `RemoveQueuedPlayer` matters; limits 2
  and 3 let a newcomer overtake if a place is not given to the queue, and at the
  default rate of 1.47 the scaled count skips values below and above them; the second
  object of one account gives reconnection in and out of the queue, for which one
  session waiting in `addSessQueue` is enough (`MaxAdded`).
* `packet_loop`: three packets are one that is requeued, one behind it and one
  that arrives meanwhile.
* `async_transactions`: an empty transaction is the early return of
  `CommitTransaction`; two statements have a middle where things fail; the second and
  third fault hit a connection that the first has left in a bad state; the
  retry limit of 5 is that of the code.
* `shutdown`: times of 4 and steps of 1 or 2 seconds both reach and jump over
  the message at 2 seconds; three commands give start, cancel, start.
* `instance_ids`: the vector grows from nothing, to its capacity and into a second
  storage unit (id 5), and the multiples 2 and 4 are met at the boot and at a growth;
  five instances fill all ids. For larger ids the theorems of section 5 stand.
* `trade`: items pass in both directions through full inventories, and slot order
  matters; the bound item may go to one of the two only; both tokens pass
  `CanStoreItems` and the second fails in `moveItems`, alone or against the bound
  item, which copies it. An item that gets lost there takes a fourth item and is
  left to the theorem. That a third player is never drawn in is proved
  (`WindowsArePaired`).
* `auction_house`: three players give an outbid bidder who is neither seller nor
  winner; the second sale lets the winner sell on and an id be reused after a
  restart; the price 23 is truncated to 1 by `Wrap` 22; settling one
  lot enqueues two operations, so with a queue of three a settlement can start
  behind a write that is not in the tables yet, and every gap between the writes of
  a handler is a point at which the server can crash. Longer queues, in which two
  settlements lie behind one another, are covered by the theorems.
* `battleground_queue`: with two places and three players of one team somebody
  always waits (for any number of players and places the safety properties are
  proved); three joins let a player refuse, queue again and be invited again
  while his first removal event is pending; the battleground is full, refilled,
  ended and abandoned.

`CHECK_DEADLOCK FALSE` is used in `WorldSessions` and `AuctionHouse`, whose actions
are optional steps of clients and administrators: a server without clients may
idle.

### Fairness

* `MapUpdater`: weak fairness for the world thread's tick and for each worker:
  they are threads that run whenever they can.
* `SessionPackets`: weak fairness for the world thread and for the calls of
  `Update`; strong fairness for the map thread's call, because every tick of
  `MapManager` whose timer has passed updates the map the player is in, while
  single ticks may skip it (`MapManager.cpp:278`).
* `DatabaseWorkerPool`: weak fairness for each worker thread; nobody has to commit
  or to close.
* `WorldShutdown`: weak fairness for the world thread, and strong fairness for
  updates in which the clock has advanced, since every update reads the clock.

* `AuctionHouse`: weak fairness for the periodic update, the database worker and
  the steps of a server that starts. Nobody has to bid or to read mail.
* `BattlegroundQueue`: weak fairness for `BattlegroundMgr::Update`, which the world
  thread calls in every turn; strong fairness for the arrival of somebody at a
  loading screen, since a client finishes loading or is dropped.

Socket closings, client packets, commands, restarts and faults are never fair.

## 4. Findings

Three runs show a disagreement between the code and what it says of itself;
quotations are in `PROJECT.json`.

1. `reconnect_mid_transaction`: a connection lost inside a transaction is
   reopened with autocommit and the remaining statements are committed alone
   (`MySQLConnection.cpp:221`, `135`).
2. `auction_startup`: `DeleteExpiredAuctionsAtStartup` runs before
   `LoadAuctionItems`, so a lot that fell due while the server was down is settled
   without its item (`World.cpp:1698`, `AuctionHouseMgr.cpp:755`).
3. `battleground_loading`: `InviteGroupToBG` does not find a player who is at a
   loading screen; his group counts as invited, he is neither counted nor told, and
   when he leaves a count is taken back that was never given
   (`BattlegroundQueue.cpp:518`).

### Defined, known to fail, not kept as runs

These properties are in the modules, and TLC finds each violated on the instance
given. No run is kept for them; the hazards they belong to are listed.

| property | instance | code |
|---|---|---|
| `WorldSessions.ToleranceExpires` | `MCWorldSessions` with `TwoAccounts`, `TwoSessions`, `TwoAccountOf`, no bypass, limit 1, `MaxAdded` 2, `MaxTime` 2 | `HasRecentlyDisconnected` subtracts the present from the past (`World.cpp:305`) |
| `SessionPackets.EveryPacketDeleted` | constants of `MCSessionPackets.cfg` | `deletePacket` is not reset in the loop (`WorldSession.cpp:291`, `322`) |
| `WorldShutdown.PlayersSavedAtExit` | constants of `MCWorldShutdown.cfg` | the countdown ends in `ASSERT(false)` two seconds early, with sockets closed and nobody saved (`World.cpp:2718`, `2720`) |
| `InstanceIds.NextIsUnused` | constants of `MCInstanceIds.cfg` | the vector is sized one short when the highest id is a multiple of 32 (`MapManager.cpp:395`, `434`); a reset frees an id whose map is still loaded (`InstanceSaveMgr.cpp:533`) |
| `DatabaseWorkerPool.DeadlockIsRetried` | constants of `MCDatabaseWorkerPool.cfg` | `ROLLBACK` has reset `mysql_errno` when `TransactionTask::Execute` looks for 1213 (`Transaction.cpp:80`); rests on the client library |
| `DatabaseWorkerPool.SuccessIsDurable` | the same | the result of `COMMIT` is not looked at (`MySQLConnection.cpp:361`, `410`): one that the server refuses is reported as done |
| `DatabaseWorkerPool.NothingFlushed` | the same | `Close` drops what is queued (`DatabaseWorkerPool.h:106`); rests on ACE |
| `Trade.NothingCopied` | constants of `MCTrade.cfg` | limits are checked for each item alone (`Player.cpp:11135`); what then does not fit goes back through a position list that is already filled (`TradeHandler.cpp:248`, `258`) and is stored twice. For the same reason `FairExchange` without `Muddled` is not implemented: money moves, an item stays |
| `WorldSessions.NoIdlePlace` | constants of `MCWorldSessions.cfg` | `AddSession_` takes 1 off the scaled count, so with a limit of 3 the third session is queued while two are active; what holds is `WorkConserving` |

### Observations that no run claims

* `Rate.Online` is 1.47 unless configured; with a rate below 1 the unsigned count
  can wrap, and an idle shutdown can see no sessions: `IdleSparesPlayers` is
  therefore proved under the assumption that the rate is at least 1.
* Trade: an accept that is refused for a bound item leaves `m_accepted` set
  (`TradeHandler.cpp:351`). It is harmless because `CanStoreItems` asks
  `IsBindedNotWith` again (`BoundStaysBound`). An item that leaves the inventory does
  not take back an acceptance; the rest of the offer is then exchanged, which
  `FairExchange` allows ("whatever its owner still has"). Gold over
  `MAX_MONEY_AMOUNT` is lost.
* Auctions: `DeleteFromDB` is not part of the transaction that mails the item and
  the money, so a crash between the two loses them (`AuctionHouseMgr.cpp:651`); the
  properties allow that, and show that nothing is doubled. With `GM.LogTrade` off a
  winner who is offline gets no item: `SendAuctionWonMail` looks up his account only
  for the log (`AuctionHouseMgr.cpp:100`). `GmLogTrade` is TRUE in the runs, as in
  the shipped `worldserver.conf.dist`; without the key in the configuration the code
  takes it as off (`World.cpp:910`). A settled
  entry is deleted before its item id is read, hence the choice in `AuctionsUpdate`.
  Bids are truncated to 32 bits.
* Battlegrounds: a logout from the queue schedules no update of it; the top-up of
  `CheckPremadeMatch` adds nobody, since it takes `std::min` of the missing players
  and zero; a removal event that fires while its player is at a loading screen is
  dropped.
* Not covered by a property and left out of the hazard list for its length: the
  order of the writes to `account.online` (`WorldSession.cpp:151`), the order of
  requeued packets against new ones (`WorldSession.cpp:323`), the 16 bit instance id
  of `InstResetEvent` and the lock that `RemovePlayer` holds while the save is
  deleted (`InstanceSaveMgr.h:141`, `84`).

## 5. Proofs

`WorldTickProofs`, first part, about `MapUpdater` for any maps, instances, workers and queue size, from
`MapUpdaterAssumption` (finitely many workers, every instance has a base map):

* `TypeCorrect`: the type invariant.
* `PendingIsExact`, `BarrierIsSafe`: `BarrierHolds` says nothing about the states
  in which the world thread schedules or waits, so it is not inductive. The
  strengthening `BarrierInv` adds that `pending` is the number of queued requests
  plus the number of busy workers, and that it is zero outside the scheduling
  and waiting part and while no threads are activated. `PendingPreserved` shows
  that every step moves the count with the queue and the workers;
  `BusyMeansPending` that a busy worker keeps it above zero, which is why `wait`
  cannot leave early; cardinalities come from `FiniteSetTheorems`.

From the same assumption and `BarrierInv`:

* `OneThreadPerMap`, `NoDanglingRequest`, `OneUpdatePerTick`: no map is updated by
  two threads, after its deletion, or twice in a tick. None of the three is
  inductive. `TickInv` says why they hold: within a tick a map is requested once,
  a base map by the loop over `i_maps`, an instance by the loop of its base map.
  A map that is neither requested, updating nor updated is *fresh*; base maps
  still to visit are fresh, the instances a worker has still to visit are live,
  fresh and belong to its own map, and an instance stops being fresh only after
  its base map was dequeued. `Scheduled` and `Taken` say what a request and a
  dequeue do to the queue, `Quiet` steps change none of it.

`WorldTickProofs`, second part, about `SessionPackets` for any kinds and any number
of packets (the assumptions on the constants are not needed; nothing of the first
part is used):

* `SessionHasOnePlayer`, `LogoutRequestIsFresh`: the two are proved together as
  `PlayerInv`; the login that fails to load needs the first for the second.
* `PacketsAreSafe`: `NoUseAfterDelete` strengthened to `QueueInv` by "numbers in the
  queue and deleted numbers have been received", so that a new packet is neither.

`DatabaseWorkerPoolProofs`, for any number of workers, transactions, statements,
faults and attempts, from `PoolAssumption`:

* `CommitsInOrder`: `InOrder` strengthened to `OrderInv`: the queue is sorted, what
  a worker works on is older than everything queued, and what it committed is
  older than what it works on.
* `AtomicUnlessDisconnected`, `ReportsMatchTables`: by `OwnInv`, on top of
  `OrderInv`. A transaction is in the queue, with exactly one worker, or settled.
  `Own(w)` is what a worker has done for its transaction: nothing is open when it
  starts one (else START TRANSACTION would commit it), an unsettled transaction
  whose connection held has no row in the tables, and what is open is exactly
  the statements executed so far. `OwnStep` shows once that a worker cannot
  disturb the transactions of others; each action then has only its own
  transaction to account for.

`WorldShutdownProofs`, for any players, times and number of commands, from
`WorldShutdownAssumption`:

* `TypeCorrect`: the timer, unsigned in the code, stays in range.
* `CancelledIsCancelled`: `CancelIsFinal` strengthened by "a running timer was
  asked for".
* `StopSavesEverybody`: `CleanStopSaves` strengthened by "before the last
  `UpdateSessions` every player in the world has a closed socket".
* `IdleSparesPlayers`: `IdleShutdownSparesPlayers`, with a rate of at least 1,
  strengthened by "in the update that follows the stop event every session is
  new"; `ScaledZero` is the arithmetic of the rate. The clients who connect in that
  update are kicked from the character screen.

`WorldSessionsProofs`, for any sessions, accounts, limits and timeouts, from
`WorldSessionsAssumption`:

* `QueueHoldsListedSessions`, `WaitingIsQueued`, `ClientsKnowTheirPosition`, at any
  rate: the three need each other, and are proved as parts of `SessionInv`. It says
  that a session is filed under its own account only, that a session handed over
  by a network thread is not yet listed, that what is queued is listed and not
  counted as admitted, and (`QueueOK`) that the queue has no repetition and the
  position told is the position held. Lemmas on erasing one element of a sequence
  say what the two calls of `RemoveQueuedPlayer` do to it; `AddSession_` is
  followed through the old session's removal and the new one's arrival.
* `NobodyWaitsInVain`, `InOrderOfArrival`, `LimitIsKept`, for `Rate.Online` of at least
  1: `WorkConserving` and the action properties `NoOvertaking` and
  `AdmissionWithinLimit`. The first two rest on `FullInv`: while somebody waits and the
  limit was not raised, one more session, scaled, would be above the limit.
  `Rate.Online` is 1.47 unless configured; a rate below 1 would understate the number of sessions to the very comparison that
  enforces the limit.
* `NoIdlePlaceAtRateOne`: the stronger `NoIdlePlace`, for a rate of exactly 1. It is
  false for the default rate (section 4), and the proof shows where: `FullInv` gives
  `Scaled(n + 1) > limit`, and only at rate 1 is that `n >= limit`.

`InstanceIdsProofs`, for any chunk, storage unit, saved instances, ids and number of
map threads:

* `NextIsNotInUse`, `BitsAreExact`, `IdsAreUnique`: no id is given to a second holder,
  none loses its bit, and none is forgotten unless frees overlap, multiples of the
  chunk excepted. The properties are not inductive; `IdInv` adds that the size and the
  capacity are multiples of the chunk and the next id is at most one past the last
  index (`Sizes`), from which it follows that an id without a bit is a multiple; that
  an id has one holder, and none while a thread frees it (`Unique`); that saved ids
  are read in ascending order (`Ascending`); that a held id has its bit in the vector
  and in every storage unit a thread is about to write back (`Covered`); and what
  holds in addition as long as no two frees overlap (`Exact`). So the data race alone
  never hands out an id twice; a vector that is one bit too short, and a reset while
  the map is loaded, are the only causes.

`TradeProofs`, for any players, items, spells and number of slots, from
`TradeAssumption` and `NoConsentAssumption`:

* `WindowsArePaired`: `Paired` strengthened to `PairInv` by the type of the trade
  data and by "nobody faces himself", without which a change of the other side
  could undo the change of one's own. Handlers fall into three classes, each with
  a lemma: those that leave everybody's partner alone (`SamePartners`, `BothSides`,
  `FlagsSet`), those that close a window on both sides (`BothClosed`), and
  opening one.
* `AcceptanceIsCurrent`: who has `m_accepted` set accepted exactly the terms that
  stand. The invariant `TradeInv` adds to `PairInv` that every item has one owner or none,
  that no item lies in two slots of an offer (else it would be moved twice), and
  that `seen` is exactly the terms of those who have accepted.
* `TradesAreFair`: every behaviour of `Trade` is one of `FairExchange`
  (`ImplementsExchange`). Every handler maps to consenting, withdrawing,
  exchanging, spending, leaving, or to nothing; `FaithfulStep` has one step for each.
  The exchange needs what `moveItems` computes for any number of slots. Its recursion
  has a solution (`RunExists`), and both facts about it are proved by the least slot
  at which they could fail. If the whole exchange leaves both sides within their
  limits, every round swaps its slot (`MoveOne`, `MoveItemsOf`): room is never short,
  because `CanStoreItems` was asked with all items removed (`RoomLeft`), and neither
  is the limit (`LimitLeft`). In any case a traded item ends with one of the two sides
  or lost, and nothing else is touched (`RoundMixes`, `MoveItemsMix`).
* `BoundItemsStay`: the action property `BoundStaysBound`.

`BattlegroundQueueProofs`, for any players, parties, team sizes, battlegrounds,
invitation times and number of joins, from `TeamsAssumption`, `PartiesAssumption`
and `SizesAssumption` (finitely many players, a party is of one team and fits into
it, the counter wraps above what the players could make it count to):

* `Reckoning`: the inductive invariant `BgInv`. Nobody is in two groups and a list
  has players of its own team only (`QueueOK`); what is deleted expects nobody
  (`FieldOK`); a player is in the queue, on his way, or on the list of the
  battleground he remembers, and who is in a group knows whether it is invited
  (`PlayersOK`); the counter of a team is the number of players the battleground
  reckons with, and there is room for them (`CountOK`). None of the properties is
  inductive alone: a decrement is right only if the player was counted once, and
  a refill only if the counter it starts from is exact. The condition `[]AllFound`,
  that everybody in the queue can be found whenever it is updated, is what
  `InviteGroupToBG` takes for granted; `battleground_loading` shows that it can fail.
* The update of the queue is the long part of the proof: `LoopExists` and
  `LoopKeeps` say that a loop has a value after every round and keeps what each
  round keeps; `FillOf`, `NormalOf` and `PremadeOf` that a selection never exceeds
  the places it was asked for; `Together` that the groups selected for the two
  teams do not mix; `InvitationsOf` and `InvitedOf` what inviting them does to
  the counters; `RefillsOf`, `CheckPremadeMatchOf` and `NormalMatchOf` that each of the
  three parts of `BattlegroundQueueUpdate` keeps the invariant (`StateOK`).
* `ReckoningExact`: under that condition `InvitedExact`, `NoOverbooking`,
  `PromiseKept` and `NobodySkipped` hold.
* `SettledReckoning` derives the condition when queued players do not change maps
  (`~Zoning`, the instance of `battleground_queue`): nobody in the queue is ever at a
  loading screen, since the only other ways to one are leaving a battleground and
  arriving too late, and neither is in the queue. `CountersExact`,
  `NeverOverbooked` and `PromisesKept` are the invariants, and
  `TimeToAnswer` the action property `FullTimeToAnswer`, for that case.

`AuctionHouseProofs`, for any players, items, amounts, width of the amounts, cut,
deposit, queue length and number of sales and restarts, from `AuctionAssumption`
(finitely many players, positive bids and prices, a cut of at most 100 percent) and
for servers that do not start with a lot already due (`~DueAtBoot`). That last
condition is needed: `auction_startup` shows what happens without it.

* `HouseInvariant`: the inductive invariant `HouseInv`. That memory holds the right
  sums is not inductive, since a restart replaces memory by whatever the tables hold,
  at any point of the queue. `Trail(db, queue, mem)` therefore says that the tables,
  *after every prefix of the queue*, are a store with no more money than there was
  and no item in two places (`Safe`), and that the whole queue leads to `mem`. `Books`
  is the exact balance while nothing was lost; `Shelf` that the item of every lot is
  in `mAitems` and every id below the next one, without which a settlement could
  forget its item or a sale overwrite a lot. While the server starts, `BootInv` says
  the same of the tables, and that nothing is queued or due.
* The argument for the crash between `DeleteFromDB` and its transaction is the
  order of the two: `CloseWrite` shows that the store in between has the lot's money
  and item nowhere, so it is `Safe`, and that the transaction then puts no more into
  mails and purses than the lot held (`CloseFair`). Reversed, the store in between
  would have both twice.
* Each handler has a lemma (`SellKeeps`, `BidKeeps`, `BuyKeeps`, `CancelKeeps`,
  `TakeMoneyKeeps`, `TakeItemKeeps`, `UpdateKeeps` and those of the clock, the worker and
  the start). They rest on what a change of one purse, one lot and the mails does to
  the sums (`WealthChange`, `PlacesChange`), on `CutBound` (what the seller gets is at
  most bid and deposit, also modulo `Wrap`) and on the weight of a bag of mails
  (`WeightSum`, `WeightTake`). `UpdateKeeps` goes through the loop with `Midway`: after k
  rounds the invariant holds and the lots of the later rounds are untouched.
* Sums are cardinalities, queues and loops are recursive functions: what they are
  for every length is proved by the least length at which it could fail
  (`LeastElement`), with `StagesUnique`, `TrailAdd`, `TrailWork` and `SettleLotsMeans` as
  the facts the rest uses.
* `MoneyIsConserved`, `DatabaseIsFollowed`: `MoneyConserved` and `DatabaseFollows`.
  `ItemsAreConserved`: `ItemsConserved`, with `GmLogTrade`; without it a winner who is
  offline gets nothing. `NoItemDoubled`: no item is ever in two places, whatever
  `GmLogTrade` says.

Every invariant that a passing run checks is thus proved as well. Only model-checked
are the liveness properties, which are out of the prover's reach (`TickCompletes`,
`ShutdownCompletes`, `EverySettles`, `UpdateTerminates`, `NoHeadOfLineBlocking`,
`ShutdownHappens`, `DueSettles`, `NoAbandonedGround`).

## 6. Plan

Done: `MapUpdater`, `WorldSessions`, `DatabaseWorkerPool`, `WorldShutdown`,
`InstanceIds`, `SessionPackets`, `Trade` with its abstract specification,
`AuctionHouse` and `BattlegroundQueue`, each with proofs.

Next modules, most important first:

1. `InstanceSaves`: binds, the reset queue with its 16 bit instance ids, resets of
   loaded maps; composed with `InstanceIds`.
2. `GroupLoot`: rolls with votes, leaving members, and the timeout of 60 s.
   Abstract specification: each item goes to exactly one eligible player.
3. `Mail`: cash on delivery, return and expiry against loaded mailboxes.
4. `LfgProposal`: proposals and role checks and their expiry.
5. `WorldSocket`: handshake and lifetime against sessions.
6. `Pools`, `EventProcessor`, `AuthSocket`, `LogWorker`.

A composition of `MapUpdater` and `SessionPackets` is planned to derive, not
assume, that the two calls of `Update` never overlap, and an abstract tick
(maps updated atomically) that `MapUpdater` refines.

Next theorems: the conservation laws of the auction house for a server that starts
with lots already due, once the order of loading is repaired.

## 7. Not modelled

The repository has about 1.4 million lines, most of them vendored libraries, SQL
data, generated or static tables, and game content. What is modelled is a small
share of the lines: the parts where threads, timers, messages and restarts meet.

Spells, auras, combat, AI, scripts, movement, collision and static data are game
content or geometry: their behaviour lies in thousands of records and in
floating point numbers, not in protocols of a size for TLC. Formatting, logging,
cryptography and the extractor tools have no state the properties could be
about. Vendored code under `dep` is used through the models marked external.
Memory shared by handlers of different maps (groups, guilds, the object
accessor) is not yet modelled: `MapUpdater` treats an update as touching its own
map only. Of the modelled components, these operations are left out: selling a
part of a stack or several stacks at once, searching and listing in the auction
house; the deletion of characters; mails between players; rated battlegrounds and arenas; access checks of
maps; synchronous queries and prepared statements of the database pool.
