---------------------------- MODULE AuctionHouse ----------------------------
(* The auction house: AuctionHouseHandler.cpp (the players' operations),      *)
(* AuctionHouseMgr.cpp (settlement, start-up) and the two mail operations by  *)
(* which money and items come back to a player.                               *)
(*                                                                            *)
(* The house keeps its lots in memory and in the table `auctionhouse`; money, *)
(* bags and mails likewise are in memory and in the character database.  All  *)
(* handlers run in the world thread and are atomic, but what they write goes  *)
(* through the queue of the asynchronous database worker: each element of     *)
(* the queue is one transaction or one free-standing statement, and a crash   *)
(* loses the queue.  Queries on the synchronous connection read the tables as *)
(* they are, without what is still queued.                                    *)
EXTENDS Integers, Sequences, Bags, FiniteSets, FiniteSetsExt, SequencesExt

CONSTANTS Players, Items, Nobody, NoItem, NoLot,
          StartBids, Buyouts, Prices,    \* amounts a client may name
          StartGold,      \* what a player starts with
          MaxGold,        \* MAX_MONEY_AMOUNT
          Wrap,           \* 2^32: AuctionEntry keeps its amounts in uint32
          CutPct,         \* AuctionHouseEntry::cutPercent times Rate.Auction.Cut
          Deposit,        \* GetAuctionDeposit of the items
          GmLogTrade,     \* CONFIG_GM_LOG_TRADE: on in the shipped configuration
          DueAtBoot,      \* may a lot be due when the server starts?
          LoseQueue,      \* may the server stop with a non-empty queue?
          MaxRestarts, MaxQueue, MaxSales

\* AuctionEntry, as far as the handlers tell entries apart; Nobody is bidder 0.
AuctionEntry == [item : Items, owner : Players, startbid : Nat, buyout : Nat,
                 bid : Nat, bidder : Players \cup {Nobody}]

ASSUME AuctionAssumption ==
    /\ IsFiniteSet(Players) /\ Players # {}
    /\ Nobody \notin Players /\ NoItem \notin Items /\ NoLot \notin AuctionEntry
    /\ StartBids \cup Prices \subseteq Nat \ {0} /\ Buyouts \subseteq Nat
    /\ {MaxGold, Deposit} \subseteq Nat
    /\ StartGold \in [Players -> 0..MaxGold]
    /\ Wrap \in Nat \ {0} /\ CutPct \in 0..100
    /\ {GmLogTrade, DueAtBoot, LoseQueue} \subseteq BOOLEAN
    /\ {MaxRestarts, MaxQueue} \subseteq Nat /\ MaxSales \in Nat \ {0}

VARIABLES
    mem,        \* gold, bags, mails and lots as the world thread sees them
    aitems,     \* mAitems: the items of the lots that are loaded
    db,         \* the same tables in the character database
    queue,      \* transactions and statements the database worker has to do
    due,        \* lots with time <= now + 60
    next,       \* ObjectMgr::_auctionId: the id of the next lot
    phase,      \* "up", or how far World::SetInitialWorldSettings has come
    restarts,   \* server starts so far
    sales,      \* lots created so far
    kept,       \* history: money that left the players for good
    lost        \* history: has a crash lost queued writes?

vars == <<mem, aitems, db, queue, due, next, phase, restarts, sales, kept, lost>>

----------------------------------------------------------------------------
(* Data *)

\* The ids of lots.
Ids == 1..MaxSales

\* Mails are told apart by what they carry; a mail with neither money nor an
\* item (sale pending) is not represented.
Mail(to, money, item) == SetToBag({[to |-> to, money |-> money, item |-> item]})

\* A transaction: absolute new values of the rows it writes.
NoWrites == [gold |-> <<>>, bag |-> <<>>, sent |-> EmptyBag, taken |-> EmptyBag,
             lot |-> <<>>]

\* The row of one key, and a table in which rows are replaced.
Row(key, value) == [k \in {key} |-> value]
Written(rows, table) == [k \in DOMAIN table |-> IF k \in DOMAIN rows THEN rows[k] ELSE table[k]]

\* The tables after a transaction.
Apply(t, x) == [gold |-> Written(x.gold, t.gold), bag |-> Written(x.bag, t.bag),
                mail |-> (t.mail (-) x.taken) (+) x.sent, lot |-> Written(x.lot, t.lot)]

\* The tables after each of the operations ops.
Stages(t, ops) ==
    LET after[n \in 0..Len(ops)] == IF n = 0 THEN t ELSE Apply(after[n - 1], ops[n])
    IN  after

\* The ids of the lots a store holds.
Open(t) == {id \in DOMAIN t.lot : t.lot[id] # NoLot}

----------------------------------------------------------------------------
(* AuctionEntry *)

GetAuctionCut(a) == (a.bid * CutPct) \div 100

GetAuctionOutBid(a) == LET five == (a.bid * 5) \div 100
                       IN  IF five = 0 THEN 1 ELSE five

\* Mutant: the row of the lot stays in the table.
DeleteFromDB_Forgotten(id, trans) == <<trans>>

\* AuctionEntry::DeleteFromDB ignores the transaction it is given: the DELETE
\* is a statement of its own, and it is queued before the transaction is.
DeleteFromDB(id, trans) == <<[NoWrites EXCEPT !.lot = Row(id, NoLot)], trans>>

----------------------------------------------------------------------------
(* The mails of AuctionHouseMgr: each is the bag of the mails it sends, with  *)
(* `here` the players that are online and `loaded` the content of mAitems.    *)
(* Characters are not deleted here, so that every receiver has an account.    *)

\* Mutant: only a winner who is online gets the item.
SendAuctionWonMail_Online(a, here, loaded) ==
    IF a.item \in loaded /\ a.bidder \in here
    THEN Mail(a.bidder, 0, a.item) ELSE EmptyBag

SendAuctionWonMail(a, here, loaded) ==
    IF a.item \in loaded /\ (a.bidder \in here \/ GmLogTrade)
    THEN Mail(a.bidder, 0, a.item) ELSE EmptyBag

\* What the seller gets, in 32 bits.
Profit(a) == (a.bid + Deposit - GetAuctionCut(a)) % Wrap

SendAuctionSuccessfulMail(a) == Mail(a.owner, Profit(a), NoItem)

SendAuctionExpiredMail(a, loaded) ==
    IF a.item \in loaded THEN Mail(a.owner, 0, a.item) ELSE EmptyBag

SendAuctionOutbiddedMail(a) == Mail(a.bidder, a.bid, NoItem)

SendAuctionCancelledToBidderMail(a) == Mail(a.bidder, a.bid, NoItem)

\* What is mailed when the time of a lot is up.
Settlement(a, here, loaded) ==
    IF a.bidder = Nobody THEN SendAuctionExpiredMail(a, loaded)
    ELSE SendAuctionSuccessfulMail(a) (+) SendAuctionWonMail(a, here, loaded)

\* What the house keeps of a lot that is settled.
Fees(a) == IF a.bidder = Nobody THEN Deposit ELSE a.bid + Deposit - Profit(a)

----------------------------------------------------------------------------
Init ==
    /\ mem = [gold |-> StartGold,
              bag |-> [i \in Items |-> CHOOSE p \in Players : TRUE],
              mail |-> EmptyBag, lot |-> [id \in Ids |-> NoLot]]
    /\ db = mem
    /\ aitems = {} /\ queue = <<>> /\ due = {} /\ next = 1 /\ phase = "up"
    /\ restarts = 0 /\ sales = 0 /\ kept = 0 /\ lost = FALSE

Running == phase = "up"

\* A handler's writes go to the end of the queue of the database worker.
Enqueue(ops) == /\ Len(queue) + Len(ops) <= MaxQueue
                /\ queue' = queue \o ops

----------------------------------------------------------------------------
(* The players' operations *)

\* HandleAuctionSellItem, for one whole stack.  Amounts are truncated to 32
\* bits when the entry is filled in.
HandleAuctionSellItem(p, i, bid, buyout) ==
    LET id == next
        a == [item |-> i, owner |-> p, startbid |-> bid % Wrap,
              buyout |-> buyout % Wrap, bid |-> 0, bidder |-> Nobody]
        left == mem.gold[p] - Deposit
    IN  /\ Running
        /\ mem.bag[i] = p /\ i \notin aitems
        /\ mem.gold[p] >= Deposit
        /\ id \in Ids
        /\ next' = id + 1
        /\ sales < MaxSales /\ sales' = sales + 1
        /\ mem' = [mem EXCEPT !.gold[p] = left, !.bag[i] = Nobody, !.lot[id] = a]
        /\ aitems' = aitems \cup {i}
        /\ Enqueue(<<[NoWrites EXCEPT !.gold = Row(p, left), !.bag = Row(i, Nobody),
                                      !.lot = Row(id, a)]>>)
        /\ UNCHANGED <<db, due, phase, restarts, kept, lost>>

\* Is this price a buyout of lot a?
IsBuyout(a, price) == a.buyout # 0 /\ price >= a.buyout

\* HandleAuctionPlaceBid: the conditions common to a bid and a buyout.
CanBid(p, a, price) ==
    /\ a # NoLot /\ a.owner # p
    /\ price > a.bid /\ price >= a.startbid
    /\ IsBuyout(a, price) \/ price >= (a.bid + GetAuctionOutBid(a)) % Wrap
    /\ mem.gold[p] >= price

\* Mutant: raising one's own bid costs the whole new price.
Pays_Full(p, a, price) == price

\* What the new bidder has to pay, and the mail that refunds the old one.
Pays(p, a, price) == IF a.bidder = p THEN price - a.bid ELSE price

Refund(p, a) == IF a.bidder \in {p, Nobody} THEN EmptyBag
                ELSE SendAuctionOutbiddedMail(a)

\* A bid below the buyout price: one transaction.
PlaceBid(p, id, price) ==
    LET a == mem.lot[id]
        b == [a EXCEPT !.bidder = p, !.bid = price % Wrap]
        left == mem.gold[p] - Pays(p, a, price)
    IN  /\ Running
        /\ CanBid(p, a, price) /\ ~IsBuyout(a, price)
        /\ mem' = [mem EXCEPT !.gold[p] = left, !.lot[id] = b,
                              !.mail = @ (+) Refund(p, a)]
        /\ Enqueue(<<[NoWrites EXCEPT !.gold = Row(p, left), !.lot = Row(id, b),
                                      !.sent = Refund(p, a)]>>)
        /\ kept' = kept + (price - (price % Wrap))
        /\ UNCHANGED <<aitems, db, due, next, phase, restarts, sales, lost>>

\* A buyout: the lot is sold for its buyout price at once.
Buyout(p, id, price, here) ==
    LET a == mem.lot[id]
        b == [a EXCEPT !.bidder = p, !.bid = a.buyout]
        left == mem.gold[p] - Pays(p, a, a.buyout)
        sent == Refund(p, a) (+) Settlement(b, here \cup {p}, aitems)
    IN  /\ Running
        /\ CanBid(p, a, price) /\ IsBuyout(a, price)
        /\ mem' = [mem EXCEPT !.gold[p] = left, !.lot[id] = NoLot, !.mail = @ (+) sent]
        /\ Enqueue(DeleteFromDB(id, [NoWrites EXCEPT !.gold = Row(p, left), !.sent = sent]))
        /\ aitems' = aitems \ {a.item}
        /\ kept' = kept + Fees(b)
        /\ UNCHANGED <<db, due, next, phase, restarts, sales, lost>>

\* HandleAuctionRemoveItem: the owner takes the lot back; a bidder is refunded
\* at the owner's cost of the cut, and the deposit is gone.
HandleAuctionRemoveItem(p, id) ==
    LET a == mem.lot[id]
        cut == IF a.bidder = Nobody THEN 0 ELSE GetAuctionCut(a)
        left == mem.gold[p] - cut
        sent == Mail(p, 0, a.item)
                (+) (IF a.bidder = Nobody THEN EmptyBag
                     ELSE SendAuctionCancelledToBidderMail(a))
    IN  /\ Running
        /\ a # NoLot /\ a.owner = p /\ a.item \in aitems
        /\ mem.gold[p] >= cut
        /\ mem' = [mem EXCEPT !.gold[p] = left, !.lot[id] = NoLot, !.mail = @ (+) sent]
        /\ Enqueue(DeleteFromDB(id, [NoWrites EXCEPT !.gold = Row(p, left), !.sent = sent]))
        /\ aitems' = aitems \ {a.item}
        /\ kept' = kept + cut + Deposit
        /\ UNCHANGED <<db, due, next, phase, restarts, sales, lost>>

\* HandleMailTakeMoney; gold over the limit is lost (Player::ModifyMoney).
HandleMailTakeMoney(m) ==
    LET p == m.to
        total == mem.gold[p] + m.money
        now == Min({total, MaxGold})
        mail == SetToBag({m})
        rest == Mail(p, 0, m.item)
    IN  /\ Running
        /\ m.money > 0
        /\ mem' = [mem EXCEPT !.gold[p] = now,
                              !.mail = (@ (-) mail) (+) (IF m.item = NoItem THEN EmptyBag ELSE rest)]
        /\ Enqueue(<<[NoWrites EXCEPT !.gold = Row(p, now), !.taken = mail,
                       !.sent = IF m.item = NoItem THEN EmptyBag ELSE rest]>>)
        /\ kept' = kept + (total - now)
        /\ UNCHANGED <<aitems, db, due, next, phase, restarts, sales, lost>>

\* HandleMailTakeItem (auction mails carry no COD).
HandleMailTakeItem(m) ==
    LET mail == SetToBag({m})
    IN  /\ Running
        /\ m.item # NoItem
        /\ mem' = [mem EXCEPT !.bag[m.item] = m.to, !.mail = @ (-) mail]
        /\ Enqueue(<<[NoWrites EXCEPT !.gold = Row(m.to, mem.gold[m.to]),
                                      !.bag = Row(m.item, m.to), !.taken = mail]>>)
        /\ UNCHANGED <<aitems, db, due, next, phase, restarts, sales, kept, lost>>

----------------------------------------------------------------------------
(* Settlement *)

\* Mutant: lots nobody has bid on are not looked at.
Expired_Sold(t) == {id \in Open(t) \cap due : t.lot[id].bidder # Nobody}

\* AuctionHouseObject::Update.  The ids come from the database, the entries
\* from memory; a row whose entry is gone is skipped.  The entry is deleted
\* before its item id is read for RemoveAItem, so the item may stay in mAitems.
Expired(t) == Open(t) \cap due

\* The lot id, whose entry is a: the mails, the two operations, RemoveAItem.
SettleLot(s, id, a, here, stale) ==
    LET sent == Settlement(a, here, s.aitems)
    IN  [mem |-> [s.mem EXCEPT !.lot[id] = NoLot, !.mail = @ (+) sent],
         queue |-> s.queue \o DeleteFromDB(id, [NoWrites EXCEPT !.sent = sent]),
         aitems |-> IF a.item \in stale THEN s.aitems ELSE s.aitems \ {a.item},
         kept |-> s.kept + Fees(a)]

\* The loop over the rows of expired lots, with the entries lot.
SettleLots(ids, lot, here, stale) ==
    LET start == [mem |-> mem, queue |-> queue, aitems |-> aitems, kept |-> kept]
        after[n \in 0..Len(ids)] ==
            IF n = 0 THEN start ELSE SettleLot(after[n - 1], ids[n], lot[ids[n]], here, stale)
    IN  after[Len(ids)]

AuctionsUpdate(here) ==
    LET rows == Expired(db) \cap Open(mem)
    IN  /\ Running
        /\ rows # {}
        /\ \E stale \in SUBSET {mem.lot[id].item : id \in rows} :
           \E s \in {SettleLots(SetToSeq(rows), mem.lot, here, stale)} :
              /\ Len(s.queue) <= MaxQueue
              /\ mem' = s.mem /\ queue' = s.queue /\ aitems' = s.aitems /\ kept' = s.kept
        /\ UNCHANGED <<db, due, next, phase, restarts, sales, lost>>

\* The clock passes the end of a lot.
TimePasses(id) ==
    /\ Running \/ DueAtBoot
    /\ id \in (Open(mem) \cup Open(db)) \ due
    /\ due' = due \cup {id}
    /\ UNCHANGED <<mem, aitems, db, queue, next, phase, restarts, sales, kept, lost>>

----------------------------------------------------------------------------
(* The database worker, stopping and starting *)

\* The worker does the next transaction.
Work ==
    /\ queue # <<>>
    /\ db' = Apply(db, Head(queue))
    /\ queue' = Tail(queue)
    /\ UNCHANGED <<mem, aitems, due, next, phase, restarts, sales, kept, lost>>

\* The server stops, with or without losing what is queued, and a new process
\* starts; players and their mails are what the tables hold.
Restart ==
    /\ restarts < MaxRestarts
    /\ LoseQueue \/ queue = <<>>
    /\ DueAtBoot \/ Expired(db) = {}
    /\ restarts' = restarts + 1
    /\ mem' = [db EXCEPT !.lot = [id \in Ids |-> NoLot]]
    /\ queue' = <<>> /\ aitems' = {} /\ phase' = "expire"
    /\ due' = Expired(db)
    /\ next' = Max(Open(db) \cup {0}) + 1
    /\ lost' = (lost \/ queue # <<>>)
    /\ UNCHANGED <<db, sales, kept>>

\* DeleteExpiredAuctionsAtStartup: before any item or lot is loaded.
DeleteExpiredAuctionsAtStartup ==
    /\ phase = "expire"
    /\ LET s == SettleLots(SetToSeq(Expired(db)), db.lot, {}, {})
       IN  mem' = s.mem /\ queue' = s.queue /\ aitems' = s.aitems /\ kept' = s.kept
    /\ phase' = "items"
    /\ UNCHANGED <<db, due, next, restarts, sales, lost>>

\* LoadAuctionItems: the items of the rows that are in the table now.
LoadAuctionItems ==
    /\ phase = "items"
    /\ aitems' = {db.lot[id].item : id \in Open(db)}
    /\ phase' = "auctions"
    /\ UNCHANGED <<mem, db, queue, due, next, restarts, sales, kept, lost>>

\* LoadAuctions: the rows that are in the table now and whose item is loaded;
\* a row without its item is deleted.
LoadAuctions ==
    LET orphans == {id \in Open(db) : db.lot[id].item \notin aitems}
    IN  /\ phase = "auctions"
        /\ mem' = [mem EXCEPT !.lot = [id \in Ids |-> IF id \in orphans THEN NoLot ELSE db.lot[id]]]
        /\ queue' = queue \o [n \in 1..Cardinality(orphans) |->
                        [NoWrites EXCEPT !.lot = Row(SetToSeq(orphans)[n], NoLot)]]
        /\ phase' = "up"
        /\ UNCHANGED <<aitems, db, due, next, restarts, sales, kept, lost>>

----------------------------------------------------------------------------
Sell == \E p \in Players, i \in Items, bid \in StartBids, buyout \in Buyouts :
            HandleAuctionSellItem(p, i, bid, buyout)
Bid == \E p \in Players, id \in Ids, price \in Prices : PlaceBid(p, id, price)
Buy == \E p \in Players, id \in Ids, price \in Prices, here \in SUBSET Players :
            Buyout(p, id, price, here)
Cancel == \E p \in Players, id \in Ids : HandleAuctionRemoveItem(p, id)
TakeMoney == \E m \in BagToSet(mem.mail) : HandleMailTakeMoney(m)
TakeItem == \E m \in BagToSet(mem.mail) : HandleMailTakeItem(m)
Update == \E here \in SUBSET Players : AuctionsUpdate(here)
Tick == \E id \in Ids : TimePasses(id)
Boot == DeleteExpiredAuctionsAtStartup \/ LoadAuctionItems \/ LoadAuctions

Next == \/ Sell \/ Bid \/ Buy \/ Cancel \/ TakeMoney \/ TakeItem
        \/ Update \/ Tick \/ Work \/ Restart \/ Boot

\* The world thread updates the houses every minute, the worker thread works
\* as long as there is work, and a server that starts comes up.
Fairness == WF_vars(Update) /\ WF_vars(Work) /\ WF_vars(Boot)

Spec == Init /\ [][Next]_vars /\ Fairness

----------------------------------------------------------------------------
(* Properties *)

\* The sum of the values of f, counted one by one.
Units(f) == UNION {{x} \X (1..f[x]) : x \in DOMAIN f}
Total(f) == Cardinality(Units(f))

MailMoney(b) == Total([m \in DOMAIN b |-> m.money * b[m]])

\* The money that is in a lot: its bid and its deposit.
Stake(a) == IF a = NoLot THEN 0 ELSE a.bid + Deposit

\* Money that players own: purses, mails, and what is in the lots.
Wealth(t) == Total(t.gold) + MailMoney(t.mail) + Total([id \in Ids |-> Stake(t.lot[id])])

\* Bidding, outbidding, buying out, cancelling and settling neither create
\* money nor lose any beyond the fees, what does not fit 32 bits and what a
\* full purse refuses.  After a crash that lost writes money may be missing,
\* but there is never more than before.
MoneyConserved ==
    Running => IF lost THEN Wealth(mem) <= Total(StartGold)
               ELSE Wealth(mem) + kept = Total(StartGold)

\* The number of places an item is in: a bag, a mail or a lot.
InBag(owner) == IF owner = Nobody THEN 0 ELSE 1
InMails(b, i) == Total([m \in DOMAIN b |-> IF m.item = i THEN b[m] ELSE 0])
InLot(a, i) == IF a = NoLot THEN 0 ELSE IF a.item = i THEN 1 ELSE 0

Places(t, i) == InBag(t.bag[i]) + InMails(t.mail, i) + Total([id \in Ids |-> InLot(t.lot[id], i)])

\* Every item is in exactly one place: no lot gives its item away twice, and
\* none loses it, whatever its bidders, its owner and the clock do.  A crash
\* that loses writes may lose an item (its lot is deleted before, and not in,
\* the transaction that mails it), but never doubles one.
ItemsConserved ==
    Running => \A i \in Items : Places(mem, i) = 1 \/ (lost /\ Places(mem, i) = 0)

\* Once the worker has done what is queued, the tables say what the world
\* thread sees: a clean restart changes nothing.
DatabaseFollows == Running => Stages(db, queue)[Len(queue)] = mem

\* Every lot whose time is up is settled.
DueSettles == \A id \in Ids : id \in due ~> id \notin Open(mem)

=============================================================================
