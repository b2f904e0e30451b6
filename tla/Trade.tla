------------------------------- MODULE Trade -------------------------------
(***************************************************************************)
(* The trade window of two players: TradeData, the trade opcodes of        *)
(* WorldSession and Player::TradeCancel.  Each handler runs in the world   *)
(* thread from start to end, so each is one action; packets of different   *)
(* players come in any order.                                              *)
(***************************************************************************)
EXTENDS Naturals, FiniteSets, Sequences

CONSTANTS
  Players, Items, Spells,
  TradedSlots,  \* TRADE_SLOT_TRADED_COUNT
  MaxMoney,     \* MAX_MONEY_AMOUNT
  Prices,       \* the sums a client puts in the window
  Room,         \* Room[p]: inventory slots of p
  Kinds,        \* item entries
  Kind,         \* Kind[i]: the entry of i
  Limit,        \* Limit[k]: ItemTemplate::MaxCount, 0 for no maximum
  Pack,         \* Pack[p]: the kinds of what p never offers, at the start
  MaxSpoiled,   \* bound: items that leave or are blocked outside of trades
  BoundTo,      \* BoundTo[i]: players a bound item may still be given to
  Nobody, Nothing

NonTraded == TradedSlots + 1          \* TRADE_SLOT_NONTRADED
Slots == 1..NonTraded

ASSUME TradeAssumption ==
  /\ IsFiniteSet(Items) /\ TradedSlots \in Nat /\ MaxMoney \in Nat
  /\ Prices \subseteq Nat /\ Room \in [Players -> Nat]
  /\ Kind \in [Items -> Kinds] /\ Limit \in [Kinds -> Nat]
  /\ Pack \in [Players -> Seq(Kinds)]
  /\ MaxSpoiled \in Nat /\ BoundTo \in [Items -> SUBSET Players]
  /\ Nobody \notin Players /\ Nothing \notin Items \cup Spells

VARIABLES
  online,     \* players in the world
  trade,      \* Player::m_trade
  owner,      \* whose inventory an item is in
  pack,       \* kinds of the other things in an inventory: Pack, and copies
  money,      \* Player::GetMoney
  blocked,    \* items for which Item::CanBeTraded is false
  enchanted,  \* <<item, spell>>: spells cast at the end of the last trade
  seen        \* history: the terms when m_accepted was set, as long as it is

vars == <<online, trade, owner, pack, money, blocked, enchanted, seen>>

\* The inventories: who has each item, and what else everybody has.
Bags == [owner |-> owner, pack |-> pack]

\* Occupied inventory slots of x.
Count(b, x) == Cardinality({i \in Items : b.owner[i] = x}) + Len(b.pack[x])

\* Player::GetItemCount of a kind, and without item i when it is counted for it.
Similar(b, x, k, i) ==
  Cardinality({j \in Items \ {i} : b.owner[j] = x /\ Kind[j] = k})
    + Cardinality({n \in DOMAIN b.pack[x] : b.pack[x][n] = k})

\* Player::CanTakeMoreSimilarItems
CanTakeMoreSimilarItems(b, x, i) ==
  LET k == Kind[i]
  IN  Limit[k] = 0 \/ Similar(b, x, k, i) + 1 <= Limit[k]

NoTrade == [with |-> Nobody]
NewTrade(q) == [with |-> q, items |-> [s \in Slots |-> Nothing], money |-> 0,
                spell |-> Nothing, accepted |-> FALSE]

Trading(p) == trade[p] # NoTrade
Partner(p) == trade[p].with

Init ==
  /\ online = Players
  /\ trade = [p \in Players |-> NoTrade]
  /\ owner \in [Items -> Players]
  /\ pack = Pack
  /\ \A p \in Players :
       /\ Count(Bags, p) <= Room[p]
       /\ \A i \in Items : owner[i] = p => CanTakeMoreSimilarItems(Bags, p, i)
  /\ money \in [Players -> 0..MaxMoney]
  /\ blocked = {}
  /\ enchanted = {}
  /\ seen = [p \in Players |-> Nothing]

-----------------------------------------------------------------------------
(* TradeData *)

\* TradeData::GetItem: the item is looked up in the inventory of its side.
GetItem(p, s) ==
  LET i == trade[p].items[s]
  IN  IF i # Nothing /\ owner[i] = p THEN i ELSE Nothing

HasItem(p, i) == \E s \in Slots : trade[p].items[s] = i

\* The items that setAcceptTradeMode collects.
ItemsOf(p) == {GetItem(p, s) : s \in 1..TradedSlots} \ {Nothing}

\* Mutant: only the acceptance of the side that changed is taken back.
Changed_OwnSide(p, new) == trade' = [trade EXCEPT ![p] = new]

\* What every change of an offer ends with: SetAccepted(false) on both sides.
Changed(p, new) ==
  trade' = [trade EXCEPT ![p] = new, ![Partner(p)].accepted = FALSE]

\* TradeData::SetItem: another item in the slot clears the spell of this side,
\* and in the slot that is not traded also that of the other side.
SetItem(p, s, i) ==
  /\ trade[p].items[s] # i
  /\ LET new == [trade[p] EXCEPT !.items = [@ EXCEPT ![s] = i],
                                 !.spell = Nothing, !.accepted = FALSE]
         his == [trade[Partner(p)] EXCEPT
                   !.spell = IF s = NonTraded THEN Nothing ELSE @,
                   !.accepted = FALSE]
     IN  trade' = [trade EXCEPT ![p] = new, ![Partner(p)] = his]
  /\ UNCHANGED <<online, owner, pack, money, blocked, enchanted>>

\* TradeData::SetMoney
SetMoney(p, m) ==
  /\ trade[p].money # m
  /\ Changed(p, [trade[p] EXCEPT !.money = m, !.accepted = FALSE])
  /\ UNCHANGED <<online, owner, pack, money, blocked, enchanted>>

\* TradeData::SetSpell
SetSpell(p, s) ==
  /\ trade[p].spell # s
  /\ Changed(p, [trade[p] EXCEPT !.spell = s, !.accepted = FALSE])
  /\ UNCHANGED <<online, owner, pack, money, blocked, enchanted>>

-----------------------------------------------------------------------------
(* Opening and closing a window *)

\* HandleInitiateTradeOpcode after its checks of life, stun, flight, logout,
\* faction, level and distance.
HandleInitiateTrade(p, q) ==
  /\ {p, q} \subseteq online /\ p # q
  /\ ~Trading(p) /\ ~Trading(q)
  /\ trade' = [trade EXCEPT ![p] = NewTrade(q), ![q] = NewTrade(p)]
  /\ UNCHANGED <<online, owner, pack, money, blocked, enchanted>>

\* Mutant: the data of the other side stays.
TradeCancel_OneSide(p) == trade' = [trade EXCEPT ![p] = NoTrade]

\* Player::TradeCancel deletes the data of both sides.
TradeCancel(p) ==
  trade' = IF Trading(p)
           THEN [trade EXCEPT ![p] = NoTrade, ![Partner(p)] = NoTrade]
           ELSE trade

\* HandleCancelTradeOpcode, or the start of a taxi flight.
HandleCancelTrade(p) ==
  /\ p \in online
  /\ Trading(p)
  /\ TradeCancel(p)
  /\ UNCHANGED <<online, owner, pack, money, blocked, enchanted>>

\* WorldSession::LogoutPlayer deletes the player (CleanupsBeforeDelete).
Logout(p) ==
  /\ p \in online
  /\ online' = online \ {p}
  /\ TradeCancel(p)
  /\ UNCHANGED <<owner, pack, money, blocked, enchanted>>

Login(p) ==
  /\ p \notin online
  /\ online' = online \cup {p}
  /\ UNCHANGED <<trade, owner, pack, money, blocked, enchanted>>

-----------------------------------------------------------------------------
(* Changing the offer *)

HandleSetTradeGold(p) == Trading(p) /\ \E m \in Prices : SetMoney(p, m)

\* An item that is already in the window is refused.
HandleSetTradeItem(p) ==
  /\ Trading(p)
  /\ \E s \in Slots, i \in Items :
       /\ owner[i] = p
       /\ s = NonTraded \/ i \notin blocked
       /\ ~HasItem(p, i)
       /\ SetItem(p, s, i)

HandleClearTradeItem(p) == Trading(p) /\ \E s \in Slots : SetItem(p, s, Nothing)

\* Spell::cast on the item that the other side shows: the spell is kept in the
\* trade data and cast when the trade is complete.
CastOnTradeItem(p) ==
  /\ Trading(p)
  /\ GetItem(Partner(p), NonTraded) # Nothing
  /\ trade[p].spell = Nothing
  /\ \E s \in Spells : SetSpell(p, s)

HandleUnacceptTrade(p) ==
  /\ Trading(p)
  /\ trade' = [trade EXCEPT ![p].accepted = FALSE]
  /\ UNCHANGED <<online, owner, pack, money, blocked, enchanted>>

-----------------------------------------------------------------------------
(* HandleAcceptTradeOpcode *)

Offer(p) == [items |-> {trade[p].items[s] : s \in 1..TradedSlots} \ {Nothing},
             money |-> trade[p].money, spell |-> trade[p].spell,
             shown |-> trade[p].items[NonTraded]]

\* Mutant: an item in its trade time may be given to anybody.
IsBindedNotWith_Anybody(i, p) == owner[i] # p /\ BoundTo[i] = {}

\* Item::IsBindedNotWith
IsBindedNotWith(i, p) == owner[i] # p /\ p \notin BoundTo[i]

\* An item of either side cannot be traded any more, or one of p is bound.  The
\* items of the other side were held against p when that side accepted.
Refused(p, q) ==
  \/ (ItemsOf(p) \cup ItemsOf(q)) \cap blocked # {}
  \/ \E i \in ItemsOf(p) : IsBindedNotWith(i, q)

\* The item that the spell of p was meant for is gone.
SpellImpossible(p, q) ==
  trade[p].spell # Nothing /\ GetItem(q, NonTraded) = Nothing

\* Player::CanStoreItems for what q gives: the slots of items that are in the
\* trade themselves count as free.  The limit of a kind is held against each
\* item alone, and counts those of the kind that p is about to give away.
CanStoreItems(p, q) ==
  /\ \A i \in ItemsOf(q) :
       ~IsBindedNotWith(i, p) /\ CanTakeMoreSimilarItems(Bags, p, i)
  /\ Count(Bags, p) - Cardinality(ItemsOf(p)) + Cardinality(ItemsOf(q)) <= Room[p]

\* Player::CanStoreItem with n positions in its list already.
CanStoreItem(b, x, i, n) ==
  /\ Count(b, x) + n < Room[x]
  /\ ~IsBindedNotWith(i, x)
  /\ CanTakeMoreSimilarItems(b, x, i)

\* The positions that the first check of a round put into the list of x.
Dst(b, x, i) == IF i # Nothing /\ CanStoreItem(b, x, i, 0) THEN 1 ELSE 0

\* Both items of a slot can be stored with the other side.
CanTrade(p, q, b, s) ==
  /\ GetItem(p, s) = Nothing \/ CanStoreItem(b, q, GetItem(p, s), 0)
  /\ GetItem(q, s) = Nothing \/ CanStoreItem(b, p, GetItem(q, s), 0)

\* Otherwise item i goes back to its owner x, into the list in which x may have
\* a position for the other item of the slot; there is no room, and i is lost,
\* or StoreItem fills that position with a copy of i.
GoesBack(b, x, i, other) == CanStoreItem(b, x, i, Dst(b, x, other))
Copied(b, x, i, other) ==
  IF i # Nothing /\ Dst(b, x, other) = 1 /\ GoesBack(b, x, i, other)
  THEN <<Kind[i]>> ELSE <<>>

\* One round of moveItems.
MoveSlot(p, q, b, s) ==
  LET mine == GetItem(p, s)
      his == GetItem(q, s)
      Back(x, i, other) == IF GoesBack(b, x, i, other) THEN x ELSE Nobody
  IN  IF CanTrade(p, q, b, s)
      THEN [owner |-> [i \in Items |-> IF i = mine THEN q
                                       ELSE IF i = his THEN p ELSE b.owner[i]],
            pack |-> b.pack]
      ELSE [owner |-> [i \in Items |-> IF i = mine THEN Back(p, mine, his)
                                       ELSE IF i = his THEN Back(q, his, mine)
                                       ELSE b.owner[i]],
            pack |-> [b.pack EXCEPT ![p] = @ \o Copied(b, p, mine, his),
                                    ![q] = @ \o Copied(b, q, his, mine)]]

\* Every traded item is first removed from its inventory, then moveItems runs
\* over the slots in turn.
moveItems(p, q) ==
  LET removed == [i \in Items |-> IF i \in ItemsOf(p) \cup ItemsOf(q)
                                  THEN Nobody ELSE owner[i]]
      after[s \in 0..TradedSlots] ==
        IF s = 0 THEN [owner |-> removed, pack |-> pack]
        ELSE MoveSlot(p, q, after[s - 1], s)
  IN  after[TradedSlots]

\* Player::ModifyMoney with a gain, cut off at the limit.
Gain(m, d) == IF m + d < MaxMoney THEN m + d ELSE MaxMoney

CastSpell(p, q) ==
  IF trade[p].spell = Nothing THEN {}
  ELSE {<<GetItem(q, NonTraded), trade[p].spell>>}

Complete(p, q) ==
  /\ owner' = moveItems(p, q).owner
  /\ pack' = moveItems(p, q).pack
  /\ money' = [money EXCEPT
       ![p] = Gain(@ - trade[p].money, trade[q].money),
       ![q] = Gain(@ - trade[q].money, trade[p].money)]
  /\ enchanted' = CastSpell(p, q) \cup CastSpell(q, p)
  /\ trade' = [trade EXCEPT ![p] = NoTrade, ![q] = NoTrade]

\* A spell that has lost its item, or that Spell::CheckCast refuses now, is
\* taken out of the offer of x.
DropSpell(x, p, q) ==
  /\ trade[x].spell # Nothing
  /\ trade' = [trade EXCEPT ![p].accepted = FALSE, ![q].accepted = FALSE,
                            ![x].spell = Nothing]
  /\ UNCHANGED <<owner, pack, money, enchanted>>

\* The last part of the handler: the other side has accepted already.
Execute(p, q) ==
  \/ DropSpell(p, p, q)
  \/ ~SpellImpossible(p, q) /\ DropSpell(q, p, q)
  \/ /\ ~SpellImpossible(p, q) /\ ~SpellImpossible(q, p)
     /\ ~CanStoreItems(p, q) \/ ~CanStoreItems(q, p)
     /\ trade' = [trade EXCEPT ![p].accepted = FALSE, ![q].accepted = FALSE]
     /\ UNCHANGED <<owner, pack, money, enchanted>>
  \/ /\ ~SpellImpossible(p, q) /\ ~SpellImpossible(q, p)
     /\ CanStoreItems(p, q) /\ CanStoreItems(q, p)
     /\ Complete(p, q)

HandleAcceptTrade(p) ==
  LET q == Partner(p)
      Answer(a, b) == trade' = [trade EXCEPT ![p].accepted = a, ![q].accepted = b]
  IN
  /\ Trading(p)
  /\ CASE money[p] < trade[p].money ->
            Answer(FALSE, trade[q].accepted) /\ UNCHANGED <<owner, pack, money, enchanted>>
       [] money[p] >= trade[p].money /\ money[q] < trade[q].money ->
            Answer(TRUE, FALSE) /\ UNCHANGED <<owner, pack, money, enchanted>>
       [] OTHER ->
            IF Refused(p, q) \/ ~trade[q].accepted
            THEN Answer(TRUE, trade[q].accepted) /\ UNCHANGED <<owner, pack, money, enchanted>>
            ELSE Execute(p, q)
  /\ UNCHANGED <<online, blocked>>

-----------------------------------------------------------------------------
(* What happens to items and money outside of the window *)

Spoiled == blocked \cup {i \in Items : owner[i] = Nobody}

\* An item is sold, mailed, used up, or its time runs out: no handler but those
\* that destroy or split it asks whether it lies in a trade window.
ItemLeaves(i) ==
  /\ owner[i] # Nobody
  /\ Cardinality(Spoiled) < MaxSpoiled
  /\ owner' = [owner EXCEPT ![i] = Nobody]
  /\ UNCHANGED <<online, trade, pack, money, blocked, enchanted>>

\* The item is equipped and becomes soulbound, its loot is opened, the time in
\* which it may be traded is over.
ItemBlocked(i) ==
  /\ i \notin blocked
  /\ Cardinality(Spoiled) < MaxSpoiled
  /\ blocked' = blocked \cup {i}
  /\ UNCHANGED <<online, trade, owner, pack, money, enchanted>>

Spend(p) ==
  /\ p \in online
  /\ money[p] > 0
  /\ money' = [money EXCEPT ![p] = @ - 1]
  /\ UNCHANGED <<online, trade, owner, pack, blocked, enchanted>>

Remember ==
  seen' = [p \in Players |->
             IF trade'[p] = NoTrade \/ ~trade'[p].accepted THEN Nothing
             ELSE IF trade[p].accepted THEN seen[p]
             ELSE [with |-> Partner(p), give |-> Offer(p), take |-> Offer(Partner(p))]]

Next ==
  /\ \/ \E p, q \in Players : HandleInitiateTrade(p, q)
     \/ \E p \in Players :
          \/ HandleCancelTrade(p) \/ Logout(p) \/ Login(p)
          \/ HandleSetTradeGold(p) \/ HandleSetTradeItem(p)
          \/ HandleClearTradeItem(p) \/ CastOnTradeItem(p)
          \/ HandleUnacceptTrade(p) \/ HandleAcceptTrade(p)
          \/ Spend(p)
     \/ \E i \in Items : ItemLeaves(i) \/ ItemBlocked(i)
  /\ Remember

Spec == Init /\ [][Next]_vars

-----------------------------------------------------------------------------
(* Properties *)

\* m_trader is a plain pointer: whoever is in a window faces a partner who is
\* online and faces back, so no handler follows it to a deleted player.
Paired ==
  \A p \in Players : Trading(p) =>
    /\ {p, Partner(p)} \subseteq online
    /\ trade[Partner(p)].with = p

\* An item that is bound never reaches a player it must not be given to, even
\* when m_accepted is left set by an accept that was refused.
BoundStaysBound ==
  [][\A i \in Items :
       owner'[i] \in Players \ {owner[i]} => owner'[i] \in BoundTo[i]]_vars

\* No trade makes an item.  Fails: an item of which the other side cannot take
\* more goes back to its owner into a list that has a position for the item it
\* was swapped with, and StoreItem stores a copy there.
NothingCopied == pack = Pack

Exchange == INSTANCE FairExchange WITH consent <- seen

\* No consent is told from any terms.
ASSUME NoConsentAssumption == Nothing \notin Exchange!Terms

\* The window implements an exchange of exactly what both sides accepted: an
\* acceptance never outlives a change of the offer, moveItems gives no item to
\* the wrong side, money moves with the items, and no item is left behind, lost
\* or copied unless the whole exchange would exceed a player's limit of a kind.
ImplementsExchange == Exchange!Spec

=============================================================================
