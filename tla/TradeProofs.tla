---------------------------- MODULE TradeProofs -----------------------------
(***************************************************************************)
(* Proofs about Trade for any players, items, spells and slots.            *)
(***************************************************************************)
EXTENDS Trade, FiniteSetTheorems, TLAPS

\* The data of one side of a window.
Data == [with : Players, items : [Slots -> Items \cup {Nothing}], money : Nat,
         spell : Spells \cup {Nothing}, accepted : BOOLEAN]

\* What m_trade holds.
WindowOK == trade \in [Players -> {NoTrade} \cup Data] /\ online \subseteq Players

\* Paired with its types, and nobody faces himself: without that a change of
\* "the other side" could undo that of one's own.
PairInv ==
  /\ WindowOK
  /\ Paired
  /\ \A p \in Players : Trading(p) => Partner(p) # p

\* A player is in a window exactly when m_trader points to a player.
LEMMA TradingHasPartner ==
  ASSUME WindowOK, NEW p \in Players
  PROVE  /\ Trading(p) <=> trade[p] \in Data
         /\ Trading(p) <=> Partner(p) \in Players
         /\ ~Trading(p) <=> trade[p] = NoTrade
  BY TradeAssumption DEF WindowOK, Trading, Partner, NoTrade, Data

\* A step that leaves everybody's partner alone keeps the pairs.
LEMMA SamePartners ==
  ASSUME PairInv, online' = online, WindowOK',
         \A p \in Players : trade'[p].with = trade[p].with
  PROVE  PairInv'
<1>1. \A p \in Players : trade'[p] # NoTrade <=> trade'[p].with \in Players
  BY TradeAssumption DEF WindowOK, NoTrade, Data
<1>2. \A p \in Players : trade[p] # NoTrade <=> trade[p].with \in Players
  BY TradeAssumption DEF PairInv, WindowOK, NoTrade, Data
<1> QED
  BY <1>1, <1>2 DEF PairInv, Paired, Trading, Partner

\* Setting a part of the data of both sides of one window is such a step.
LEMMA BothSides ==
  ASSUME PairInv, NEW p \in Players, Trading(p),
         NEW d \in Data, NEW e \in Data,
         d.with = trade[p].with, e.with = trade[Partner(p)].with,
         trade' = [trade EXCEPT ![p] = d, ![Partner(p)] = e],
         online' = online
  PROVE  PairInv'
<1>1. Partner(p) \in Players
  BY TradingHasPartner DEF PairInv
<1>2. WindowOK'
  BY <1>1 DEF PairInv, WindowOK
<1>3. \A x \in Players : trade'[x].with = trade[x].with
  BY <1>1 DEF PairInv, WindowOK
<1> QED
  BY <1>2, <1>3, SamePartners

\* Closing the window of p for both sides keeps the other pairs, whoever else
\* is online.
LEMMA BothClosed ==
  ASSUME PairInv, NEW p \in Players, Trading(p),
         trade' = [trade EXCEPT ![p] = NoTrade, ![Partner(p)] = NoTrade],
         online' \subseteq Players, online \ {p} \subseteq online'
  PROVE  PairInv'
<1>1. Partner(p) \in Players /\ Trading(Partner(p)) /\ Partner(Partner(p)) = p
  BY TradingHasPartner DEF PairInv, Paired, Partner
<1>2. WindowOK'
  BY DEF PairInv, WindowOK
<1>3. ASSUME NEW x \in Players, trade'[x] # NoTrade
      PROVE  /\ x # p /\ x # Partner(p)
             /\ trade'[x] = trade[x] /\ Trading(x)
             /\ Partner(x) # p /\ Partner(x) # Partner(p)
             /\ Partner(x) \in Players
  <2>1. x # p /\ x # Partner(p) /\ trade'[x] = trade[x]
    BY <1>1, <1>3 DEF PairInv, WindowOK
  <2>2. Trading(x) /\ Partner(x) \in Players /\ Partner(Partner(x)) = x
    BY <1>3, <2>1, TradingHasPartner DEF PairInv, Paired, Trading, Partner
  <2> QED
    BY <1>1, <2>1, <2>2
<1>4. ASSUME NEW x \in Players, trade'[x] # NoTrade
      PROVE  trade'[trade'[x].with] = trade[trade[x].with]
  BY <1>3, <1>4 DEF PairInv, WindowOK, Partner
<1> QED
  BY <1>2, <1>3, <1>4 DEF PairInv, Paired, Trading, Partner

\* Setting a flag on both sides, with the rest of the data of p.
LEMMA FlagsSet ==
  ASSUME PairInv, NEW p \in Players, Trading(p), NEW d \in Data, NEW b \in BOOLEAN,
         d.with = trade[p].with, online' = online,
         trade' = [trade EXCEPT ![p] = d, ![Partner(p)].accepted = b]
  PROVE  PairInv'
<1> DEFINE e == [trade[Partner(p)] EXCEPT !.accepted = b]
<1>1. Partner(p) \in Players /\ Partner(p) # p /\ trade[Partner(p)] \in Data
  BY TradingHasPartner DEF PairInv, Paired, Partner, Trading
<1>2. e \in Data /\ e.with = trade[Partner(p)].with
  BY <1>1 DEF Data
<1>3. trade' = [trade EXCEPT ![p] = d, ![Partner(p)] = e]
  BY <1>1 DEF PairInv, WindowOK
<1> QED
  BY <1>2, <1>3, BothSides

\* TradeData::SetItem keeps the pairs.
LEMMA SetItemKeeps ==
  ASSUME PairInv, NEW p \in Players, Trading(p),
         NEW s \in Slots, NEW i \in Items \cup {Nothing}, SetItem(p, s, i)
  PROVE  PairInv'
<1> DEFINE d == [trade[p] EXCEPT !.items = [@ EXCEPT ![s] = i],
                                 !.spell = Nothing, !.accepted = FALSE]
           e == [trade[Partner(p)] EXCEPT
                   !.spell = IF s = NonTraded THEN Nothing ELSE @, !.accepted = FALSE]
<1>1. trade[p] \in Data /\ trade[Partner(p)] \in Data
  BY TradingHasPartner DEF PairInv, Paired, Partner, Trading
<1>2. d \in Data /\ d.with = trade[p].with
  BY <1>1 DEF Data
<1>3. e \in Data /\ e.with = trade[Partner(p)].with
  BY <1>1 DEF Data
<1> QED
  BY <1>2, <1>3, BothSides DEF SetItem

\* HandleAcceptTradeOpcode keeps the pairs: it sets flags, drops a spell, or
\* closes the window for both sides.
LEMMA AcceptKeeps ==
  ASSUME PairInv, NEW p \in Players, HandleAcceptTrade(p)
  PROVE  PairInv'
<1> DEFINE q == Partner(p)
<1>1. Trading(p) /\ online' = online
  BY DEF HandleAcceptTrade
<1>2. q \in Players /\ q # p /\ trade[p] \in Data /\ trade[q] \in Data
  BY <1>1, TradingHasPartner DEF PairInv, Paired, Partner, Trading
<1>3. ASSUME NEW a \in BOOLEAN, NEW b \in BOOLEAN,
             trade' = [trade EXCEPT ![p].accepted = a, ![q].accepted = b]
      PROVE  PairInv'
  <2> DEFINE d == [trade[p] EXCEPT !.accepted = a]
  <2>1. d \in Data /\ d.with = trade[p].with
    BY <1>2 DEF Data
  <2>2. trade' = [trade EXCEPT ![p] = d, ![q].accepted = b]
    BY <1>2, <1>3 DEF PairInv, WindowOK
  <2> QED
    BY <1>1, <2>1, <2>2, FlagsSet
<1>4. ASSUME NEW x \in {p, q}, DropSpell(x, p, q)
      PROVE  PairInv'
  <2> DEFINE d == IF x = p THEN [trade[p] EXCEPT !.accepted = FALSE, !.spell = Nothing]
                  ELSE [trade[p] EXCEPT !.accepted = FALSE]
             e == IF x = q THEN [trade[q] EXCEPT !.accepted = FALSE, !.spell = Nothing]
                  ELSE [trade[q] EXCEPT !.accepted = FALSE]
  <2>1. d \in Data /\ d.with = trade[p].with
    BY <1>2 DEF Data
  <2>2. e \in Data /\ e.with = trade[q].with
    BY <1>2 DEF Data
  <2>3. trade' = [trade EXCEPT ![p] = d, ![q] = e]
    <3>1. CASE x = p
      BY <1>2, <1>4, <3>1 DEF DropSpell, PairInv, WindowOK
    <3>2. CASE x = q
      BY <1>2, <1>4, <3>2 DEF DropSpell, PairInv, WindowOK
    <3> QED
      BY <1>4, <3>1, <3>2
  <2> QED
    BY <1>1, <2>1, <2>2, <2>3, BothSides
<1>5. CASE Complete(p, q)
  BY <1>1, <1>5, BothClosed DEF Complete, PairInv, WindowOK
<1>6. CASE Execute(p, q)
  BY <1>3, <1>4, <1>5, <1>6 DEF Execute
<1>7. trade[p].accepted \in BOOLEAN /\ trade[q].accepted \in BOOLEAN
  BY <1>2 DEF Data
<1> QED
  BY <1>3, <1>6, <1>7 DEF HandleAcceptTrade

\* Every handler keeps the pairs.
LEMMA PairStep == PairInv /\ [Next]_vars => PairInv'
<1> SUFFICES ASSUME PairInv, [Next]_vars PROVE PairInv'
  OBVIOUS
<1>1. CASE UNCHANGED <<trade, online>>
  BY <1>1 DEF PairInv, WindowOK, Paired, Trading, Partner
<1>2. ASSUME NEW p \in Players, NEW q \in Players, HandleInitiateTrade(p, q)
      PROVE  PairInv'
  <2>1. NewTrade(q) \in Data /\ NewTrade(p) \in Data
    BY DEF NewTrade, Data
  <2>2. /\ p # q /\ ~Trading(p) /\ ~Trading(q)
        /\ {p, q} \subseteq online /\ online' = online
        /\ trade' = [trade EXCEPT ![p] = NewTrade(q), ![q] = NewTrade(p)]
    BY <1>2 DEF HandleInitiateTrade
  <2>3. WindowOK'
    BY <2>1, <2>2 DEF PairInv, WindowOK
  <2>4. trade'[p].with = q /\ trade'[q].with = p
    BY <2>2 DEF PairInv, WindowOK, NewTrade
  <2>5. ASSUME NEW x \in Players \ {p, q}, trade'[x] # NoTrade
        PROVE  /\ trade'[x] = trade[x] /\ Trading(x)
               /\ Partner(x) \in Players \ {p, q}
    BY <2>2, <2>5, TradingHasPartner DEF PairInv, WindowOK, Paired, Trading, Partner
  <2>6. ASSUME NEW x \in Players \ {p, q}, trade'[x] # NoTrade
        PROVE  trade'[trade'[x].with] = trade[trade[x].with]
    BY <2>2, <2>5, <2>6 DEF PairInv, WindowOK, Partner
  <2>7. ASSUME NEW x \in Players, trade'[x] # NoTrade
        PROVE  /\ {x, trade'[x].with} \subseteq online'
               /\ trade'[trade'[x].with].with = x
               /\ trade'[x].with # x
    <3>1. CASE x \in {p, q}
      BY <2>2, <2>4, <3>1
    <3>2. CASE x \notin {p, q}
      <4>1. x \in Players \ {p, q}
        BY <3>2
      <4>2. trade'[x] = trade[x] /\ Trading(x)
        BY <2>5, <2>7, <4>1
      <4>3. trade'[trade'[x].with] = trade[trade[x].with]
        BY <2>6, <2>7, <4>1
      <4>4. /\ {x, trade[x].with} \subseteq online
            /\ trade[trade[x].with].with = x /\ trade[x].with # x
        BY <4>2 DEF PairInv, Paired, Partner
      <4> QED
        BY <2>2, <4>2, <4>3, <4>4
    <3> QED
      BY <3>1, <3>2
  <2> QED
    BY <2>3, <2>7 DEF PairInv, Paired, Trading, Partner
<1>3. ASSUME NEW p \in Players, HandleCancelTrade(p) PROVE PairInv'
  BY <1>3, BothClosed DEF HandleCancelTrade, TradeCancel, PairInv, WindowOK
<1>4. ASSUME NEW p \in Players, Logout(p) PROVE PairInv'
  <2>1. online' = online \ {p} /\ online' \subseteq Players
    BY <1>4 DEF Logout, PairInv, WindowOK
  <2>2. CASE Trading(p)
    BY <1>4, <2>1, <2>2, BothClosed DEF Logout, TradeCancel
  <2>3. CASE ~Trading(p)
    <3>1. trade' = trade
      BY <1>4, <2>3 DEF Logout, TradeCancel
    <3>2. \A x \in Players : Trading(x) => x # p /\ Partner(x) # p
      BY <2>3, TradingHasPartner DEF PairInv, Paired, Trading, Partner
    <3> QED
      BY <2>1, <3>1, <3>2 DEF PairInv, WindowOK, Paired, Trading, Partner
  <2> QED
    BY <2>2, <2>3
<1>5. ASSUME NEW p \in Players, Login(p) PROVE PairInv'
  BY <1>5 DEF Login, PairInv, WindowOK, Paired, Trading, Partner
<1>6. ASSUME NEW p \in Players, HandleSetTradeGold(p) PROVE PairInv'
  <2>1. PICK m \in Prices : SetMoney(p, m)
    BY <1>6 DEF HandleSetTradeGold
  <2>2. Trading(p) /\ trade[p] \in Data /\ m \in Nat
    BY <1>6, TradingHasPartner, TradeAssumption DEF HandleSetTradeGold, PairInv
  <2>3. /\ [trade[p] EXCEPT !.money = m, !.accepted = FALSE] \in Data
        /\ [trade[p] EXCEPT !.money = m, !.accepted = FALSE].with = trade[p].with
    BY <2>2 DEF Data
  <2> QED
    BY <2>1, <2>2, <2>3, FlagsSet DEF SetMoney, Changed
<1>7. ASSUME NEW p \in Players, HandleSetTradeItem(p) PROVE PairInv'
  BY <1>7, SetItemKeeps DEF HandleSetTradeItem
<1>8. ASSUME NEW p \in Players, HandleClearTradeItem(p) PROVE PairInv'
  BY <1>8, SetItemKeeps DEF HandleClearTradeItem
<1>9. ASSUME NEW p \in Players, CastOnTradeItem(p) PROVE PairInv'
  <2>1. PICK s \in Spells : SetSpell(p, s)
    BY <1>9 DEF CastOnTradeItem
  <2>2. Trading(p) /\ trade[p] \in Data
    BY <1>9, TradingHasPartner DEF CastOnTradeItem, PairInv
  <2>3. /\ [trade[p] EXCEPT !.spell = s, !.accepted = FALSE] \in Data
        /\ [trade[p] EXCEPT !.spell = s, !.accepted = FALSE].with = trade[p].with
    BY <2>2 DEF Data
  <2> QED
    BY <2>1, <2>2, <2>3, FlagsSet DEF SetSpell, Changed
<1>10. ASSUME NEW p \in Players, HandleUnacceptTrade(p) PROVE PairInv'
  <2>1. /\ Trading(p) /\ online' = online /\ trade[p] \in Data
        /\ trade' = [trade EXCEPT ![p].accepted = FALSE]
    BY <1>10, TradingHasPartner DEF HandleUnacceptTrade, PairInv
  <2>2. WindowOK' /\ \A x \in Players : trade'[x].with = trade[x].with
    BY <2>1 DEF PairInv, WindowOK, Data
  <2> QED
    BY <2>1, <2>2, SamePartners
<1>11. ASSUME NEW p \in Players, HandleAcceptTrade(p) PROVE PairInv'
  BY <1>11, AcceptKeeps
<1>12. ASSUME NEW p \in Players, Spend(p) PROVE PairInv'
  BY <1>1, <1>12 DEF Spend
<1>13. ASSUME NEW i \in Items, ItemLeaves(i) \/ ItemBlocked(i) PROVE PairInv'
  BY <1>1, <1>13 DEF ItemLeaves, ItemBlocked
<1>14. CASE UNCHANGED vars
  BY <1>1, <1>14 DEF vars
<1> QED
  BY <1>2, <1>3, <1>4, <1>5, <1>6, <1>7, <1>8, <1>9, <1>10, <1>11, <1>12,
     <1>13, <1>14 DEF Next

\* The windows are paired in every state.
THEOREM PairsInvariant == Spec => []PairInv
<1>1. Init => PairInv
  BY DEF Init, PairInv, WindowOK, Paired, Trading
<1> QED
  BY <1>1, PairStep, PTL DEF Spec

\* Whoever is in a trade window faces a partner who is online and faces back,
\* whatever both sides and the clock do: no trade handler and no TradeCancel
\* follows m_trader to a player who is gone.
THEOREM WindowsArePaired == Spec => []Paired
<1>1. PairInv => Paired
  BY DEF PairInv
<1> QED
  BY <1>1, PairsInvariant, PTL

-----------------------------------------------------------------------------
(* moveItems *)

\* A set of naturals that is not empty has a least element.
LEMMA LeastElement ==
  ASSUME NEW T, T \subseteq Nat, T # {}
  PROVE  \E n \in T : \A m \in T : n <= m
<1>1. IsWellFoundedOn(OpToRel(<, Nat), Nat)
  BY NatLessThanWellFounded
<1>2. PICK n \in T : \A m \in T : <<m, n>> \notin OpToRel(<, Nat)
  BY <1>1, WFMin
<1>3. \A m \in T : ~(m < n)
  BY <1>2 DEF OpToRel
<1> QED
  BY <1>3

\* No side has an item in two slots of its window.
OneSlotEach ==
  \A p \in Players : Trading(p) =>
    \A s, t \in Slots :
      trade[p].items[s] = trade[p].items[t] /\ trade[p].items[s] # Nothing => s = t

\* Where items and money are.
PurseOK ==
  /\ owner \in [Items -> Players \cup {Nobody}]
  /\ pack \in [Players -> Seq(Kinds)]
  /\ money \in [Players -> 0..MaxMoney]

\* The owners when the slots up to k have been moved.
Swapped(p, q, k) ==
  [i \in Items |-> IF \E s \in 1..k : GetItem(p, s) = i THEN q
                   ELSE IF \E s \in 1..k : GetItem(q, s) = i THEN p
                   ELSE IF i \in ItemsOf(p) \cup ItemsOf(q) THEN Nobody ELSE owner[i]]

\* GetItem finds items of its own side only.
LEMMA GetItemOf ==
  ASSUME PairInv, PurseOK, NEW p \in Players, Trading(p), NEW s \in Slots,
         GetItem(p, s) # Nothing
  PROVE  GetItem(p, s) = trade[p].items[s] /\ GetItem(p, s) \in Items
         /\ owner[GetItem(p, s)] = p
<1>1. trade[p] \in Data
  BY TradingHasPartner DEF PairInv
<1> QED
  BY <1>1 DEF GetItem, Data

\* The items of a side are finitely many, and they are its own.
LEMMA ItemsOfOwn ==
  ASSUME PairInv, PurseOK, NEW p \in Players, Trading(p)
  PROVE  /\ ItemsOf(p) \subseteq Items /\ IsFiniteSet(ItemsOf(p))
         /\ \A i \in ItemsOf(p) : owner[i] = p
         /\ \A s \in 1..TradedSlots : GetItem(p, s) # Nothing => GetItem(p, s) \in ItemsOf(p)
         /\ \A i \in ItemsOf(p) : \E s \in 1..TradedSlots : GetItem(p, s) = i
<1>0. 1..TradedSlots \subseteq Slots
  BY TradeAssumption DEF Slots, NonTraded
<1>1. \A i \in ItemsOf(p) : i \in Items /\ owner[i] = p
  BY <1>0, GetItemOf DEF ItemsOf
<1>2. IsFiniteSet(ItemsOf(p))
  BY <1>1, TradeAssumption, FS_Subset
<1> QED
  BY <1>1, <1>2 DEF ItemsOf

\* The whole exchange of what p and q offer.
Full(p, q) ==
  [i \in Items |-> IF i \in ItemsOf(p) THEN q
                   ELSE IF i \in ItemsOf(q) THEN p ELSE owner[i]]

\* The items that have been stored with x, while what h stands for has not.
Towards(p, q, o, x, h) ==
  \A i \in Items : o[i] = x => Full(p, q)[i] = x /\ i # h

\* The inventories when the slots up to k have been swapped.
Stage(p, q, k) == [owner |-> Swapped(p, q, k), pack |-> pack]

\* What the last part of HandleAcceptTradeOpcode knows when it moves the items.
Ready(p, q) ==
  /\ PairInv /\ PurseOK /\ OneSlotEach
  /\ Trading(p) /\ q = Partner(p)
  /\ CanStoreItems(p, q) /\ CanStoreItems(q, p)

\* The two sides of a window are told apart, and so are their items.
LEMMA ReadySides ==
  ASSUME NEW p \in Players, NEW q \in Players, Ready(p, q)
  PROVE  /\ Trading(p) /\ Trading(q) /\ p # q /\ p = Partner(q) /\ q = Partner(p)
         /\ Nobody # p /\ Nobody # q
         /\ \A s, t \in Slots : GetItem(p, s) # Nothing => GetItem(p, s) # GetItem(q, t)
<1>1. Trading(p) /\ Trading(q) /\ p # q /\ p = Partner(q) /\ q = Partner(p)
  BY TradingHasPartner DEF Ready, PairInv, Paired, Partner, Trading
<1>2. ASSUME NEW s \in Slots, NEW t \in Slots, GetItem(p, s) # Nothing
      PROVE  GetItem(p, s) # GetItem(q, t)
  BY <1>1, <1>2, GetItemOf DEF Ready
<1> QED
  BY <1>1, <1>2, TradeAssumption

\* An item less, a smaller set.
LEMMA OneLess ==
  ASSUME NEW B, IsFiniteSet(B), NEW h \in B, NEW A, A \subseteq B \ {h}
  PROVE  /\ IsFiniteSet(A) /\ Cardinality(A) \in Nat /\ Cardinality(B) \in Nat
         /\ Cardinality(A) + 1 <= Cardinality(B)
<1>1. /\ IsFiniteSet(B \ {h}) /\ Cardinality(B \ {h}) = Cardinality(B) - 1
      /\ Cardinality(B) \in Nat
  BY FS_RemoveElement, FS_CardinalityType
<1>2. IsFiniteSet(A) /\ Cardinality(A) <= Cardinality(B \ {h})
  BY <1>1, FS_Subset
<1>3. Cardinality(A) \in Nat
  BY <1>2, FS_CardinalityType
<1> QED
  BY <1>1, <1>2, <1>3

\* While not all that q gives has been moved, p has room for one item more.
LEMMA RoomLeft ==
  ASSUME PairInv, PurseOK, NEW p \in Players, Trading(p),
         NEW q \in Players, q = Partner(p), CanStoreItems(p, q),
         NEW h \in ItemsOf(q), NEW b, b.pack = pack,
         \A i \in Items : b.owner[i] = p =>
           i # h /\ ((owner[i] = p /\ i \notin ItemsOf(p)) \/ i \in ItemsOf(q))
  PROVE  Count(b, p) < Room[p]
<1> DEFINE A == {i \in Items : owner[i] = p}
           P == ItemsOf(p)
           Q == ItemsOf(q)
           S == {i \in Items : b.owner[i] = p}
           L == Len(pack[p])
<1>1. Trading(q) /\ p # q /\ Nobody # p
  BY TradeAssumption, TradingHasPartner DEF PairInv, Paired, Partner, Trading
<1>2. /\ P \subseteq Items /\ IsFiniteSet(P) /\ \A i \in P : owner[i] = p
      /\ Q \subseteq Items /\ IsFiniteSet(Q) /\ \A i \in Q : owner[i] = q
  BY <1>1, ItemsOfOwn
<1>3. IsFiniteSet(A) /\ P \subseteq A
  BY <1>2, TradeAssumption, FS_Subset
<1>4. L \in Nat
  BY DEF PurseOK
<1>5. S \subseteq ((A \ P) \cup Q) \ {h} /\ h \in (A \ P) \cup Q
  OBVIOUS
<1>6. Count(Bags, p) = Cardinality(A) + L
  BY DEF Count, Bags
<1>7. Count(b, p) = Cardinality(S) + L
  BY DEF Count
<1> HIDE DEF A, P, Q, S, L
<1>8. /\ IsFiniteSet(A \ P) /\ Cardinality(A \ P) = Cardinality(A) - Cardinality(P)
      /\ Cardinality(A) \in Nat /\ Cardinality(P) \in Nat /\ Cardinality(A \ P) \in Nat
      /\ Cardinality(Q) \in Nat
  <2>1. A \cap P = P
    BY <1>3
  <2>2. IsFiniteSet(A \ P) /\ Cardinality(A \ P) = Cardinality(A) - Cardinality(A \cap P)
    BY <1>3, FS_Difference
  <2>3. /\ Cardinality(A) \in Nat /\ Cardinality(P) \in Nat /\ Cardinality(A \ P) \in Nat
        /\ Cardinality(Q) \in Nat
    BY <1>2, <1>3, <2>2, FS_CardinalityType
  <2> QED
    BY <2>1, <2>2, <2>3
<1>9. /\ IsFiniteSet((A \ P) \cup Q)
      /\ Cardinality((A \ P) \cup Q) <= Cardinality(A \ P) + Cardinality(Q)
  <2> DEFINE V == (A \ P) \cap Q
  <2>1. /\ IsFiniteSet((A \ P) \cup Q)
        /\ Cardinality((A \ P) \cup Q) = Cardinality(A \ P) + Cardinality(Q) - Cardinality(V)
    BY <1>2, <1>8, FS_Union
  <2>2. Cardinality(V) \in Nat
    BY <1>8, FS_Intersection, FS_CardinalityType
  <2> HIDE DEF V
  <2> QED
    BY <1>8, <2>1, <2>2
<1>10. /\ Cardinality(S) \in Nat /\ Cardinality((A \ P) \cup Q) \in Nat
       /\ Cardinality(S) + 1 <= Cardinality((A \ P) \cup Q)
  BY <1>5, <1>9, OneLess
<1>11. Cardinality(A) + L - Cardinality(P) + Cardinality(Q) <= Room[p] /\ Room[p] \in Nat
  <2>1. Count(Bags, p) - Cardinality(P) + Cardinality(Q) <= Room[p]
    BY DEF CanStoreItems, P, Q
  <2>2. Room[p] \in Nat
    BY TradeAssumption
  <2> QED
    BY <1>4, <1>6, <1>8, <2>1, <2>2
<1>12. Cardinality(S) + L < Room[p]
  BY <1>4, <1>8, <1>9, <1>10, <1>11
<1> QED
  BY <1>7, <1>12

\* While h has not been moved to x, x has less than its limit of that kind, if
\* the whole exchange leaves x within it.
LEMMA LimitLeft ==
  ASSUME PurseOK, NEW p \in Players, NEW q \in Players, NEW x \in Players,
         NEW h \in Items, Full(p, q)[h] = x, ~Exchange!OverLimit(Full(p, q), x),
         NEW b, b.pack = pack, Towards(p, q, b.owner, x, h)
  PROVE  CanTakeMoreSimilarItems(b, x, h)
<1> DEFINE k == Kind[h]
           A == {j \in Items \ {h} : b.owner[j] = x /\ Kind[j] = k}
           B == {i \in Items : Full(p, q)[i] = x /\ Kind[i] = k}
           N == Cardinality({n \in DOMAIN pack[x] : pack[x][n] = k})
<1>1. k \in Kinds /\ Limit[k] \in Nat
  BY TradeAssumption
<1>2. IsFiniteSet(B)
  BY TradeAssumption, FS_Subset
<1>3. A \subseteq B \ {h} /\ h \in B
  BY DEF Towards
<1>4. N \in Nat
  <2>1. pack[x] \in Seq(Kinds)
    BY DEF PurseOK
  <2>2. DOMAIN pack[x] = 1..Len(pack[x]) /\ Len(pack[x]) \in Nat
    BY <2>1
  <2>3. IsFiniteSet(1..Len(pack[x]))
    BY <2>2, FS_Interval
  <2>4. IsFiniteSet({n \in DOMAIN pack[x] : pack[x][n] = k})
    BY <2>2, <2>3, FS_Subset
  <2> QED
    BY <2>4, FS_CardinalityType
<1>5. Exchange!Held(Full(p, q), x, k) = Cardinality(B) + N
  <2> HIDE DEF k
  <2> QED
    BY Zenon DEF Exchange!Held, Exchange!Cardinality, Cardinality
<1>6. Similar(b, x, k, h) = Cardinality(A) + N
  BY DEF Similar
<1>7. Limit[k] = 0 \/ ~(Cardinality(B) + N > Limit[k])
  BY <1>1, <1>5 DEF Exchange!OverLimit
<1> HIDE DEF A, B, N, k
<1>8. /\ Cardinality(A) \in Nat /\ Cardinality(B) \in Nat
      /\ Cardinality(A) + 1 <= Cardinality(B)
  BY <1>2, <1>3, OneLess
<1>9. Limit[k] = 0 \/ Cardinality(A) + N + 1 <= Limit[k]
  BY <1>1, <1>4, <1>7, <1>8
<1> QED
  BY <1>6, <1>9 DEF CanTakeMoreSimilarItems, k

\* The item in slot k of one side can be stored with the other when the slots
\* before it have been swapped.
LEMMA CanStoreNext ==
  ASSUME NEW p \in Players, NEW q \in Players, Ready(p, q), NEW k \in 1..TradedSlots,
         ~Exchange!OverLimit(Full(p, q), p), GetItem(q, k) # Nothing,
         NEW b, b.pack = pack,
         \A i \in Items : b.owner[i] = p =>
           \/ owner[i] = p /\ i \notin ItemsOf(p)
           \/ \E s \in 1..(k - 1) : GetItem(q, s) = i
  PROVE  CanStoreItem(b, p, GetItem(q, k), 0)
<1> DEFINE h == GetItem(q, k)
<1>0. /\ 1..TradedSlots \subseteq Slots /\ k \in Slots /\ k \in Nat
      /\ 1..(k - 1) \subseteq 1..TradedSlots /\ k \notin 1..(k - 1) /\ Nothing \notin Items
  BY TradeAssumption DEF Slots, NonTraded
<1>1. Trading(p) /\ Trading(q) /\ p # q /\ q = Partner(p)
  BY ReadySides
<1>2. /\ PairInv /\ PurseOK /\ OneSlotEach /\ CanStoreItems(p, q)
  BY DEF Ready
<1>3. /\ h \in ItemsOf(q) /\ h \in Items
      /\ \A i \in ItemsOf(p) : owner[i] = p
      /\ \A i \in ItemsOf(q) : owner[i] = q
      /\ \A s \in 1..TradedSlots : GetItem(q, s) # Nothing => GetItem(q, s) \in ItemsOf(q)
  BY <1>1, <1>2, ItemsOfOwn
<1>4. ASSUME NEW s \in 1..(k - 1), GetItem(q, s) = h PROVE FALSE
  <2>1. s \in Slots /\ k \in Slots /\ s # k
    BY <1>0
  <2>2. trade[q].items[s] = h /\ trade[q].items[k] = h /\ h # Nothing
    BY <1>1, <1>2, <1>4, <2>1, GetItemOf
  <2> QED
    BY <1>1, <1>2, <2>1, <2>2 DEF OneSlotEach
<1>5. ASSUME NEW i \in Items, b.owner[i] = p
      PROVE  i # h /\ ((owner[i] = p /\ i \notin ItemsOf(p)) \/ i \in ItemsOf(q))
  <2>1. CASE owner[i] = p /\ i \notin ItemsOf(p)
    BY <1>1, <1>3, <2>1
  <2>2. ASSUME NEW s \in 1..(k - 1), GetItem(q, s) = i
        PROVE  i # h /\ i \in ItemsOf(q)
    BY <1>0, <1>3, <1>4, <2>2
  <2> QED
    BY <1>5, <2>1, <2>2
<1> HIDE DEF h
<1>6. Count(b, p) < Room[p]
  BY <1>1, <1>2, <1>3, <1>5, RoomLeft
<1>7. Full(p, q)[h] = p
  BY <1>1, <1>3 DEF Full
<1>8. Towards(p, q, b.owner, p, h)
  <2> SUFFICES ASSUME NEW i \in Items, b.owner[i] = p
               PROVE  Full(p, q)[i] = p /\ i # h
    BY DEF Towards
  <2>1. i # h /\ ((owner[i] = p /\ i \notin ItemsOf(p)) \/ i \in ItemsOf(q))
    BY <1>5
  <2> QED
    BY <1>1, <1>3, <2>1 DEF Full
<1>9. CanTakeMoreSimilarItems(b, p, h)
  BY <1>2, <1>3, <1>7, <1>8, LimitLeft
<1>10. ~IsBindedNotWith(h, p)
  BY <1>2, <1>3 DEF CanStoreItems
<1>11. Count(b, p) + 0 < Room[p]
  <2>1. Count(b, p) \in Nat
    <3>1. Cardinality({i \in Items : b.owner[i] = p}) \in Nat
      BY TradeAssumption, FS_Subset, FS_CardinalityType
    <3>2. Len(b.pack[p]) \in Nat
      BY <1>2 DEF PurseOK
    <3> QED
      BY <3>1, <3>2 DEF Count
  <2> QED
    BY <1>6, <2>1
<1> QED
  BY <1>9, <1>10, <1>11 DEF CanStoreItem, h

\* Every round of moveItems swaps both items of its slot, if the whole exchange
\* leaves both sides within their limits.
LEMMA MoveOne ==
  ASSUME NEW p \in Players, NEW q \in Players, Ready(p, q), Ready(q, p),
         ~Exchange!OverLimit(Full(p, q), p), ~Exchange!OverLimit(Full(q, p), q),
         NEW k \in 1..TradedSlots
  PROVE  MoveSlot(p, q, Stage(p, q, k - 1), k) = Stage(p, q, k)
<1> DEFINE b == Stage(p, q, k - 1)
           mine == GetItem(p, k)
           his == GetItem(q, k)
<1>0. /\ 1..TradedSlots \subseteq Slots /\ k \in Slots /\ k \in Nat
      /\ 1..(k - 1) \subseteq Slots /\ 1..k = 1..(k - 1) \cup {k}
      /\ Nothing \notin Items
  BY TradeAssumption DEF Slots, NonTraded
<1>1. /\ p # q /\ Nobody # p /\ Nobody # q
      /\ \A s, t \in Slots : GetItem(p, s) # Nothing => GetItem(p, s) # GetItem(q, t)
  BY ReadySides
<1>2. b.owner = Swapped(p, q, k - 1) /\ b.pack = pack
  BY DEF Stage
<1>3. \A i \in Items : b.owner[i] = q =>
          \/ owner[i] = q /\ i \notin ItemsOf(q)
          \/ \E s \in 1..(k - 1) : GetItem(p, s) = i
  BY <1>1, <1>2 DEF Swapped
<1>4. \A i \in Items : b.owner[i] = p =>
          \/ owner[i] = p /\ i \notin ItemsOf(p)
          \/ \E s \in 1..(k - 1) : GetItem(q, s) = i
  BY <1>1, <1>2 DEF Swapped
<1>5. CanTrade(p, q, b, k)
  <2> HIDE DEF b
  <2>1. mine = Nothing \/ CanStoreItem(b, q, mine, 0)
    BY <1>2, <1>3, CanStoreNext
  <2>2. his = Nothing \/ CanStoreItem(b, p, his, 0)
    BY <1>2, <1>4, CanStoreNext
  <2> QED
    BY <2>1, <2>2 DEF CanTrade
<1>6. MoveSlot(p, q, b, k) =
        [owner |-> [i \in Items |-> IF i = mine THEN q ELSE IF i = his THEN p ELSE b.owner[i]],
         pack |-> pack]
  <2> HIDE DEF b
  <2> QED
    BY <1>2, <1>5 DEF MoveSlot
<1>7. ASSUME NEW i \in Items
      PROVE  (IF i = mine THEN q ELSE IF i = his THEN p ELSE b.owner[i]) = Swapped(p, q, k)[i]
  <2>1. (\E s \in 1..k : GetItem(p, s) = i) <=> mine = i \/ \E s \in 1..(k - 1) : GetItem(p, s) = i
    BY <1>0
  <2>2. (\E s \in 1..k : GetItem(q, s) = i) <=> his = i \/ \E s \in 1..(k - 1) : GetItem(q, s) = i
    BY <1>0
  <2>3. i = his => ~ \E s \in 1..(k - 1) : GetItem(p, s) = i
    BY <1>0, <1>1
  <2> HIDE DEF b, mine, his
  <2>4. b.owner[i] = IF \E s \in 1..(k - 1) : GetItem(p, s) = i THEN q
                     ELSE IF \E s \in 1..(k - 1) : GetItem(q, s) = i THEN p
                     ELSE IF i \in ItemsOf(p) \cup ItemsOf(q) THEN Nobody ELSE owner[i]
    BY <1>2 DEF Swapped
  <2>5. Swapped(p, q, k)[i] = IF \E s \in 1..k : GetItem(p, s) = i THEN q
                     ELSE IF \E s \in 1..k : GetItem(q, s) = i THEN p
                     ELSE IF i \in ItemsOf(p) \cup ItemsOf(q) THEN Nobody ELSE owner[i]
    BY DEF Swapped
  <2> QED
    BY <2>1, <2>2, <2>3, <2>4, <2>5
<1>8. Swapped(p, q, k) = [i \in Items |-> Swapped(p, q, k)[i]]
  BY DEF Swapped
<1> HIDE DEF b, mine, his
<1>9. [i \in Items |-> IF i = mine THEN q ELSE IF i = his THEN p ELSE b.owner[i]]
        = Swapped(p, q, k)
  BY <1>7, <1>8
<1> QED
  BY <1>6, <1>9 DEF Stage, b

\* The inventories before the first round of moveItems.
Removed(p, q) ==
  [owner |-> [i \in Items |-> IF i \in ItemsOf(p) \cup ItemsOf(q)
                              THEN Nobody ELSE owner[i]],
   pack |-> pack]

\* f holds the inventories after every round up to the n-th.
IsRun(p, q, f, n) ==
  f = [s \in 0..n |-> IF s = 0 THEN Removed(p, q) ELSE MoveSlot(p, q, f[s - 1], s)]

\* The recursion of moveItems has a solution.
LEMMA RunExists ==
  ASSUME NEW p, NEW q
  PROVE  \E f : IsRun(p, q, f, TradedSlots)
<1> DEFINE T == {n \in 0..TradedSlots : ~ \E f : IsRun(p, q, f, n)}
<1>0. TradedSlots \in Nat
  BY TradeAssumption
<1>1. ASSUME NEW n \in T, \A m \in T : n <= m PROVE FALSE
  <2>1. CASE n = 0
    <3> DEFINE f == [s \in 0..0 |-> Removed(p, q)]
    <3>1. \A s \in 0..0 : s = 0
      OBVIOUS
    <3>2. IsRun(p, q, f, 0)
      BY <3>1 DEF IsRun
    <3> QED
      BY <2>1, <3>2
  <2>2. CASE n # 0
    <3>1. n \in Nat /\ n - 1 \in 0..TradedSlots /\ ~(n <= n - 1) /\ n - 1 \in Nat
      BY <1>0, <2>2
    <3>2. PICK f : IsRun(p, q, f, n - 1)
      BY <1>1, <3>1
    <3> DEFINE g == [s \in 0..n |-> IF s = n THEN MoveSlot(p, q, f[n - 1], n) ELSE f[s]]
    <3>3. ASSUME NEW s \in 0..n
          PROVE  g[s] = IF s = 0 THEN Removed(p, q) ELSE MoveSlot(p, q, g[s - 1], s)
      <4>1. CASE s = n
        <5>1. s - 1 \in 0..n /\ s - 1 # n
          BY <2>2, <3>1, <4>1
        <5>2. g[s - 1] = f[n - 1]
          BY <4>1, <5>1
        <5> QED
          BY <2>2, <4>1, <5>2
      <4>2. CASE s # n /\ s = 0
        <5>1. s \in 0..(n - 1)
          BY <3>1, <4>2
        <5>2. f[s] = Removed(p, q)
          BY <3>2, <4>2, <5>1 DEF IsRun
        <5> QED
          BY <4>2, <5>2
      <4>3. CASE s # n /\ s # 0
        <5>1. s \in 0..(n - 1) /\ s - 1 \in 0..n /\ s - 1 # n
          BY <3>1, <4>3
        <5>2. f[s] = MoveSlot(p, q, f[s - 1], s)
          BY <3>2, <4>3, <5>1 DEF IsRun
        <5>3. g[s - 1] = f[s - 1] /\ g[s] = f[s]
          BY <4>3, <5>1
        <5> QED
          BY <4>3, <5>2, <5>3
      <4> QED
        BY <4>1, <4>2, <4>3
    <3>4. g = [s \in 0..n |-> g[s]]
      OBVIOUS
    <3> HIDE DEF g
    <3>5. IsRun(p, q, g, n)
      BY <3>3, <3>4 DEF IsRun
    <3> QED
      BY <3>5
  <2> QED
    BY <2>1, <2>2
<1>2. T \subseteq Nat
  BY <1>0
<1> HIDE DEF T
<1>3. T = {}
  BY <1>1, <1>2, LeastElement
<1>4. TradedSlots \in 0..TradedSlots
  BY <1>0
<1> QED
  BY <1>3, <1>4 DEF T

\* What moveItems computes is the last of such a run.
LEMMA MoveItemsRun ==
  ASSUME NEW p, NEW q
  PROVE  \E f : /\ moveItems(p, q) = f[TradedSlots]
                /\ f[0] = Removed(p, q)
                /\ \A s \in 1..TradedSlots : f[s] = MoveSlot(p, q, f[s - 1], s)
<1> DEFINE after == CHOOSE f : IsRun(p, q, f, TradedSlots)
<1>1. IsRun(p, q, after, TradedSlots)
  BY RunExists
<1>2. moveItems(p, q) = after[TradedSlots]
  BY DEF moveItems, IsRun, Removed
<1> HIDE DEF after
<1>3. after[0] = Removed(p, q)
  BY <1>1, TradeAssumption DEF IsRun
<1>4. ASSUME NEW s \in 1..TradedSlots PROVE after[s] = MoveSlot(p, q, after[s - 1], s)
  <2>1. s \in 0..TradedSlots /\ s # 0
    BY TradeAssumption
  <2> QED
    BY <1>1, <2>1 DEF IsRun
<1> QED
  BY <1>2, <1>3, <1>4

\* moveItems ends where the whole exchange would, if that leaves both sides
\* within their limits.
LEMMA MoveItemsOf ==
  ASSUME NEW p \in Players, NEW q \in Players, Ready(p, q), Ready(q, p),
         ~Exchange!OverLimit(Full(p, q), p), ~Exchange!OverLimit(Full(q, p), q)
  PROVE  moveItems(p, q).owner = Full(p, q) /\ moveItems(p, q).pack = pack
<1>1. PICK f : /\ moveItems(p, q) = f[TradedSlots]
               /\ f[0] = Removed(p, q)
               /\ \A s \in 1..TradedSlots : f[s] = MoveSlot(p, q, f[s - 1], s)
  BY MoveItemsRun
<1> DEFINE T == {s \in 0..TradedSlots : f[s] # Stage(p, q, s)}
<1>0. TradedSlots \in Nat
  BY TradeAssumption
<1>2. f[0] = Stage(p, q, 0)
  BY <1>1 DEF Stage, Swapped, Removed
<1>3. ASSUME NEW n \in T, \A m \in T : n <= m PROVE FALSE
  <2>1. n \in 1..TradedSlots /\ n - 1 \in 0..TradedSlots /\ ~(n <= n - 1)
    BY <1>0, <1>2
  <2>2. f[n - 1] = Stage(p, q, n - 1)
    BY <1>3, <2>1
  <2> QED
    BY <1>1, <2>1, <2>2, MoveOne
<1>4. T \subseteq Nat
  BY <1>0
<1>5. T = {}
  <2> HIDE DEF T
  <2> QED
    BY <1>3, <1>4, LeastElement
<1>6. f[TradedSlots] = Stage(p, q, TradedSlots)
  BY <1>0, <1>5
<1>7. ASSUME NEW i \in Items
      PROVE  /\ (\E s \in 1..TradedSlots : GetItem(p, s) = i) <=> i \in ItemsOf(p)
             /\ (\E s \in 1..TradedSlots : GetItem(q, s) = i) <=> i \in ItemsOf(q)
  BY TradeAssumption DEF ItemsOf
<1>8. Swapped(p, q, TradedSlots) = Full(p, q)
  BY <1>7 DEF Swapped, Full
<1> QED
  BY <1>1, <1>6, <1>8 DEF Stage

\* Whatever the limits, no round touches what is not in the trade, an item goes
\* to one of the two sides or is lost, and only their inventories get copies.
Mixed(p, q, b) ==
  /\ b.owner \in [Items -> Players \cup {Nobody}]
  /\ \A i \in Items : b.owner[i] \in IF i \in ItemsOf(p) \cup ItemsOf(q)
                                     THEN {p, q, Nobody} ELSE {owner[i]}
  /\ b.pack \in [Players -> Seq(Kinds)]
  /\ \A x \in Players \ {p, q} : b.pack[x] = pack[x]

LEMMA RoundMixes ==
  ASSUME NEW p \in Players, NEW q \in Players, Ready(p, q), NEW k \in 1..TradedSlots,
         NEW b, Mixed(p, q, b)
  PROVE  Mixed(p, q, MoveSlot(p, q, b, k))
<1> DEFINE c == MoveSlot(p, q, b, k)
           mine == GetItem(p, k)
           his == GetItem(q, k)
<1>0. PairInv /\ PurseOK /\ Trading(p) /\ Trading(q)
  BY ReadySides DEF Ready
<1>1. /\ mine # Nothing => mine \in ItemsOf(p) /\ mine \in Items
      /\ his # Nothing => his \in ItemsOf(q) /\ his \in Items
      /\ Nothing \notin Items
  BY <1>0, ItemsOfOwn, TradeAssumption
<1>2. /\ DOMAIN c.owner = Items /\ c.owner = [i \in Items |-> c.owner[i]]
      /\ \A i \in Items : \/ i = mine /\ c.owner[i] \in {p, q, Nobody}
                          \/ i = his /\ c.owner[i] \in {p, q, Nobody}
                          \/ c.owner[i] = b.owner[i]
  BY DEF MoveSlot
<1>3. ASSUME NEW x, NEW i, NEW other, i # Nothing => i \in Items
      PROVE  Copied(b, x, i, other) \in Seq(Kinds)
  BY <1>3, TradeAssumption DEF Copied
<1>4. c.pack \in [Players -> Seq(Kinds)] /\ \A x \in Players \ {p, q} : c.pack[x] = pack[x]
  <2>1. CASE CanTrade(p, q, b, k)
    BY <2>1 DEF MoveSlot, Mixed
  <2>2. CASE ~CanTrade(p, q, b, k)
    <3> DEFINE m == Copied(b, p, mine, his)
               h == Copied(b, q, his, mine)
    <3>1. m \in Seq(Kinds) /\ h \in Seq(Kinds)
      BY <1>1, <1>3
    <3>2. c.pack = [b.pack EXCEPT ![p] = @ \o m, ![q] = @ \o h]
      BY <2>2 DEF MoveSlot
    <3> HIDE DEF m, h, c
    <3>3. p # q /\ b.pack \in [Players -> Seq(Kinds)]
      BY ReadySides DEF Mixed
    <3>4. b.pack[p] \o m \in Seq(Kinds) /\ b.pack[q] \o h \in Seq(Kinds)
      BY <3>1, <3>3
    <3>5. c.pack = [b.pack EXCEPT ![p] = b.pack[p] \o m, ![q] = b.pack[q] \o h]
      BY <3>2, <3>3
    <3> QED
      BY <3>3, <3>4, <3>5 DEF Mixed
  <2> QED
    BY <2>1, <2>2
<1> HIDE DEF c, mine, his
<1>5. \A i \in Items : c.owner[i] \in IF i \in ItemsOf(p) \cup ItemsOf(q)
                                      THEN {p, q, Nobody} ELSE {owner[i]}
  <2> SUFFICES ASSUME NEW i \in Items
               PROVE  c.owner[i] \in IF i \in ItemsOf(p) \cup ItemsOf(q)
                                     THEN {p, q, Nobody} ELSE {owner[i]}
    OBVIOUS
  <2>1. CASE c.owner[i] = b.owner[i]
    BY <2>1 DEF Mixed
  <2>2. CASE i \in {mine, his} /\ c.owner[i] \in {p, q, Nobody}
    <3>1. i \in ItemsOf(p) \cup ItemsOf(q)
      BY <1>1, <2>2
    <3> QED
      BY <2>2, <3>1
  <2> QED
    BY <1>2, <2>1, <2>2
<1>6. c.owner \in [Items -> Players \cup {Nobody}]
  <2>1. owner \in [Items -> Players \cup {Nobody}]
    BY <1>0 DEF PurseOK
  <2>2. \A i \in Items : c.owner[i] \in Players \cup {Nobody}
    BY <1>5, <2>1
  <2> QED
    BY <1>2, <2>2
<1> QED
  BY <1>4, <1>5, <1>6 DEF Mixed, c

LEMMA MoveItemsMix ==
  ASSUME NEW p \in Players, NEW q \in Players, Ready(p, q)
  PROVE  Mixed(p, q, moveItems(p, q))
<1>1. PICK f : /\ moveItems(p, q) = f[TradedSlots]
               /\ f[0] = Removed(p, q)
               /\ \A s \in 1..TradedSlots : f[s] = MoveSlot(p, q, f[s - 1], s)
  BY MoveItemsRun
<1> DEFINE T == {s \in 0..TradedSlots : ~Mixed(p, q, f[s])}
<1>0. TradedSlots \in Nat
  BY TradeAssumption
<1>2. Mixed(p, q, f[0])
  <2>1. PurseOK
    BY DEF Ready
  <2> QED
    BY <1>1, <2>1 DEF Mixed, Removed, PurseOK
<1>3. ASSUME NEW n \in T, \A m \in T : n <= m PROVE FALSE
  <2>1. n \in 1..TradedSlots /\ n - 1 \in 0..TradedSlots /\ ~(n <= n - 1)
    BY <1>0, <1>2
  <2>2. Mixed(p, q, f[n - 1])
    BY <1>3, <2>1
  <2> QED
    BY <1>1, <2>1, <2>2, RoundMixes
<1>4. T \subseteq Nat
  BY <1>0
<1>5. T = {}
  <2> HIDE DEF T
  <2> QED
    BY <1>3, <1>4, LeastElement
<1> QED
  BY <1>0, <1>1, <1>5

-----------------------------------------------------------------------------
(* What both sides accepted *)

\* The terms that the window of p shows.
Agreed(p) == [with |-> Partner(p), give |-> Offer(p), take |-> Offer(Partner(p))]

\* An acceptance stands for the terms that the window shows now: whatever
\* changes them takes m_accepted back.
SeenInv ==
  seen = [p \in Players |->
            IF Trading(p) /\ trade[p].accepted THEN Agreed(p) ELSE Nothing]

TradeInv == PairInv /\ PurseOK /\ OneSlotEach /\ SeenInv

\* What every step has to show: the invariant, a step of the abstract
\* specification or none, and no bound item in the wrong hands.
BoundStep ==
  \A i \in Items : owner'[i] \in Players \ {owner[i]} => owner'[i] \in BoundTo[i]

Faithful ==
  /\ TradeInv'
  /\ Exchange!Next \/ UNCHANGED <<owner, pack, money, enchanted, seen>>
  /\ BoundStep

\* What a window shows are terms that a player can agree to.
LEMMA AgreedTerms ==
  ASSUME PairInv, NEW p \in Players, Trading(p)
  PROVE  Agreed(p) \in Exchange!Terms /\ Agreed(p) # Nothing
<1>1. Partner(p) \in Players /\ Trading(Partner(p))
  BY TradingHasPartner DEF PairInv, Paired, Partner, Trading
<1>2. ASSUME NEW x \in Players, Trading(x)
      PROVE  Offer(x) \in Exchange!Offers
  <2>1. trade[x] \in Data
    BY <1>2, TradingHasPartner DEF PairInv
  <2>2. NonTraded \in Slots /\ 1..TradedSlots \subseteq Slots
    BY TradeAssumption DEF NonTraded, Slots
  <2>3. {trade[x].items[s] : s \in 1..TradedSlots} \ {Nothing} \subseteq Items
    BY <2>1, <2>2 DEF Data
  <2> QED
    BY <2>1, <2>2, <2>3 DEF Offer, Exchange!Offers, Data
<1>3. Agreed(p) \in Exchange!Terms
  BY <1>1, <1>2 DEF Agreed, Exchange!Terms
<1> QED
  BY <1>3, NoConsentAssumption

\* Nobody else faces one of the two sides of a window, or one of two players
\* who are in none.
LEMMA OthersApart ==
  ASSUME PairInv, NEW p \in Players, NEW q \in Players,
         (Trading(p) /\ q = Partner(p)) \/ (~Trading(p) /\ ~Trading(q)),
         NEW x \in Players \ {p, q}, Trading(x)
  PROVE  Partner(x) \in Players \ {p, q}
<1>1. Partner(x) \in Players /\ Trading(Partner(x)) /\ Partner(Partner(x)) = x
  BY TradingHasPartner DEF PairInv, Paired, Partner, Trading
<1>2. CASE Trading(p) /\ q = Partner(p)
  <2>1. Partner(q) = p
    BY <1>2 DEF PairInv, Paired, Partner
  <2> QED
    BY <1>1, <1>2, <2>1
<1> QED
  BY <1>1, <1>2

\* A step on the window of p and q keeps the meaning of every acceptance, if
\* each of the two loses its own or sees the same terms as before.
LEMMA SeenStep ==
  ASSUME PairInv, SeenInv, PairInv', Remember,
         NEW p \in Players, NEW q \in Players,
         (Trading(p) /\ q = Partner(p)) \/ (~Trading(p) /\ ~Trading(q)),
         \A x \in Players \ {p, q} : trade'[x] = trade[x],
         \A x \in {p, q} : \/ trade'[x] = NoTrade \/ trade'[x].accepted = FALSE
                           \/ Trading(x) /\ Agreed(x)' = Agreed(x)
  PROVE  SeenInv' /\ \A x \in Players \ {p, q} : seen'[x] = seen[x]
<1>1. ASSUME NEW x \in Players \ {p, q}, Trading(x)
      PROVE  Agreed(x)' = Agreed(x)
  <2>1. Partner(x) \in Players \ {p, q}
    BY <1>1, OthersApart
  <2>2. trade'[x] = trade[x] /\ trade'[Partner(x)] = trade[Partner(x)]
    BY <2>1
  <2> QED
    BY <2>2 DEF Agreed, Offer, Partner
<1>2. ASSUME NEW x \in Players
      PROVE  \/ trade'[x] = NoTrade \/ trade'[x].accepted = FALSE
             \/ Trading(x) /\ Agreed(x)' = Agreed(x)
  BY <1>1 DEF Trading
<1>3. ASSUME NEW x \in Players
      PROVE  /\ seen'[x] = IF trade'[x] = NoTrade \/ ~trade'[x].accepted THEN Nothing
                           ELSE IF trade[x].accepted THEN seen[x] ELSE Agreed(x)
             /\ seen[x] = IF trade[x] # NoTrade /\ trade[x].accepted
                          THEN Agreed(x) ELSE Nothing
  BY DEF Remember, SeenInv, Agreed, Trading
<1>4. ASSUME NEW x \in Players
      PROVE  seen'[x] = IF trade'[x] # NoTrade /\ trade'[x].accepted
                        THEN Agreed(x)' ELSE Nothing
  BY <1>2, <1>3 DEF Trading
<1>5. SeenInv'
  <2>1. seen' = [x \in Players |-> seen'[x]]
    BY DEF Remember
  <2> QED
    BY <1>4, <2>1 DEF SeenInv, Trading
<1>6. ASSUME NEW x \in Players \ {p, q} PROVE seen'[x] = seen[x]
  <2>1. trade'[x] = trade[x] /\ x \in Players
    OBVIOUS
  <2> QED
    BY <1>3, <2>1
<1> QED
  BY <1>5, <1>6

\* A step that puts nothing into a slot leaves no item in two of them.
LEMMA SlotsKept ==
  ASSUME OneSlotEach,
         \A x \in Players : \/ trade'[x] = NoTrade
                            \/ Trading(x) /\ trade'[x].items = trade[x].items
  PROVE  OneSlotEach'
  BY DEF OneSlotEach, Trading

\* A step after which neither p nor q has accepted is a withdrawal.
LEMMA Withdrawn ==
  ASSUME TradeInv, PairInv', OneSlotEach', Remember,
         NEW p \in Players, NEW q \in Players,
         (Trading(p) /\ q = Partner(p)) \/ (~Trading(p) /\ ~Trading(q)),
         \A x \in Players \ {p, q} : trade'[x] = trade[x],
         \A x \in {p, q} : trade'[x] = NoTrade \/ trade'[x].accepted = FALSE,
         UNCHANGED <<owner, pack, money, enchanted>>
  PROVE  Faithful
<1>1. SeenInv' /\ \A x \in Players \ {p, q} : seen'[x] = seen[x]
  BY SeenStep DEF TradeInv
<1>2. ASSUME NEW x \in {p, q} PROVE seen'[x] = Nothing
  <2>1. x \in Players /\ (trade'[x] = NoTrade \/ ~trade'[x].accepted)
    OBVIOUS
  <2> QED
    BY <2>1 DEF Remember
<1>3. seen' = [x \in Players |-> IF x \in {p, q} THEN Nothing ELSE seen[x]]
  <2>1. seen' = [x \in Players |-> seen'[x]]
    BY DEF Remember
  <2> QED
    BY <1>1, <1>2, <2>1
<1>4. Exchange!Withdraw({p, q})
  BY <1>3 DEF Exchange!Withdraw
<1>5. Exchange!Next
  BY <1>4 DEF Exchange!Next
<1>6. TradeInv'
  BY <1>1 DEF TradeInv, PurseOK
<1>7. BoundStep
  BY DEF BoundStep
<1> QED
  BY <1>5, <1>6, <1>7 DEF Faithful

\* Opening a window.
LEMMA InitiateFaithful ==
  ASSUME TradeInv, PairInv', Remember, NEW p \in Players, NEW q \in Players,
         HandleInitiateTrade(p, q)
  PROVE  Faithful
<1>1. /\ p # q /\ ~Trading(p) /\ ~Trading(q)
      /\ trade' = [trade EXCEPT ![p] = NewTrade(q), ![q] = NewTrade(p)]
      /\ UNCHANGED <<owner, pack, money, enchanted>>
  BY DEF HandleInitiateTrade
<1>2. /\ \A x \in Players \ {p, q} : trade'[x] = trade[x]
      /\ trade'[p] = NewTrade(q) /\ trade'[q] = NewTrade(p)
  BY <1>1 DEF TradeInv, PairInv, WindowOK
<1>3. \A x \in {p, q} : trade'[x].accepted = FALSE /\ \A s \in Slots : trade'[x].items[s] = Nothing
  BY <1>2 DEF NewTrade
<1>4. OneSlotEach'
  BY <1>2, <1>3 DEF TradeInv, OneSlotEach, Trading
<1> QED
  BY <1>1, <1>2, <1>3, <1>4, Withdrawn

\* Closing a window for both sides.
LEMMA CloseFaithful ==
  ASSUME TradeInv, PairInv', Remember, NEW p \in Players, Trading(p), TradeCancel(p),
         UNCHANGED <<owner, pack, money, enchanted>>
  PROVE  Faithful
<1>1. PICK q \in Players : q = Partner(p)
  BY TradingHasPartner DEF TradeInv, PairInv
<1>2. trade' = [trade EXCEPT ![p] = NoTrade, ![q] = NoTrade]
  BY <1>1 DEF TradeCancel
<1>3. /\ \A x \in Players \ {p, q} : trade'[x] = trade[x]
      /\ \A x \in {p, q} : trade'[x] = NoTrade
  BY <1>1, <1>2 DEF TradeInv, PairInv, WindowOK
<1>4. OneSlotEach'
  BY <1>3, SlotsKept DEF TradeInv, Trading
<1> QED
  BY <1>1, <1>3, <1>4, Withdrawn

\* Changing one's offer takes the acceptance of both sides back.
LEMMA ChangeFaithful ==
  ASSUME TradeInv, PairInv', Remember, NEW p \in Players, Trading(p),
         NEW d, d.items = trade[p].items, d.accepted = FALSE, Changed(p, d),
         UNCHANGED <<owner, pack, money, enchanted>>
  PROVE  Faithful
<1>0. PICK q \in Players : q = Partner(p)
  BY TradingHasPartner DEF TradeInv, PairInv
<1>1. q # p /\ Trading(q) /\ trade[q] \in Data
  BY <1>0, TradingHasPartner DEF TradeInv, PairInv, Paired, Partner, Trading
<1>2. /\ \A x \in Players \ {p, q} : trade'[x] = trade[x]
      /\ trade'[p] = d /\ trade'[q] = [trade[q] EXCEPT !.accepted = FALSE]
  BY <1>0, <1>1 DEF TradeInv, PairInv, WindowOK, Changed
<1>3. trade'[q].accepted = FALSE /\ trade'[q].items = trade[q].items
  BY <1>1, <1>2 DEF Data
<1>4. OneSlotEach'
  BY <1>1, <1>2, <1>3, SlotsKept DEF TradeInv, Trading
<1>5. \A x \in {p, q} : trade'[x].accepted = FALSE
  BY <1>2, <1>3
<1> QED
  BY <1>0, <1>2, <1>4, <1>5, Withdrawn

\* TradeData::SetItem with an item that the window does not hold, or with none.
LEMMA SetItemFaithful ==
  ASSUME TradeInv, PairInv', Remember, NEW p \in Players, Trading(p),
         NEW s \in Slots, NEW i \in Items \cup {Nothing}, SetItem(p, s, i),
         i = Nothing \/ ~HasItem(p, i)
  PROVE  Faithful
<1>0. PICK q \in Players : q = Partner(p)
  BY TradingHasPartner DEF TradeInv, PairInv
<1> DEFINE d == [trade[p] EXCEPT !.items = [@ EXCEPT ![s] = i],
                                 !.spell = Nothing, !.accepted = FALSE]
           e == [trade[q] EXCEPT
                   !.spell = IF s = NonTraded THEN Nothing ELSE @, !.accepted = FALSE]
<1>1. q # p /\ Trading(q) /\ trade[p] \in Data /\ trade[q] \in Data
  BY <1>0, TradingHasPartner DEF TradeInv, PairInv, Paired, Partner, Trading
<1>2. /\ d.items = [trade[p].items EXCEPT ![s] = i] /\ d.accepted = FALSE
      /\ e.items = trade[q].items /\ e.accepted = FALSE
  BY <1>1 DEF Data
<1>3. /\ trade' = [trade EXCEPT ![p] = d, ![q] = e]
      /\ UNCHANGED <<owner, pack, money, enchanted>>
  BY <1>0 DEF SetItem
<1> HIDE DEF d, e
<1>4. /\ \A x \in Players \ {p, q} : trade'[x] = trade[x]
      /\ trade'[p] = d /\ trade'[q] = e
  BY <1>1, <1>3 DEF TradeInv, PairInv, WindowOK
<1>5. OneSlotEach'
  <2>1. ASSUME NEW t \in Slots, NEW u \in Slots,
               d.items[t] = d.items[u], d.items[t] # Nothing
        PROVE  t = u
    <3>1. trade[p].items \in [Slots -> Items \cup {Nothing}]
      BY <1>1 DEF Data
    <3>2. \A v \in Slots : d.items[v] = IF v = s THEN i ELSE trade[p].items[v]
      BY <1>2, <3>1
    <3>3. i # Nothing => \A v \in Slots : trade[p].items[v] # i
      BY DEF HasItem
    <3> QED
      BY <2>1, <3>2, <3>3 DEF TradeInv, OneSlotEach
  <2>2. ASSUME NEW x \in Players \ {p}, trade'[x] # NoTrade
        PROVE  trade'[x].items = trade[x].items /\ Trading(x)
    BY <1>1, <1>2, <1>4, <2>2 DEF Trading
  <2> QED
    BY <1>4, <2>1, <2>2 DEF TradeInv, OneSlotEach, Trading
<1>6. \A x \in {p, q} : trade'[x].accepted = FALSE
  BY <1>2, <1>4
<1> QED
  BY <1>0, <1>3, <1>4, <1>5, <1>6, Withdrawn

\* Setting the flags of both sides: an acceptance stands for what the window
\* shows.
LEMMA FlagStep ==
  ASSUME TradeInv, PairInv', Remember, NEW p \in Players, Trading(p),
         NEW q \in Players, q = Partner(p), NEW a \in BOOLEAN, NEW b \in BOOLEAN,
         trade' = [trade EXCEPT ![p].accepted = a, ![q].accepted = b],
         UNCHANGED <<owner, pack, money, enchanted>>
  PROVE  /\ TradeInv'
         /\ seen' = [seen EXCEPT ![p] = IF a THEN Agreed(p) ELSE Nothing,
                                 ![q] = IF b THEN Agreed(q) ELSE Nothing]
<1>1. /\ q # p /\ Trading(q) /\ Partner(q) = p
      /\ trade[p] \in Data /\ trade[q] \in Data
  BY TradingHasPartner DEF TradeInv, PairInv, Paired, Partner, Trading
<1>2. /\ \A x \in Players \ {p, q} : trade'[x] = trade[x]
      /\ trade'[p] = [trade[p] EXCEPT !.accepted = a]
      /\ trade'[q] = [trade[q] EXCEPT !.accepted = b]
  BY <1>1 DEF TradeInv, PairInv, WindowOK
<1>3. ASSUME NEW x \in {p, q}
      PROVE  /\ trade'[x].with = trade[x].with /\ trade'[x].items = trade[x].items
             /\ trade'[x].money = trade[x].money /\ trade'[x].spell = trade[x].spell
  <2>1. PICK c \in BOOLEAN : trade'[x] = [trade[x] EXCEPT !.accepted = c]
    BY <1>2
  <2>2. trade[x] \in Data
    BY <1>1
  <2> QED
    BY <2>1, <2>2 DEF Data
<1>4. trade'[p].accepted = a /\ trade'[q].accepted = b
  BY <1>1, <1>2 DEF Data
<1>5. \A x \in {p, q} : Trading(x) /\ Agreed(x)' = Agreed(x)
  <2>1. ASSUME NEW x \in {p, q} PROVE Offer(x)' = Offer(x)
    <3>1. /\ trade'[x].items = trade[x].items
          /\ trade'[x].money = trade[x].money /\ trade'[x].spell = trade[x].spell
      BY <1>3
    <3> QED
      BY <3>1 DEF Offer
  <2>2. \A x \in {p, q} : Partner(x)' = Partner(x) /\ Partner(x) \in {p, q} /\ Trading(x)
    BY <1>1, <1>3 DEF Partner
  <2>3. ASSUME NEW x \in {p, q} PROVE Agreed(x)' = Agreed(x)
    <3>1. PICK y \in {p, q} : y = Partner(x) /\ y = Partner(x)'
      BY <2>2
    <3>2. Offer(x)' = Offer(x) /\ Offer(y)' = Offer(y)
      BY <2>1
    <3> QED
      BY <3>1, <3>2 DEF Agreed
  <2> QED
    BY <2>2, <2>3
<1>6. SeenInv' /\ \A x \in Players \ {p, q} : seen'[x] = seen[x]
  <2>1. \A x \in {p, q} : \/ trade'[x] = NoTrade \/ trade'[x].accepted = FALSE
                          \/ Trading(x) /\ Agreed(x)' = Agreed(x)
    BY <1>5
  <2>2. \A x \in Players \ {p, q} : trade'[x] = trade[x]
    BY <1>2
  <2>3. PairInv /\ SeenInv
    BY DEF TradeInv
  <2> QED
    BY <2>1, <2>2, <2>3, SeenStep
<1>7. OneSlotEach'
  <2>1. \A x \in Players : \/ trade'[x] = NoTrade
                           \/ Trading(x) /\ trade'[x].items = trade[x].items
    BY <1>1, <1>2, <1>3 DEF Trading
  <2> QED
    BY <2>1, SlotsKept DEF TradeInv
<1>8. trade'[p] # NoTrade /\ trade'[q] # NoTrade
  <2>1. trade'[p].with \in Players /\ trade'[q].with \in Players
    BY <1>1, <1>3 DEF Partner
  <2> QED
    BY <2>1, TradeAssumption DEF NoTrade
<1>9. seen'[p] = (IF a THEN Agreed(p) ELSE Nothing) /\ seen'[q] = (IF b THEN Agreed(q) ELSE Nothing)
  <2>1. \A x \in Players : seen'[x] = IF trade'[x] # NoTrade /\ trade'[x].accepted
                                      THEN Agreed(x)' ELSE Nothing
    BY <1>6 DEF SeenInv, Trading
  <2> QED
    BY <1>4, <1>5, <1>8, <2>1
<1>10. seen' = [seen EXCEPT ![p] = IF a THEN Agreed(p) ELSE Nothing,
                            ![q] = IF b THEN Agreed(q) ELSE Nothing]
  <2>1. seen' = [x \in Players |-> seen'[x]] /\ seen = [x \in Players |-> seen[x]]
    BY DEF Remember, TradeInv, SeenInv
  <2> QED
    BY <1>1, <1>6, <1>9, <2>1
<1> QED
  BY <1>6, <1>7, <1>10 DEF TradeInv, PurseOK

\* What an acceptance that stands is worth.
LEMMA SeenOf ==
  ASSUME TradeInv, NEW x \in Players, Trading(x)
  PROVE  seen[x] = IF trade[x].accepted THEN Agreed(x) ELSE Nothing
  BY DEF TradeInv, SeenInv

\* An accept that does not complete the trade, or that is refused for want of
\* money: the player consents, or takes its own consent back.
LEMMA AnswerFaithful ==
  ASSUME TradeInv, PairInv', Remember, NEW p \in Players, Trading(p),
         NEW q \in Players, q = Partner(p), NEW a \in BOOLEAN, NEW b \in BOOLEAN,
         trade' = [trade EXCEPT ![p].accepted = a, ![q].accepted = b],
         b = trade[q].accepted \/ (a /\ ~b),
         UNCHANGED <<owner, pack, money, enchanted>>
  PROVE  Faithful
<1>1. /\ TradeInv'
      /\ seen' = [seen EXCEPT ![p] = IF a THEN Agreed(p) ELSE Nothing,
                              ![q] = IF b THEN Agreed(q) ELSE Nothing]
  BY FlagStep
<1>2. q # p /\ Trading(q)
  BY TradingHasPartner DEF TradeInv, PairInv, Paired, Partner, Trading
<1>3. seen = [x \in Players |-> seen[x]]
  BY DEF TradeInv, SeenInv
<1>4. BoundStep
  BY DEF BoundStep
<1>5. CASE ~a
  <2>1. seen[q] = IF b THEN Agreed(q) ELSE Nothing
    BY <1>2, <1>5, SeenOf
  <2>2. seen' = [x \in Players |-> IF x \in {p, p} THEN Nothing ELSE seen[x]]
    BY <1>1, <1>2, <1>3, <1>5, <2>1
  <2>3. Exchange!Withdraw({p, p})
    BY <2>2 DEF Exchange!Withdraw
  <2>4. Exchange!Next
    BY <2>3 DEF Exchange!Next
  <2> QED
    BY <1>1, <1>4, <2>4 DEF Faithful
<1>6. CASE a
  <2>1. seen'[p] = Agreed(p) /\ Agreed(p) \in Exchange!Terms
    BY <1>1, <1>2, <1>3, <1>6, AgreedTerms DEF TradeInv
  <2>2. ASSUME b = trade[q].accepted PROVE Exchange!Consent(p, q)
    <3>1. seen[q] = IF b THEN Agreed(q) ELSE Nothing
      BY <1>2, <2>2, SeenOf
    <3>2. seen' = [seen EXCEPT ![p] = seen'[p]]
      BY <1>1, <1>2, <1>3, <1>6, <2>1, <3>1
    <3> QED
      BY <2>1, <3>2 DEF Exchange!Consent
  <2>3. ASSUME ~b PROVE Exchange!Consent(p, q)
    <3>1. seen' = [seen EXCEPT ![p] = seen'[p], ![q] = Nothing]
      BY <1>1, <1>2, <1>3, <1>6, <2>1, <2>3
    <3> QED
      BY <2>1, <3>1 DEF Exchange!Consent
  <2>4. Exchange!Consent(p, q)
    BY <2>2, <2>3
  <2>5. Exchange!Next
    BY <1>2, <2>4 DEF Exchange!Next
  <2> QED
    BY <1>1, <1>4, <2>5 DEF Faithful
<1> QED
  BY <1>5, <1>6

\* A spell that can no longer be cast is taken out of the window, with the
\* acceptance of both sides.
LEMMA DropSpellFaithful ==
  ASSUME TradeInv, PairInv', Remember, NEW p \in Players, Trading(p),
         NEW q \in Players, q = Partner(p), NEW x \in {p, q}, DropSpell(x, p, q)
  PROVE  Faithful
<1> DEFINE d == IF x = p THEN [trade[p] EXCEPT !.accepted = FALSE, !.spell = Nothing]
                ELSE [trade[p] EXCEPT !.accepted = FALSE]
           e == IF x = q THEN [trade[q] EXCEPT !.accepted = FALSE, !.spell = Nothing]
                ELSE [trade[q] EXCEPT !.accepted = FALSE]
<1>1. q # p /\ Trading(q) /\ trade[p] \in Data /\ trade[q] \in Data
  BY TradingHasPartner DEF TradeInv, PairInv, Paired, Partner, Trading
<1>2. trade' = [trade EXCEPT ![p] = d, ![q] = e]
  <2>1. CASE x = p
    BY <1>1, <2>1 DEF DropSpell, TradeInv, PairInv, WindowOK
  <2>2. CASE x = q
    BY <1>1, <2>2 DEF DropSpell, TradeInv, PairInv, WindowOK
  <2> QED
    BY <2>1, <2>2
<1>3. /\ d.items = trade[p].items /\ d.accepted = FALSE
      /\ e.items = trade[q].items /\ e.accepted = FALSE
  BY <1>1 DEF Data
<1> HIDE DEF d, e
<1>4. /\ \A y \in Players \ {p, q} : trade'[y] = trade[y]
      /\ trade'[p] = d /\ trade'[q] = e
  BY <1>1, <1>2 DEF TradeInv, PairInv, WindowOK
<1>5. OneSlotEach'
  <2>1. \A y \in Players : \/ trade'[y] = NoTrade
                           \/ Trading(y) /\ trade'[y].items = trade[y].items
    BY <1>1, <1>3, <1>4 DEF Trading
  <2> QED
    BY <2>1, SlotsKept DEF TradeInv
<1>6. \A y \in {p, q} : trade'[y].accepted = FALSE
  BY <1>3, <1>4
<1>7. UNCHANGED <<owner, pack, money, enchanted>>
  BY DEF DropSpell
<1> QED
  BY <1>4, <1>5, <1>6, <1>7, Withdrawn

\* What is cast at the end of a trade is the service that was agreed to.
LEMMA ServiceRendered ==
  ASSUME PairInv, NEW p \in Players, NEW q \in Players, Trading(p), Trading(q),
         ~SpellImpossible(p, q)
  PROVE  CastSpell(p, q) = Exchange!Service(Offer(p), Offer(q).shown)
<1> DEFINE shown == trade[q].items[NonTraded]
           spell == trade[p].spell
<1>1. NonTraded \in Slots
  BY TradeAssumption DEF NonTraded, Slots
<1>2. trade[p] \in Data /\ trade[q] \in Data
  BY TradingHasPartner DEF PairInv
<1>3. spell \in Spells \cup {Nothing} /\ shown \in Items \cup {Nothing}
  BY <1>1, <1>2 DEF Data
<1>4. Offer(p).spell = spell /\ Offer(q).shown = shown
  BY DEF Offer
<1>5. CastSpell(p, q) = IF spell = Nothing THEN {} ELSE {<<shown, spell>>}
  BY DEF CastSpell, SpellImpossible, GetItem
<1>6. spell # Nothing => shown \in Items
  BY <1>3 DEF SpellImpossible, GetItem
<1> HIDE DEF shown, spell
<1>7. Exchange!Service(Offer(p), Offer(q).shown) =
        {x \in Items \X Spells : x[1] = shown /\ x[2] = spell}
  BY <1>4 DEF Exchange!Service
<1> QED
  BY <1>3, <1>5, <1>6, <1>7, TradeAssumption

\* Completing the trade: everything that both sides accepted, and nothing
\* else, changes hands in one step, or a side would be over a limit.
LEMMA CompleteFaithful ==
  ASSUME TradeInv, PairInv', Remember, NEW p \in Players, Trading(p),
         NEW q \in Players, q = Partner(p),
         money[p] >= trade[p].money, money[q] >= trade[q].money,
         trade[q].accepted,
         ~SpellImpossible(p, q), ~SpellImpossible(q, p),
         CanStoreItems(p, q), CanStoreItems(q, p), Complete(p, q)
  PROVE  Faithful
<1>1. /\ q # p /\ Trading(q) /\ Partner(q) = p
      /\ trade[p] \in Data /\ trade[q] \in Data
  BY TradingHasPartner DEF TradeInv, PairInv, Paired, Partner, Trading
<1>2. seen[q] = [with |-> p, give |-> Offer(q), take |-> Offer(p)] /\ seen[q] # Nothing
  BY <1>1, SeenOf, AgreedTerms DEF Agreed, TradeInv
<1>3. /\ Ready(p, q) /\ Ready(q, p)
      /\ \A i \in ItemsOf(p) : owner[i] = p
      /\ \A i \in ItemsOf(q) : owner[i] = q
      /\ owner' = moveItems(p, q).owner /\ pack' = moveItems(p, q).pack
  BY <1>1, ItemsOfOwn DEF Ready, TradeInv, Complete
<1>3a. /\ owner' \in [Items -> Players \cup {Nobody}]
       /\ \A i \in Items : owner'[i] \in IF i \in ItemsOf(p) \cup ItemsOf(q)
                                         THEN {p, q, Nobody} ELSE {owner[i]}
       /\ pack' \in [Players -> Seq(Kinds)]
       /\ \A x \in Players \ {p, q} : pack'[x] = pack[x]
  <2>1. Mixed(p, q, moveItems(p, q))
    BY <1>3, MoveItemsMix
  <2> QED
    BY <1>3, <2>1 DEF Mixed
<1>3b. \/ owner' = Full(p, q) /\ pack' = pack
       \/ Exchange!Muddled(p, q, ItemsOf(p) \cup ItemsOf(q), Full(p, q))
  <2>1. Full(q, p) = Full(p, q)
    BY <1>1, <1>3 DEF Full
  <2>2. CASE ~Exchange!OverLimit(Full(p, q), p) /\ ~Exchange!OverLimit(Full(p, q), q)
    <3>1. ~Exchange!OverLimit(Full(q, p), q)
      BY <2>1, <2>2
    <3>2. moveItems(p, q).owner = Full(p, q) /\ moveItems(p, q).pack = pack
      BY <1>3, <2>2, <3>1, MoveItemsOf
    <3> QED
      BY <1>3, <3>2
  <2>3. CASE Exchange!OverLimit(Full(p, q), p) \/ Exchange!OverLimit(Full(p, q), q)
    <3>1. ASSUME NEW i \in Items
          PROVE  owner'[i] \in IF i \in ItemsOf(p) \cup ItemsOf(q)
                               THEN {owner[i], Full(p, q)[i], Nobody} ELSE {owner[i]}
      <4>1. owner'[i] \in IF i \in ItemsOf(p) \cup ItemsOf(q)
                          THEN {p, q, Nobody} ELSE {owner[i]}
        BY <1>3a
      <4>2. i \in ItemsOf(p) => owner[i] = p /\ Full(p, q)[i] = q
        BY <1>3 DEF Full
      <4>3. i \in ItemsOf(q) => owner[i] = q /\ Full(p, q)[i] = p
        BY <1>1, <1>3 DEF Full
      <4> QED
        BY <4>1, <4>2, <4>3
    <3> QED
      BY <1>3a, <2>3, <3>1 DEF Exchange!Muddled
  <2> QED
    BY <2>2, <2>3
<1>4. /\ trade[p].money \in Nat /\ trade[q].money \in Nat
      /\ money \in [Players -> 0..MaxMoney] /\ MaxMoney \in Nat
      /\ owner \in [Items -> Players \cup {Nobody}]
  BY <1>1, TradeAssumption DEF Data, TradeInv, PurseOK
<1>5. money' = [money EXCEPT ![p] = Gain(money[p] - trade[p].money, trade[q].money),
                             ![q] = Gain(money[q] - trade[q].money, trade[p].money)]
  BY <1>1, <1>4 DEF Complete
<1>6. \A m \in Nat, d \in Nat : Gain(m, d) = Exchange!Smaller(m + d, MaxMoney)
                                /\ Gain(m, d) \in 0..MaxMoney
  BY <1>4 DEF Gain, Exchange!Smaller
<1>7. money[p] - trade[p].money \in Nat /\ money[q] - trade[q].money \in Nat
  BY <1>4
<1>8. PurseOK'
  <2>1. owner' \in [Items -> Players \cup {Nobody}] /\ pack' \in [Players -> Seq(Kinds)]
    BY <1>3a
  <2>2. money' \in [Players -> 0..MaxMoney]
    <3>1. /\ Gain(money[p] - trade[p].money, trade[q].money) \in 0..MaxMoney
          /\ Gain(money[q] - trade[q].money, trade[p].money) \in 0..MaxMoney
      BY <1>4, <1>6, <1>7
    <3> QED
      BY <1>4, <1>5, <3>1
  <2> QED
    BY <2>1, <2>2 DEF PurseOK
<1>9. /\ \A x \in Players \ {p, q} : trade'[x] = trade[x]
      /\ trade'[p] = NoTrade /\ trade'[q] = NoTrade
  BY DEF Complete, TradeInv, PairInv, WindowOK
<1>10. OneSlotEach'
  <2>1. \A x \in Players : \/ trade'[x] = NoTrade
                           \/ Trading(x) /\ trade'[x].items = trade[x].items
    BY <1>9 DEF Trading
  <2> QED
    BY <2>1, SlotsKept DEF TradeInv
<1>11. SeenInv' /\ \A x \in Players \ {p, q} : seen'[x] = seen[x]
  <2>1. \A x \in {p, q} : \/ trade'[x] = NoTrade \/ trade'[x].accepted = FALSE
                          \/ Trading(x) /\ Agreed(x)' = Agreed(x)
    BY <1>9
  <2>2. PairInv /\ SeenInv
    BY DEF TradeInv
  <2> QED
    BY <1>9, <2>1, <2>2, SeenStep
<1>12. TradeInv'
  BY <1>8, <1>10, <1>11 DEF TradeInv
<1>13. seen' = [seen EXCEPT ![p] = Nothing, ![q] = Nothing]
  <2>1. seen' = [x \in Players |-> seen'[x]] /\ seen = [x \in Players |-> seen[x]]
    BY DEF Remember, TradeInv, SeenInv
  <2>2. seen'[p] = Nothing /\ seen'[q] = Nothing
    BY <1>9 DEF Remember
  <2> QED
    BY <1>11, <2>1, <2>2
<1>14. ASSUME NEW x \in {p, q}
       PROVE  {i \in Offer(x).items : owner[i] = x} = ItemsOf(x)
  <2>1. Offer(x).items = {trade[x].items[s] : s \in 1..TradedSlots} \ {Nothing}
    BY DEF Offer
  <2> QED
    BY <2>1 DEF ItemsOf, GetItem
<1>15. enchanted' = Exchange!Service(Offer(q), Offer(p).shown)
                    \cup Exchange!Service(Offer(p), Offer(q).shown)
  <2>1. /\ CastSpell(p, q) = Exchange!Service(Offer(p), Offer(q).shown)
        /\ CastSpell(q, p) = Exchange!Service(Offer(q), Offer(p).shown)
    BY <1>1, ServiceRendered DEF TradeInv
  <2> QED
    BY <2>1 DEF Complete
<1>16. Exchange!Exchange(p, q)
  <2>1. Offer(p).money = trade[p].money /\ Offer(q).money = trade[q].money
    BY DEF Offer
  <2>2. /\ seen[q].with = p /\ seen[q].give = Offer(q) /\ seen[q].take = Offer(p)
    BY <1>2
  <2> DEFINE give == {j \in seen[q].take.items : owner[j] = p}
             take == {j \in seen[q].give.items : owner[j] = q}
             full == [i \in Items |-> IF i \in give THEN q
                                      ELSE IF i \in take THEN p ELSE owner[i]]
  <2>3. \/ owner' = full /\ pack' = pack
        \/ Exchange!Muddled(p, q, give \cup take, full)
    <3>1. give = ItemsOf(p) /\ take = ItemsOf(q)
      BY <1>14, <2>2
    <3>2. full = Full(p, q)
      BY <3>1 DEF Full
    <3> HIDE DEF give, take, full
    <3> QED
      BY <1>3b, <3>1, <3>2
  <2>4. money' = [money EXCEPT
          ![p] = Exchange!Smaller(@ - seen[q].take.money + seen[q].give.money, MaxMoney),
          ![q] = Exchange!Smaller(@ - seen[q].give.money + seen[q].take.money, MaxMoney)]
    <3>1. /\ Gain(money[p] - trade[p].money, trade[q].money)
               = Exchange!Smaller(money[p] - trade[p].money + trade[q].money, MaxMoney)
          /\ Gain(money[q] - trade[q].money, trade[p].money)
               = Exchange!Smaller(money[q] - trade[q].money + trade[p].money, MaxMoney)
      BY <1>4, <1>6, <1>7
    <3> QED
      BY <1>1, <1>4, <1>5, <2>1, <2>2, <3>1
  <2>5. seen[q].take.money <= money[p] /\ seen[q].give.money <= money[q]
    BY <1>4, <2>1, <2>2
  <2>6. enchanted' = Exchange!Service(seen[q].give, seen[q].take.shown)
                     \cup Exchange!Service(seen[q].take, seen[q].give.shown)
    BY <1>15, <2>2
  <2> QED
    BY <1>2, <1>13, <2>2, <2>3, <2>4, <2>5, <2>6 DEF Exchange!Exchange
<1>17. BoundStep
  <2> SUFFICES ASSUME NEW i \in Items, owner'[i] \in Players \ {owner[i]}
               PROVE  owner'[i] \in BoundTo[i]
    BY DEF BoundStep
  <2>1. i \in ItemsOf(p) \cup ItemsOf(q) /\ owner'[i] \in {p, q}
    BY <1>3a, TradeAssumption
  <2>2. CASE i \in ItemsOf(p)
    <3>1. owner'[i] = q /\ ~IsBindedNotWith(i, q) /\ owner[i] # q
      BY <1>1, <1>3, <2>1, <2>2 DEF CanStoreItems
    <3> QED
      BY <3>1 DEF IsBindedNotWith
  <2>3. CASE i \in ItemsOf(q)
    <3>1. owner'[i] = p /\ ~IsBindedNotWith(i, p) /\ owner[i] # p
      BY <1>1, <1>3, <2>1, <2>3 DEF CanStoreItems
    <3> QED
      BY <3>1 DEF IsBindedNotWith
  <2> QED
    BY <2>1, <2>2, <2>3
<1>18. Exchange!Next
  BY <1>1, <1>16 DEF Exchange!Next
<1> QED
  BY <1>12, <1>17, <1>18 DEF Faithful

\* HandleAcceptTradeOpcode, whole.
LEMMA AcceptFaithful ==
  ASSUME TradeInv, PairInv', Remember, NEW p \in Players, HandleAcceptTrade(p)
  PROVE  Faithful
<1>1. Trading(p)
  BY DEF HandleAcceptTrade
<1>2. PICK q \in Players : q = Partner(p)
  BY <1>1, TradingHasPartner DEF TradeInv, PairInv
<1>3. Trading(q) /\ trade[p] \in Data /\ trade[q] \in Data
  BY <1>1, <1>2, TradingHasPartner DEF TradeInv, PairInv, Paired, Partner, Trading
<1>4. trade[q].accepted \in BOOLEAN
  BY <1>3 DEF Data
<1>5. CASE /\ trade' = [trade EXCEPT ![p].accepted = FALSE,
                                     ![q].accepted = trade[q].accepted]
           /\ UNCHANGED <<owner, pack, money, enchanted>>
  BY <1>1, <1>2, <1>4, <1>5, AnswerFaithful
<1>6. CASE /\ trade' = [trade EXCEPT ![p].accepted = TRUE, ![q].accepted = FALSE]
           /\ UNCHANGED <<owner, pack, money, enchanted>>
  BY <1>1, <1>2, <1>6, AnswerFaithful
<1>7. CASE /\ trade' = [trade EXCEPT ![p].accepted = TRUE,
                                     ![q].accepted = trade[q].accepted]
           /\ UNCHANGED <<owner, pack, money, enchanted>>
  BY <1>1, <1>2, <1>4, <1>7, AnswerFaithful
<1>8. CASE /\ money[p] >= trade[p].money /\ money[q] >= trade[q].money
           /\ trade[q].accepted /\ Execute(p, q)
  <2>1. CASE DropSpell(p, p, q) \/ DropSpell(q, p, q)
    BY <1>1, <1>2, <2>1, DropSpellFaithful
  <2>2. CASE /\ trade' = [trade EXCEPT ![p].accepted = FALSE, ![q].accepted = FALSE]
             /\ UNCHANGED <<owner, pack, money, enchanted>>
    <3>1. q # p
      BY <1>1, <1>2 DEF TradeInv, PairInv
    <3>2. /\ \A x \in Players \ {p, q} : trade'[x] = trade[x]
          /\ trade'[p] = [trade[p] EXCEPT !.accepted = FALSE]
          /\ trade'[q] = [trade[q] EXCEPT !.accepted = FALSE]
      BY <2>2, <3>1 DEF TradeInv, PairInv, WindowOK
    <3>3. /\ trade'[p].accepted = FALSE /\ trade'[p].items = trade[p].items
          /\ trade'[q].accepted = FALSE /\ trade'[q].items = trade[q].items
      BY <1>3, <3>2 DEF Data
    <3>4. \A x \in Players : \/ trade'[x] = NoTrade
                             \/ Trading(x) /\ trade'[x].items = trade[x].items
      BY <1>1, <1>3, <3>2, <3>3 DEF Trading
    <3>5. OneSlotEach'
      BY <3>4, SlotsKept DEF TradeInv
    <3>6. \A x \in {p, q} : trade'[x].accepted = FALSE
      BY <3>3
    <3>7. \A x \in Players \ {p, q} : trade'[x] = trade[x]
      BY <3>2
    <3> QED
      BY <1>1, <1>2, <2>2, <3>5, <3>6, <3>7, Withdrawn
  <2>3. CASE /\ ~SpellImpossible(p, q) /\ ~SpellImpossible(q, p)
             /\ CanStoreItems(p, q) /\ CanStoreItems(q, p)
             /\ Complete(p, q)
    BY <1>1, <1>2, <1>8, <2>3, CompleteFaithful
  <2> QED
    BY <1>8, <2>1, <2>2, <2>3 DEF Execute
<1>9. /\ money[p] \in Nat /\ money[q] \in Nat
      /\ trade[p].money \in Nat /\ trade[q].money \in Nat
  <2>1. money \in [Players -> 0..MaxMoney] /\ MaxMoney \in Nat
    BY TradeAssumption DEF TradeInv, PurseOK
  <2>2. money[p] \in Nat /\ money[q] \in Nat
    BY <2>1
  <2> QED
    BY <1>3, <2>2 DEF Data
<1> QED
  BY <1>2, <1>5, <1>6, <1>7, <1>8, <1>9 DEF HandleAcceptTrade

\* A step outside of the windows keeps what was accepted.
LEMMA OutsideFaithful ==
  ASSUME TradeInv, PairInv', Remember, trade' = trade
  PROVE  SeenInv' /\ OneSlotEach' /\ seen' = seen
<1>1. \A x \in Players : seen'[x] = IF trade[x] = NoTrade \/ ~trade[x].accepted THEN Nothing
                                    ELSE IF trade[x].accepted THEN seen[x] ELSE Agreed(x)
  BY DEF Remember, Agreed
<1>2. \A x \in Players : seen[x] = IF trade[x] # NoTrade /\ trade[x].accepted
                                   THEN Agreed(x) ELSE Nothing
  BY DEF TradeInv, SeenInv, Trading
<1>3. \A x \in Players : seen'[x] = seen[x]
  BY <1>1, <1>2
<1>4. seen' = [x \in Players |-> seen'[x]] /\ seen = [x \in Players |-> seen[x]]
  BY DEF Remember, TradeInv, SeenInv
<1>5. seen' = seen
  BY <1>3, <1>4
<1> QED
  BY <1>5 DEF TradeInv, SeenInv, OneSlotEach, Trading, Agreed, Offer, Partner

\* Every step of the windows keeps the invariant and is a step of the exchange.
LEMMA FaithfulStep == TradeInv /\ [Next]_vars => Faithful
<1> SUFFICES ASSUME TradeInv, [Next]_vars PROVE Faithful
  OBVIOUS
<1>1. PairInv'
  BY PairStep DEF TradeInv
<1>2. CASE UNCHANGED vars
  BY <1>2 DEF vars, Faithful, BoundStep, TradeInv, PairInv, WindowOK, Paired, PurseOK,
              OneSlotEach, SeenInv, Trading, Partner, Agreed, Offer
<1> SUFFICES ASSUME Next PROVE Faithful
  BY <1>2
<1>3. Remember
  BY DEF Next
<1>4. ASSUME NEW p \in Players, NEW q \in Players, HandleInitiateTrade(p, q)
      PROVE  Faithful
  BY <1>1, <1>3, <1>4, InitiateFaithful
<1>5. ASSUME trade' = trade, UNCHANGED <<owner, pack, money, enchanted>>
      PROVE  Faithful
  BY <1>1, <1>3, <1>5, OutsideFaithful DEF TradeInv, Faithful, BoundStep, PurseOK
<1>6. ASSUME NEW p \in Players, HandleCancelTrade(p) \/ Logout(p) PROVE Faithful
  <2>1. TradeCancel(p) /\ UNCHANGED <<owner, pack, money, enchanted>>
    BY <1>6 DEF HandleCancelTrade, Logout
  <2>2. CASE Trading(p)
    BY <1>1, <1>3, <2>1, <2>2, CloseFaithful
  <2>3. CASE ~Trading(p)
    BY <1>5, <2>1, <2>3 DEF TradeCancel
  <2> QED
    BY <2>2, <2>3
<1>7. ASSUME NEW p \in Players, Login(p) PROVE Faithful
  BY <1>5, <1>7 DEF Login
<1>8. ASSUME NEW p \in Players, HandleSetTradeGold(p) PROVE Faithful
  <2>1. PICK m \in Prices : SetMoney(p, m)
    BY <1>8 DEF HandleSetTradeGold
  <2>2. Trading(p) /\ trade[p] \in Data
    BY <1>8, TradingHasPartner DEF HandleSetTradeGold, TradeInv, PairInv
  <2> DEFINE d == [trade[p] EXCEPT !.money = m, !.accepted = FALSE]
  <2>3. d.items = trade[p].items /\ d.accepted = FALSE
    BY <2>2 DEF Data
  <2>4. Changed(p, d) /\ UNCHANGED <<owner, pack, money, enchanted>>
    BY <2>1 DEF SetMoney
  <2> HIDE DEF d
  <2> QED
    BY <1>1, <1>3, <2>2, <2>3, <2>4, ChangeFaithful
<1>9. ASSUME NEW p \in Players, HandleSetTradeItem(p) PROVE Faithful
  <2>1. PICK s \in Slots, i \in Items : ~HasItem(p, i) /\ SetItem(p, s, i)
    BY <1>9 DEF HandleSetTradeItem
  <2>2. Trading(p)
    BY <1>9 DEF HandleSetTradeItem
  <2> QED
    BY <1>1, <1>3, <2>1, <2>2, SetItemFaithful
<1>10. ASSUME NEW p \in Players, HandleClearTradeItem(p) PROVE Faithful
  BY <1>1, <1>3, <1>10, SetItemFaithful DEF HandleClearTradeItem
<1>11. ASSUME NEW p \in Players, CastOnTradeItem(p) PROVE Faithful
  <2>1. PICK s \in Spells : SetSpell(p, s)
    BY <1>11 DEF CastOnTradeItem
  <2>2. Trading(p) /\ trade[p] \in Data
    BY <1>11, TradingHasPartner DEF CastOnTradeItem, TradeInv, PairInv
  <2> DEFINE d == [trade[p] EXCEPT !.spell = s, !.accepted = FALSE]
  <2>3. d.items = trade[p].items /\ d.accepted = FALSE
    BY <2>2 DEF Data
  <2>4. Changed(p, d) /\ UNCHANGED <<owner, pack, money, enchanted>>
    BY <2>1 DEF SetSpell
  <2> HIDE DEF d
  <2> QED
    BY <1>1, <1>3, <2>2, <2>3, <2>4, ChangeFaithful
<1>12. ASSUME NEW p \in Players, HandleUnacceptTrade(p) PROVE Faithful
  <2>1. Trading(p) /\ UNCHANGED <<owner, pack, money, enchanted>>
    BY <1>12 DEF HandleUnacceptTrade
  <2>2. PICK q \in Players : q = Partner(p)
    BY <2>1, TradingHasPartner DEF TradeInv, PairInv
  <2>3. trade[q] \in Data /\ q # p
    BY <2>1, <2>2, TradingHasPartner DEF TradeInv, PairInv, Paired, Partner, Trading
  <2>4. trade[q] = [trade[q] EXCEPT !.accepted = trade[q].accepted]
    BY <2>3 DEF Data
  <2>5. trade' = [trade EXCEPT ![p].accepted = FALSE, ![q].accepted = trade[q].accepted]
    BY <1>12, <2>3, <2>4 DEF HandleUnacceptTrade, TradeInv, PairInv, WindowOK
  <2>6. trade[q].accepted \in BOOLEAN
    BY <2>3 DEF Data
  <2> QED
    BY <1>1, <1>3, <2>1, <2>2, <2>5, <2>6, AnswerFaithful
<1>13. ASSUME NEW p \in Players, HandleAcceptTrade(p) PROVE Faithful
  BY <1>1, <1>3, <1>13, AcceptFaithful
<1>14. ASSUME NEW p \in Players, Spend(p) PROVE Faithful
  <2>1. SeenInv' /\ OneSlotEach' /\ seen' = seen
    BY <1>1, <1>3, <1>14, OutsideFaithful DEF Spend
  <2>2. /\ money[p] > 0 /\ money' = [money EXCEPT ![p] = @ - 1]
        /\ UNCHANGED <<owner, pack, enchanted>>
    BY <1>14 DEF Spend
  <2>3. money \in [Players -> 0..MaxMoney] /\ MaxMoney \in Nat
    BY TradeAssumption DEF TradeInv, PurseOK
  <2>4. money[p] - 1 \in 0..(money[p] - 1) /\ money[p] - 1 \in 0..MaxMoney
    BY <2>2, <2>3
  <2>5. Exchange!Spend(p)
    BY <2>1, <2>2, <2>4 DEF Exchange!Spend
  <2>6. PurseOK'
    BY <2>2, <2>3, <2>4 DEF TradeInv, PurseOK
  <2> QED
    BY <1>1, <2>1, <2>2, <2>5, <2>6 DEF Faithful, TradeInv, BoundStep, Exchange!Next
<1>15. ASSUME NEW i \in Items, ItemLeaves(i) PROVE Faithful
  <2>1. SeenInv' /\ OneSlotEach' /\ seen' = seen
    BY <1>1, <1>3, <1>15, OutsideFaithful DEF ItemLeaves
  <2>2. owner' = [owner EXCEPT ![i] = Nobody] /\ UNCHANGED <<pack, money, enchanted>>
    BY <1>15 DEF ItemLeaves
  <2>3. Exchange!Leave(i)
    BY <2>1, <2>2 DEF Exchange!Leave
  <2>4. PurseOK'
    BY <2>2 DEF TradeInv, PurseOK
  <2>5. BoundStep
    BY <2>2, TradeAssumption DEF BoundStep, TradeInv, PurseOK
  <2> QED
    BY <1>1, <2>1, <2>3, <2>4, <2>5 DEF Faithful, TradeInv, Exchange!Next
<1>16. ASSUME NEW i \in Items, ItemBlocked(i) PROVE Faithful
  BY <1>5, <1>16 DEF ItemBlocked
<1> QED
  BY <1>4, <1>6, <1>7, <1>8, <1>9, <1>10, <1>11, <1>12, <1>13, <1>14, <1>15, <1>16
     DEF Next

\* Nothing is offered, accepted or lost before the first step.
LEMMA TradeInit == Init => TradeInv
  BY TradeAssumption DEF Init, TradeInv, PairInv, WindowOK, Paired, PurseOK, OneSlotEach, SeenInv,
         Trading

\* In every state an acceptance stands for the terms that the window shows, no
\* item lies in two slots of a window, and no purse is over the limit.
THEOREM AcceptanceIsCurrent == Spec => []TradeInv
<1>1. TradeInv /\ [Next]_vars => TradeInv'
  BY FaithfulStep DEF Faithful
<1> QED
  BY <1>1, TradeInit, PTL DEF Spec

\* The trade opcodes implement an exchange of exactly what both sides accepted,
\* for any number of players, items, slots and any room: what moveItems does
\* slot by slot ends where one simultaneous exchange would, unless that exchange
\* would take a player over the limit of a kind; even then no item goes to the
\* wrong side, nothing else is touched and the money is what was agreed to.
THEOREM TradesAreFair == Spec => ImplementsExchange
<1>1. Init => Exchange!Init
  BY TradeAssumption DEF Init, Exchange!Init
<1>2. TradeInv /\ [Next]_vars => [Exchange!Next]_<<owner, pack, money, enchanted, seen>>
  BY FaithfulStep DEF Faithful
<1> QED
  BY <1>1, <1>2, AcceptanceIsCurrent, PTL DEF Spec, ImplementsExchange, Exchange!Spec

\* An item that is bound never reaches a player it must not be given to.
THEOREM BoundItemsStay == Spec => BoundStaysBound
<1>1. TradeInv /\ [Next]_vars =>
        [\A i \in Items :
           owner'[i] \in Players \ {owner[i]} => owner'[i] \in BoundTo[i]]_vars
  BY FaithfulStep DEF Faithful, BoundStep
<1> QED
  BY <1>1, AcceptanceIsCurrent, PTL DEF Spec, BoundStaysBound

=============================================================================
