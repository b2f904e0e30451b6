---------------------------- MODULE FairExchange ----------------------------
(***************************************************************************)
(* What a trade between two players promises.  A player consents to terms: *)
(* what it gives and what it takes, with whom.  When the other one agrees  *)
(* to them everything changes hands in one step.  Nothing is promised for  *)
(* the items (the money moves all the same) when one side would then have  *)
(* more of a kind than it may.  A consent can be withdrawn at any time,    *)
(* and outside of trades an item may leave its owner and money be spent.   *)
(***************************************************************************)
EXTENDS Naturals, FiniteSets, Sequences

CONSTANTS
  Players, Items, Spells,
  Kinds,
  Kind,       \* Kind[i]: the kind of item i
  Limit,      \* Limit[k]: how many of kind k a player may have, 0 for any number
  MaxMoney,   \* no purse holds more; the excess is lost
  Nobody,     \* the owner of an item that left the game
  Nothing     \* no consent, no spell, no item

VARIABLES
  owner,      \* owner[i]: the player who has item i
  pack,       \* pack[p]: the kinds of the other things that p has
  money,      \* money[p]
  enchanted,  \* <<item, spell>>: the services of the last exchange
  consent     \* consent[p]: the terms p agrees to, or Nothing

\* Offers: items, money, a spell to be cast on the item that the other side
\* shows, and the item shown.
Offers == [items : SUBSET Items, money : Nat, spell : Spells \cup {Nothing},
           shown : Items \cup {Nothing}]
Terms == [with : Players, give : Offers, take : Offers]

Smaller(a, b) == IF a < b THEN a ELSE b

\* How many of kind k player x has when the items are distributed as in o.
Held(o, x, k) ==
  Cardinality({i \in Items : o[i] = x /\ Kind[i] = k})
    + Cardinality({n \in DOMAIN pack[x] : pack[x][n] = k})

OverLimit(o, x) == \E k \in Kinds : Limit[k] # 0 /\ Held(o, x, k) > Limit[k]

Service(offer, shown) ==
  {x \in Items \X Spells : x[1] = shown /\ x[2] = offer.spell}

Init ==
  /\ owner \in [Items -> Players]
  /\ pack \in [Players -> Seq(Kinds)]
  /\ money \in [Players -> 0..MaxMoney]
  /\ enchanted = {}
  /\ consent = [p \in Players |-> Nothing]

\* p consents; the consent of another player may be void from then on.
Consent(p, q) ==
  /\ consent'[p] \in Terms
  /\ consent' \in {[consent EXCEPT ![p] = consent'[p]],
                   [consent EXCEPT ![p] = consent'[p], ![q] = Nothing]}
  /\ UNCHANGED <<owner, pack, money, enchanted>>

\* One player, or both at once, take back what they agreed to.
Withdraw(P) ==
  /\ consent' = [p \in Players |-> IF p \in P THEN Nothing ELSE consent[p]]
  /\ UNCHANGED <<owner, pack, money, enchanted>>

\* When the whole exchange is not possible each item may change hands, stay or
\* get lost, and new things may turn up with the two players.
Muddled(p, q, traded, full) ==
  /\ OverLimit(full, p) \/ OverLimit(full, q)
  /\ owner' \in [Items -> Players \cup {Nobody}]
  /\ \A i \in Items :
       owner'[i] \in IF i \in traded THEN {owner[i], full[i], Nobody} ELSE {owner[i]}
  /\ pack' \in [Players -> Seq(Kinds)]
  /\ \A x \in Players \ {p, q} : pack'[x] = pack[x]

\* p agrees to the terms of q: whatever its owner still has of the items goes
\* to the other one, and so does the money.
Exchange(p, q) ==
  LET terms == consent[q]
      give == {i \in terms.take.items : owner[i] = p}
      take == {i \in terms.give.items : owner[i] = q}
      full == [i \in Items |-> IF i \in give THEN q
                               ELSE IF i \in take THEN p ELSE owner[i]]
  IN
  /\ terms # Nothing /\ terms.with = p
  /\ terms.take.money <= money[p]
  /\ terms.give.money <= money[q]
  /\ (owner' = full /\ pack' = pack) \/ Muddled(p, q, give \cup take, full)
  /\ money' = [money EXCEPT
       ![p] = Smaller(@ - terms.take.money + terms.give.money, MaxMoney),
       ![q] = Smaller(@ - terms.give.money + terms.take.money, MaxMoney)]
  /\ enchanted' = Service(terms.give, terms.take.shown)
                 \cup Service(terms.take, terms.give.shown)
  /\ consent' = [consent EXCEPT ![p] = Nothing, ![q] = Nothing]

Leave(i) ==
  /\ owner' = [owner EXCEPT ![i] = Nobody]
  /\ UNCHANGED <<pack, money, enchanted, consent>>

Spend(p) ==
  /\ money[p] > 0
  /\ \E rest \in 0..(money[p] - 1) : money' = [money EXCEPT ![p] = rest]
  /\ UNCHANGED <<owner, pack, enchanted, consent>>

Next ==
  \/ \E p, q \in Players :
       Withdraw({p, q}) \/ (p # q /\ (Consent(p, q) \/ Exchange(p, q)))
  \/ \E p \in Players : Spend(p)
  \/ \E i \in Items : Leave(i)

Spec == Init /\ [][Next]_<<owner, pack, money, enchanted, consent>>
=============================================================================
