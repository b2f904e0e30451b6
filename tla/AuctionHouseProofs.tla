------------------------- MODULE AuctionHouseProofs -------------------------
(***************************************************************************)
(* Proofs about AuctionHouse for any players, items, prices, widths and    *)
(* bounds: no money and no item is created, and the tables follow memory.  *)
(***************************************************************************)
EXTENDS AuctionHouse, NaturalsInduction, WellFoundedInduction, FiniteSetTheorems, SequenceTheorems, TLAPS

-----------------------------------------------------------------------------
(* Totals *)

\* The functions that are summed.
IsCount(f) == /\ IsFiniteSet(DOMAIN f)
              /\ \A x \in DOMAIN f : f[x] \in Nat

\* A unit of f is an argument and one of the numbers up to its value.
LEMMA UnitsMember ==
  ASSUME NEW f, NEW u
  PROVE  u \in Units(f) <=> \E x \in DOMAIN f : \E k \in 1..f[x] : u = <<x, k>>
BY DEF Units

LEMMA UnitsFinite ==
  ASSUME NEW f, IsCount(f)
  PROVE  IsFiniteSet(Units(f))
<1> DEFINE Column == {{x} \X (1..f[x]) : x \in DOMAIN f}
           c == [x \in DOMAIN f |-> {x} \X (1..f[x])]
<1>1. c \in Surjection(DOMAIN f, Column)
  BY DEF Surjection
<1>2. IsFiniteSet(Column)
  BY <1>1, FS_Surjection DEF IsCount
<1>3. ASSUME NEW T \in Column PROVE IsFiniteSet(T)
  <2>1. PICK x \in DOMAIN f : T = {x} \X (1..f[x])
    OBVIOUS
  <2>2. f[x] \in Int /\ 1 \in Int
    BY DEF IsCount
  <2>3. IsFiniteSet({x})
    BY FS_Singleton
  <2>4. IsFiniteSet(1..f[x])
    BY <2>2, FS_Interval
  <2> QED
    BY <2>1, <2>3, <2>4, FS_Product
<1>4. IsFiniteSet(UNION Column)
  <2> HIDE DEF Column
  <2> QED
    BY <1>2, <1>3, FS_UNION
<1> QED
  BY <1>4 DEF Units

\* A total is a natural number.
LEMMA TotalNat ==
  ASSUME NEW f, IsCount(f)
  PROVE  Total(f) \in Nat
BY UnitsFinite, FS_CardinalityType DEF Total

\* Arguments with the value zero do not count.
LEMMA TotalZeros ==
  ASSUME NEW f, NEW g, DOMAIN f \subseteq DOMAIN g,
         \A x \in DOMAIN f : g[x] = f[x],
         \A x \in DOMAIN g \ DOMAIN f : g[x] = 0
  PROVE  Total(g) = Total(f)
<1>1. ASSUME NEW u PROVE u \in Units(f) <=> u \in Units(g)
  <2>1. ASSUME u \in Units(f) PROVE u \in Units(g)
    <3>1. PICK x \in DOMAIN f : \E k \in 1..f[x] : u = <<x, k>>
      BY <2>1, UnitsMember
    <3> QED
      BY <3>1, UnitsMember
  <2>2. ASSUME u \in Units(g) PROVE u \in Units(f)
    <3>1. PICK x \in DOMAIN g : \E k \in 1..g[x] : u = <<x, k>>
      BY <2>2, UnitsMember
    <3>2. x \in DOMAIN f
      BY <3>1
    <3> QED
      BY <3>1, <3>2, UnitsMember
  <2> QED
    BY <2>1, <2>2
<1>2. Units(f) = Units(g)
  BY <1>1
<1> QED
  BY <1>2 DEF Total

\* The total of a sum is the sum of the totals.
LEMMA TotalSum ==
  ASSUME NEW S, IsFiniteSet(S), NEW f \in [S -> Nat], NEW g \in [S -> Nat],
         NEW h \in [S -> Nat], \A x \in S : h[x] = f[x] + g[x]
  PROVE  Total(h) = Total(f) + Total(g)
<1> DEFINE Shift == Units(h) \ Units(f)
           s == [u \in Units(g) |-> <<u[1], f[u[1]] + u[2]>>]
<1>0. IsCount(f) /\ IsCount(g) /\ IsCount(h)
  BY DEF IsCount
<1>1. IsFiniteSet(Units(f)) /\ IsFiniteSet(Units(g)) /\ IsFiniteSet(Units(h))
  BY <1>0, UnitsFinite
<1>2. Units(f) \subseteq Units(h)
  <2>1. ASSUME NEW u \in Units(f) PROVE u \in Units(h)
    <3>1. PICK x \in S : \E k \in 1..f[x] : u = <<x, k>>
      BY UnitsMember
    <3>2. \A k \in 1..f[x] : k \in 1..h[x]
      OBVIOUS
    <3> QED
      BY <3>1, <3>2, UnitsMember
  <2> QED
    BY <2>1
<1>3. ASSUME NEW u \in Units(g)
      PROVE  /\ u[1] \in S /\ u[2] \in 1..g[u[1]] /\ u = <<u[1], u[2]>>
             /\ s[u] \in Shift
  <2>1. PICK x \in S : \E k \in 1..g[x] : u = <<x, k>>
    BY UnitsMember
  <2>2. PICK k \in 1..g[x] : u = <<x, k>>
    BY <2>1
  <2>3. s[u] = <<x, f[x] + k>>
    BY <2>2
  <2>4. f[x] + k \in 1..h[x] /\ f[x] + k \notin 1..f[x]
    OBVIOUS
  <2>5. s[u] \in Units(h)
    BY <2>3, <2>4, UnitsMember
  <2>6. s[u] \notin Units(f)
    <3>1. ASSUME NEW y \in S, NEW j \in 1..f[y], s[u] = <<y, j>> PROVE FALSE
      BY <2>3, <2>4, <3>1
    <3> QED
      BY <3>1, UnitsMember
  <2> QED
    BY <2>2, <2>5, <2>6
<1>4. s \in [Units(g) -> Shift]
  BY <1>3
<1>5. \A u, v \in Units(g) : s[u] = s[v] => u = v
  <2> SUFFICES ASSUME NEW u \in Units(g), NEW v \in Units(g), s[u] = s[v]
               PROVE  u = v
    OBVIOUS
  <2>1. u[1] = v[1] /\ f[u[1]] + u[2] = f[v[1]] + v[2]
    OBVIOUS
  <2>2. u[2] = v[2]
    BY <1>3, <2>1
  <2> QED
    BY <1>3, <2>1, <2>2
<1>6. ASSUME NEW w \in Shift PROVE \E u \in Units(g) : s[u] = w
  <2>1. PICK x \in S : \E k \in 1..h[x] : w = <<x, k>>
    BY UnitsMember
  <2>2. PICK k \in 1..h[x] : w = <<x, k>>
    BY <2>1
  <2>3. k \notin 1..f[x]
    BY <2>2, UnitsMember
  <2>4. k - f[x] \in 1..g[x] /\ f[x] + (k - f[x]) = k
    BY <2>3
  <2>5. <<x, k - f[x]>> \in Units(g)
    BY <2>4, UnitsMember
  <2>6. s[<<x, k - f[x]>>] = <<x, f[x] + (k - f[x])>>
    BY <2>5
  <2> QED
    BY <2>2, <2>4, <2>5, <2>6
<1>7. s \in Bijection(Units(g), Shift)
  <2>1. \A w \in Shift : \E u \in Units(g) : s[u] = w
    BY <1>6
  <2> HIDE DEF s, Shift
  <2>2. s \in Injection(Units(g), Shift)
    BY <1>4, <1>5 DEF Injection, IsInjective
  <2>3. s \in Surjection(Units(g), Shift)
    BY <1>4, <2>1 DEF Surjection
  <2> QED
    BY <2>2, <2>3 DEF Bijection
<1>8. Cardinality(Shift) = Cardinality(Units(g)) /\ IsFiniteSet(Shift)
  <2> HIDE DEF s, Shift
  <2>1. ExistsBijection(Units(g), Shift)
    BY <1>7 DEF ExistsBijection
  <2> QED
    BY <1>1, <2>1, FS_Bijection
<1>9. Cardinality(Shift) = Cardinality(Units(h)) - Cardinality(Units(h) \cap Units(f))
  BY <1>1, FS_Difference
<1>10. Units(h) \cap Units(f) = Units(f)
  BY <1>2
<1>11. Cardinality(Units(f)) \in Nat /\ Cardinality(Units(g)) \in Nat /\ Cardinality(Units(h)) \in Nat
  BY <1>1, FS_CardinalityType
<1>12. Cardinality(Units(g)) = Cardinality(Units(h)) - Cardinality(Units(f))
  <2> HIDE DEF Shift
  <2> QED
    BY <1>8, <1>9, <1>10
<1> QED
  BY <1>11, <1>12 DEF Total

\* The total of a function that is zero except at y is its value there.
LEMMA TotalPoint ==
  ASSUME NEW S, NEW y \in S, NEW v \in Nat
  PROVE  Total([x \in S |-> IF x = y THEN v ELSE 0]) = v
<1> DEFINE f == [x \in S |-> IF x = y THEN v ELSE 0]
<1>1. Units(f) = {y} \X (1..v)
  <2>1. ASSUME NEW u \in Units(f) PROVE u \in {y} \X (1..v)
    <3>1. PICK x \in S : \E k \in 1..f[x] : u = <<x, k>>
      BY UnitsMember
    <3>2. x = y
      BY <3>1
    <3> QED
      BY <3>1, <3>2
  <2>2. ASSUME NEW u \in {y} \X (1..v) PROVE u \in Units(f)
    <3>1. PICK k \in 1..v : u = <<y, k>>
      OBVIOUS
    <3> QED
      BY <3>1, UnitsMember
  <2> QED
    BY <2>1, <2>2
<1>2. IsFiniteSet({y}) /\ Cardinality({y}) = 1
  BY FS_Singleton
<1>3. Cardinality({y} \X (1..v)) = v
  <2>1. v \in Int /\ 1 \in Int
    OBVIOUS
  <2>2. IsFiniteSet(1..v) /\ Cardinality(1..v) = IF 1 > v THEN 0 ELSE v - 1 + 1
    BY <2>1, FS_Interval
  <2>3. Cardinality(1..v) = v
    BY <2>2
  <2>4. Cardinality({y} \X (1..v)) = Cardinality({y}) * Cardinality(1..v)
    BY <1>2, <2>2, FS_Product
  <2> QED
    BY <1>2, <2>3, <2>4
<1>4. Total(f) = Cardinality({y} \X (1..v))
  BY <1>1 DEF Total
<1> QED
  BY <1>3, <1>4

\* A total changes by what the one value changes that changes.
LEMMA TotalChange ==
  ASSUME NEW S, IsFiniteSet(S), NEW f \in [S -> Nat], NEW g \in [S -> Nat],
         NEW y \in S, \A x \in S : x # y => g[x] = f[x]
  PROVE  Total(g) + f[y] = Total(f) + g[y]
<1> DEFINE rest == [x \in S |-> IF x = y THEN 0 ELSE f[x]]
           Point(v) == [x \in S |-> IF x = y THEN v ELSE 0]
<1>1. rest \in [S -> Nat] /\ Point(f[y]) \in [S -> Nat] /\ Point(g[y]) \in [S -> Nat]
  OBVIOUS
<1>2. Total(f) = Total(rest) + Total(Point(f[y]))
  <2>1. \A x \in S : f[x] = rest[x] + Point(f[y])[x]
    OBVIOUS
  <2> QED
    BY <1>1, <2>1, TotalSum
<1>3. Total(g) = Total(rest) + Total(Point(g[y]))
  <2>1. \A x \in S : g[x] = rest[x] + Point(g[y])[x]
    OBVIOUS
  <2> QED
    BY <1>1, <2>1, TotalSum
<1>4. Total(Point(f[y])) = f[y] /\ Total(Point(g[y])) = g[y]
  BY TotalPoint
<1>5. Total(rest) \in Nat
  BY <1>1, TotalNat DEF IsCount
<1>6. f[y] \in Nat /\ g[y] \in Nat
  OBVIOUS
<1> QED
  <2> HIDE DEF rest, Point
  <2> QED
    BY <1>2, <1>3, <1>4, <1>5, <1>6

\* A value is part of the total, and so are two values.
LEMMA TotalPart ==
  ASSUME NEW S, IsFiniteSet(S), NEW f \in [S -> Nat], NEW y \in S
  PROVE  f[y] <= Total(f)
<1> DEFINE g == [f EXCEPT ![y] = 0]
<1>1. g \in [S -> Nat] /\ g[y] = 0 /\ \A x \in S : x # y => g[x] = f[x]
  OBVIOUS
<1>2. Total(g) + f[y] = Total(f) + g[y]
  <2> HIDE DEF g
  <2> QED
    BY <1>1, TotalChange
<1>3. Total(g) \in Nat /\ Total(f) \in Nat /\ f[y] \in Nat
  BY <1>1, TotalNat DEF IsCount
<1> QED
  <2> HIDE DEF g
  <2> QED
    BY <1>1, <1>2, <1>3

LEMMA TotalParts ==
  ASSUME NEW S, IsFiniteSet(S), NEW f \in [S -> Nat], NEW y \in S, NEW z \in S, y # z
  PROVE  f[y] + f[z] <= Total(f)
<1> DEFINE g == [f EXCEPT ![y] = 0]
<1>1. g \in [S -> Nat] /\ g[y] = 0 /\ g[z] = f[z] /\ \A x \in S : x # y => g[x] = f[x]
  OBVIOUS
<1>2. Total(g) + f[y] = Total(f) + g[y]
  <2> HIDE DEF g
  <2> QED
    BY <1>1, TotalChange
<1>3. g[z] <= Total(g)
  <2> HIDE DEF g
  <2> QED
    BY <1>1, TotalPart
<1>4. Total(g) \in Nat /\ Total(f) \in Nat /\ f[y] \in Nat /\ f[z] \in Nat
  BY <1>1, TotalNat DEF IsCount
<1> QED
  <2> HIDE DEF g
  <2> QED
    BY <1>1, <1>2, <1>3, <1>4

-----------------------------------------------------------------------------
(* Mails *)

\* A mail with an item carries no money.
Letter == {m \in [to : Players, money : Nat, item : Items \cup {NoItem}] :
              m.item # NoItem => m.money = 0}

\* The bags of mails.
IsPost(b) == /\ IsFiniteSet(DOMAIN b) /\ DOMAIN b \subseteq Letter
             /\ b \in [DOMAIN b -> Nat \ {0}]

\* What the mails weigh: their money, or how many carry one item.
Weight(b, w) == Total([m \in DOMAIN b |-> w[m] * b[m]])
Money == [m \in Letter |-> m.money]
Carries(i) == [m \in Letter |-> IF m.item = i THEN 1 ELSE 0]

LEMMA WeightNat ==
  ASSUME NEW b, IsPost(b), NEW w \in [Letter -> Nat]
  PROVE  Weight(b, w) \in Nat
<1> DEFINE f == [m \in DOMAIN b |-> w[m] * b[m]]
<1>1. \A m \in DOMAIN f : f[m] \in Nat
  BY DEF IsPost
<1>2. IsCount(f)
  BY <1>1 DEF IsPost, IsCount
<1> QED
  BY <1>2, TotalNat DEF Weight

LEMMA MoneyType ==
  /\ Money \in [Letter -> Nat]
  /\ \A i \in Items : Carries(i) \in [Letter -> Nat]
BY DEF Money, Carries, Letter

LEMMA Distribute ==
  ASSUME NEW a \in Nat, NEW b \in Nat, NEW c \in Nat
  PROVE  a * (b + c) = a * b + a * c /\ a * b \in Nat /\ a * c \in Nat
OBVIOUS

\* Mails that come together weigh what they weigh apart.
LEMMA WeightSum ==
  ASSUME NEW b, NEW c, IsPost(b), IsPost(c), NEW w \in [Letter -> Nat]
  PROVE  IsPost(b (+) c) /\ Weight(b (+) c, w) = Weight(b, w) + Weight(c, w)
<1> DEFINE S == DOMAIN b \cup DOMAIN c
           B(m) == IF m \in DOMAIN b THEN b[m] ELSE 0
           C(m) == IF m \in DOMAIN c THEN c[m] ELSE 0
           f == [m \in S |-> w[m] * B(m)]
           g == [m \in S |-> w[m] * C(m)]
           h == [m \in S |-> w[m] * (b (+) c)[m]]
<1>1. b (+) c = [m \in S |-> B(m) + C(m)]
  BY DEF (+)
<1>2. ASSUME NEW m \in S
      PROVE  /\ B(m) \in Nat /\ C(m) \in Nat /\ w[m] \in Nat /\ B(m) + C(m) # 0
             /\ m \in Letter
  BY DEF IsPost
<1>3. IsFiniteSet(S) /\ S \subseteq Letter
  BY FS_Union DEF IsPost
<1>4. IsPost(b (+) c) /\ DOMAIN (b (+) c) = S
  <2>1. [m \in S |-> B(m) + C(m)] \in [S -> Nat \ {0}]
    BY <1>2
  <2> QED
    BY <1>1, <1>3, <2>1 DEF IsPost
<1>5. ASSUME NEW m \in S
      PROVE  f[m] \in Nat /\ g[m] \in Nat /\ h[m] \in Nat /\ h[m] = f[m] + g[m]
  <2>1. f[m] = w[m] * B(m) /\ g[m] = w[m] * C(m) /\ h[m] = w[m] * (B(m) + C(m))
    BY <1>1
  <2>2. w[m] * (B(m) + C(m)) = w[m] * B(m) + w[m] * C(m)
        /\ w[m] * B(m) \in Nat /\ w[m] * C(m) \in Nat
    <3> HIDE DEF B, C
    <3> QED
      BY <1>2, Distribute
  <2> HIDE DEF f, g, h, B, C
  <2> QED
    BY <2>1, <2>2
<1>6. f \in [S -> Nat] /\ g \in [S -> Nat] /\ h \in [S -> Nat]
      /\ \A m \in S : h[m] = f[m] + g[m]
  BY <1>5
<1>7. Total(h) = Total(f) + Total(g)
  <2> HIDE DEF f, g, h, S
  <2> QED
    BY <1>3, <1>6, TotalSum
<1>8. Total(f) = Weight(b, w)
  <2> DEFINE e == [m \in DOMAIN b |-> w[m] * b[m]]
  <2>1. DOMAIN e \subseteq DOMAIN f /\ \A m \in DOMAIN e : f[m] = e[m]
    OBVIOUS
  <2>2. ASSUME NEW m \in DOMAIN f \ DOMAIN e PROVE f[m] = 0
    <3>1. f[m] = w[m] * 0 /\ w[m] \in Nat
      BY <1>2
    <3> QED
      BY <3>1
  <2>3. Total(f) = Total(e)
    <3> HIDE DEF f, e
    <3> QED
      BY <2>1, <2>2, TotalZeros
  <2> QED
    BY <2>3 DEF Weight
<1>9. Total(g) = Weight(c, w)
  <2> DEFINE e == [m \in DOMAIN c |-> w[m] * c[m]]
  <2>1. DOMAIN e \subseteq DOMAIN g /\ \A m \in DOMAIN e : g[m] = e[m]
    OBVIOUS
  <2>2. ASSUME NEW m \in DOMAIN g \ DOMAIN e PROVE g[m] = 0
    <3>1. g[m] = w[m] * 0 /\ w[m] \in Nat
      BY <1>2
    <3> QED
      BY <3>1
  <2>3. Total(g) = Total(e)
    <3> HIDE DEF g, e
    <3> QED
      BY <2>1, <2>2, TotalZeros
  <2> QED
    BY <2>3 DEF Weight
<1>10. Weight(b (+) c, w) = Total(h)
  BY <1>4 DEF Weight
<1> QED
  <2> HIDE DEF f, g, h
  <2> QED
    BY <1>4, <1>7, <1>8, <1>9, <1>10

\* No mail weighs nothing, and one mail its weight.
LEMMA WeightNone ==
  ASSUME NEW w
  PROVE  IsPost(EmptyBag) /\ Weight(EmptyBag, w) = 0
<1>1. EmptyBag = [e \in {} |-> 1] /\ DOMAIN EmptyBag = {}
  BY DEF EmptyBag, SetToBag
<1>2. IsPost(EmptyBag)
  BY <1>1, FS_EmptySet DEF IsPost
<1>3. Units([m \in DOMAIN EmptyBag |-> w[m] * EmptyBag[m]]) = {}
  BY <1>1 DEF Units
<1>4. Weight(EmptyBag, w) = Cardinality({})
  BY <1>3 DEF Weight, Total
<1> QED
  BY <1>2, <1>4, FS_EmptySet

LEMMA WeightOne ==
  ASSUME NEW m \in Letter, NEW w \in [Letter -> Nat]
  PROVE  IsPost(SetToBag({m})) /\ Weight(SetToBag({m}), w) = w[m]
<1> DEFINE b == SetToBag({m})
           f == [x \in DOMAIN b |-> w[x] * b[x]]
           g == [x \in {m} |-> IF x = m THEN w[m] ELSE 0]
<1>1. b = [x \in {m} |-> 1]
  BY DEF SetToBag
<1>2. IsPost(b)
  <2>1. IsFiniteSet({m})
    BY FS_Singleton
  <2>2. DOMAIN b = {m} /\ b \in [{m} -> Nat \ {0}]
    BY <1>1
  <2>3. {m} \subseteq Letter
    OBVIOUS
  <2> HIDE DEF b
  <2> QED
    BY <2>1, <2>2, <2>3, Zenon DEF IsPost
<1>3. f = g
  <2>1. DOMAIN f = {m} /\ f[m] = w[m] * 1 /\ w[m] \in Nat
    BY <1>1
  <2>2. f[m] = w[m]
    BY <2>1
  <2> QED
    BY <1>1, <2>2
<1>4. Total(g) = w[m]
  <2>1. m \in {m} /\ w[m] \in Nat
    OBVIOUS
  <2> QED
    BY <2>1, TotalPoint, Zenon
<1> QED
  BY <1>2, <1>3, <1>4 DEF Weight

\* A mail that is taken out of the post leaves the rest of the weight.
LEMMA WeightTake ==
  ASSUME NEW b, IsPost(b), NEW m \in DOMAIN b, NEW w \in [Letter -> Nat]
  PROVE  /\ IsPost(b (-) SetToBag({m}))
         /\ Weight(b (-) SetToBag({m}), w) + w[m] = Weight(b, w)
<1> DEFINE c == b (-) SetToBag({m})
           B == [e \in DOMAIN b |-> IF e = m THEN b[m] - 1 ELSE b[e]]
           S == {e \in DOMAIN b : B[e] > 0}
           f == [e \in DOMAIN b |-> w[e] * b[e]]
           g == [e \in DOMAIN b |-> w[e] * B[e]]
           h == [e \in S |-> w[e] * c[e]]
<1>1. c = [e \in S |-> B[e]]
  <2>1. \A e \in DOMAIN b : e \in DOMAIN SetToBag({m}) <=> e = m
    BY DEF SetToBag
  <2>2. SetToBag({m})[m] = 1
    BY DEF SetToBag
  <2>3. B = [e \in DOMAIN b |-> IF e \in DOMAIN SetToBag({m}) THEN b[e] - SetToBag({m})[e] ELSE b[e]]
    BY <2>1, <2>2
  <2> HIDE DEF B
  <2> QED
    BY <2>3 DEF (-)
<1>2. ASSUME NEW e \in DOMAIN b
      PROVE  e \in Letter /\ w[e] \in Nat /\ b[e] \in Nat /\ B[e] \in Nat /\ (e # m => B[e] = b[e])
  BY DEF IsPost
<1>3. b[m] \in Nat \ {0} /\ B[m] = b[m] - 1 /\ w[m] \in Nat
  BY DEF IsPost
<1>4. IsFiniteSet(S) /\ S \subseteq Letter /\ IsFiniteSet(DOMAIN b)
  BY FS_Subset DEF IsPost
<1>5. IsPost(c)
  <2>1. \A e \in S : B[e] \in Nat \ {0}
    BY <1>2
  <2> HIDE DEF B
  <2> QED
    BY <1>1, <1>4, <2>1 DEF IsPost
<1>6. ASSUME NEW e \in DOMAIN b PROVE f[e] \in Nat /\ g[e] \in Nat /\ (e # m => g[e] = f[e])
  BY <1>2
<1>7. Total(g) + f[m] = Total(f) + g[m]
  <2>1. f \in [DOMAIN b -> Nat] /\ g \in [DOMAIN b -> Nat] /\ \A x \in DOMAIN b : x # m => g[x] = f[x]
    BY <1>6
  <2> HIDE DEF f, g
  <2> QED
    BY <1>4, <2>1, TotalChange
<1>8. f[m] = g[m] + w[m]
  <2>1. f[m] = w[m] * b[m] /\ g[m] = w[m] * (b[m] - 1)
    BY <1>3
  <2> HIDE DEF f, g, B
  <2>2. PICK k \in Nat : b[m] = k + 1 /\ b[m] - 1 = k
    BY <1>3
  <2>3. w[m] * (k + 1) = w[m] * k + w[m] * 1 /\ w[m] * 1 = w[m]
    BY <1>3, Distribute
  <2> QED
    BY <2>1, <2>2, <2>3
<1>9. Total(g) = Total(h)
  <2>1. DOMAIN h \subseteq DOMAIN g /\ \A e \in DOMAIN h : g[e] = h[e]
    BY <1>1
  <2>2. ASSUME NEW e \in DOMAIN g \ DOMAIN h PROVE g[e] = 0
    <3>1. B[e] = 0 /\ w[e] \in Nat
      BY <1>2
    <3>2. g[e] = w[e] * B[e]
      OBVIOUS
    <3> HIDE DEF g, B
    <3> QED
      BY <3>1, <3>2
  <2> HIDE DEF g, h
  <2> QED
    BY <2>1, <2>2, TotalZeros
<1>10. Weight(c, w) = Total(h)
  <2>1. DOMAIN c = S
    BY <1>1
  <2> HIDE DEF c, S
  <2> QED
    BY <2>1 DEF Weight
<1>11. Weight(b, w) = Total(f)
  BY DEF Weight
<1>12. Total(f) \in Nat /\ Total(g) \in Nat /\ f[m] \in Nat /\ g[m] \in Nat
  <2>1. IsCount(f) /\ IsCount(g)
    BY <1>4, <1>6 DEF IsCount
  <2> QED
    BY <1>6, <2>1, TotalNat
<1>13. Total(h) + w[m] = Total(f)
  <2> HIDE DEF f, g, h
  <2> QED
    BY <1>3, <1>7, <1>8, <1>9, <1>12
<1> QED
  <2> HIDE DEF f, h, c
  <2>1. IsPost(c) /\ Weight(c, w) + w[m] = Weight(b, w)
    BY <1>5, <1>10, <1>11, <1>13
  <2> QED
    BY <2>1 DEF c

-----------------------------------------------------------------------------
(* Stores *)

\* The lots; one without a bidder has no bid.
Lot == {a \in AuctionEntry : a.bidder = Nobody => a.bid = 0}

\* The stores: memory, the tables, and the tables as they will be.
IsStore(t) ==
  /\ t = [gold |-> t.gold, bag |-> t.bag, mail |-> t.mail, lot |-> t.lot]
  /\ t.gold \in [Players -> Nat]
  /\ t.bag \in [Items -> Players \cup {Nobody}]
  /\ IsPost(t.mail)
  /\ t.lot \in [Ids -> Lot \cup {NoLot}]

LEMMA ParametersFinite == IsFiniteSet(Players) /\ IsFiniteSet(Ids) /\ Ids \subseteq Nat \ {0}
<1>1. MaxSales \in Int /\ 1 \in Int
  BY AuctionAssumption
<1>2. IsFiniteSet(1..MaxSales)
  BY <1>1, FS_Interval
<1> QED
  BY <1>1, <1>2, AuctionAssumption DEF Ids

LEMMA NoLotIsNone == NoLot \notin Lot /\ Lot \subseteq AuctionEntry
BY AuctionAssumption DEF Lot

\* The two weights of the mails are the money and the items in them.
LEMMA PostWeight ==
  ASSUME NEW b, IsPost(b)
  PROVE  /\ MailMoney(b) = Weight(b, Money)
         /\ \A i \in Items : InMails(b, i) = Weight(b, Carries(i))
<1>1. ASSUME NEW m \in DOMAIN b PROVE m \in Letter /\ b[m] \in Nat
  BY DEF IsPost
<1>2. [m \in DOMAIN b |-> m.money * b[m]] = [m \in DOMAIN b |-> Money[m] * b[m]]
  BY <1>1 DEF Money
<1>3. ASSUME NEW i \in Items
      PROVE  InMails(b, i) = Weight(b, Carries(i))
  <2>1. ASSUME NEW m \in DOMAIN b
        PROVE  (IF m.item = i THEN b[m] ELSE 0) = Carries(i)[m] * b[m]
    <3>1. Carries(i)[m] = IF m.item = i THEN 1 ELSE 0
      BY <1>1 DEF Carries
    <3> QED
      BY <1>1, <3>1
  <2>2. [m \in DOMAIN b |-> IF m.item = i THEN b[m] ELSE 0]
          = [m \in DOMAIN b |-> Carries(i)[m] * b[m]]
    BY <2>1
  <2> QED
    BY <2>2 DEF InMails, Weight
<1> QED
  BY <1>2, <1>3 DEF MailMoney, Weight

\* What the parts of a store hold are numbers.
LEMMA StoreParts ==
  ASSUME NEW t, IsStore(t)
  PROVE  /\ [id \in Ids |-> Stake(t.lot[id])] \in [Ids -> Nat]
         /\ \A i \in Items : [id \in Ids |-> InLot(t.lot[id], i)] \in [Ids -> Nat]
         /\ \A i \in Items : InBag(t.bag[i]) \in 0..1
         /\ \A id \in Ids : t.lot[id] # NoLot => t.lot[id] \in Lot
         /\ Total(t.gold) \in Nat
         /\ Total([id \in Ids |-> Stake(t.lot[id])]) \in Nat
         /\ \A i \in Items : Total([id \in Ids |-> InLot(t.lot[id], i)]) \in Nat
         /\ MailMoney(t.mail) \in Nat
         /\ \A i \in Items : InMails(t.mail, i) \in Nat
<1>1. \A id \in Ids : t.lot[id] # NoLot => t.lot[id] \in Lot
  BY DEF IsStore
<1>2. ASSUME NEW id \in Ids PROVE Stake(t.lot[id]) \in Nat
  BY <1>1, AuctionAssumption DEF Stake, Lot, AuctionEntry
<1>3. ASSUME NEW id \in Ids, NEW i \in Items PROVE InLot(t.lot[id], i) \in Nat
  BY DEF InLot
<1>4. [id \in Ids |-> Stake(t.lot[id])] \in [Ids -> Nat]
  BY <1>2
<1>5. ASSUME NEW i \in Items PROVE [id \in Ids |-> InLot(t.lot[id], i)] \in [Ids -> Nat]
  BY <1>3
<1>6. \A i \in Items : InBag(t.bag[i]) \in 0..1
  BY DEF InBag
<1>7. ASSUME NEW f, NEW S, IsFiniteSet(S), f \in [S -> Nat] PROVE Total(f) \in Nat
  BY <1>7, TotalNat DEF IsCount
<1>8. Total(t.gold) \in Nat
  BY <1>7, ParametersFinite DEF IsStore
<1>9. Total([id \in Ids |-> Stake(t.lot[id])]) \in Nat
  BY <1>4, <1>7, ParametersFinite
<1>10. \A i \in Items : Total([id \in Ids |-> InLot(t.lot[id], i)]) \in Nat
  BY <1>5, <1>7, ParametersFinite
<1>11. MailMoney(t.mail) \in Nat /\ \A i \in Items : InMails(t.mail, i) \in Nat
  <2>1. IsPost(t.mail)
    BY DEF IsStore
  <2> QED
    BY <2>1, PostWeight, WeightNat, MoneyType
<1> QED
  BY <1>1, <1>4, <1>5, <1>6, <1>8, <1>9, <1>10, <1>11

LEMMA WealthNat ==
  ASSUME NEW t, IsStore(t)
  PROVE  Wealth(t) \in Nat /\ \A i \in Items : Places(t, i) \in Nat
<1>1. Wealth(t) \in Nat
  BY StoreParts DEF Wealth
<1>2. ASSUME NEW i \in Items PROVE Places(t, i) \in Nat
  <2>1. InBag(t.bag[i]) \in 0..1 /\ InMails(t.mail, i) \in Nat
        /\ Total([id \in Ids |-> InLot(t.lot[id], i)]) \in Nat
    BY StoreParts
  <2> QED
    BY <2>1 DEF Places
<1> QED
  BY <1>1, <1>2

\* u is t with another purse of p, another post and another lot id.
Differ(t, u, p, id) ==
  /\ \A q \in Players : q # p => u.gold[q] = t.gold[q]
  /\ \A n \in Ids : n # id => u.lot[n] = t.lot[n]

\* Wealth changes by what changes in the purse, the post and the lot.
LEMMA WealthChange ==
  ASSUME NEW t, IsStore(t), NEW u, IsStore(u), NEW p \in Players, NEW id \in Ids,
         Differ(t, u, p, id)
  PROVE  /\ Wealth(u) \in Nat /\ Wealth(t) \in Nat
         /\ Wealth(u) + t.gold[p] + MailMoney(t.mail) + Stake(t.lot[id])
              = Wealth(t) + u.gold[p] + MailMoney(u.mail) + Stake(u.lot[id])
<1> DEFINE f == [n \in Ids |-> Stake(t.lot[n])]
           g == [n \in Ids |-> Stake(u.lot[n])]
<1>1. f \in [Ids -> Nat] /\ g \in [Ids -> Nat]
  BY StoreParts
<1>2. \A n \in Ids : n # id => g[n] = f[n]
  BY DEF Differ
<1>3. Total(g) + f[id] = Total(f) + g[id]
  <2>1. IsFiniteSet(Ids)
    BY ParametersFinite
  <2> HIDE DEF f, g
  <2> QED
    BY <1>1, <1>2, <2>1, TotalChange
<1>4. Total(u.gold) + t.gold[p] = Total(t.gold) + u.gold[p]
  BY ParametersFinite, TotalChange DEF IsStore, Differ
<1>5. f[id] = Stake(t.lot[id]) /\ g[id] = Stake(u.lot[id]) /\ f[id] \in Nat /\ g[id] \in Nat
  BY <1>1
<1>6. t.gold[p] \in Nat /\ u.gold[p] \in Nat
  BY DEF IsStore
<1>7. /\ Total(t.gold) \in Nat /\ Total(u.gold) \in Nat /\ Total(f) \in Nat /\ Total(g) \in Nat
      /\ MailMoney(t.mail) \in Nat /\ MailMoney(u.mail) \in Nat
  BY StoreParts
<1>8. Wealth(t) = Total(t.gold) + MailMoney(t.mail) + Total(f)
      /\ Wealth(u) = Total(u.gold) + MailMoney(u.mail) + Total(g)
  BY DEF Wealth
<1> QED
  <2> HIDE DEF f, g
  <2> QED
    BY <1>3, <1>4, <1>5, <1>6, <1>7, <1>8

\* The places of an item change by what changes in its bag, the post and the lot.
LEMMA PlacesChange ==
  ASSUME NEW t, IsStore(t), NEW u, IsStore(u), NEW p, NEW id \in Ids, NEW i \in Items,
         Differ(t, u, p, id)
  PROVE  /\ Places(u, i) \in Nat /\ Places(t, i) \in Nat
         /\ InBag(t.bag[i]) \in 0..1 /\ InBag(u.bag[i]) \in 0..1
         /\ InMails(t.mail, i) \in Nat /\ InMails(u.mail, i) \in Nat
         /\ InLot(t.lot[id], i) \in 0..1 /\ InLot(u.lot[id], i) \in 0..1
         /\ Places(u, i) + InBag(t.bag[i]) + InMails(t.mail, i) + InLot(t.lot[id], i)
              = Places(t, i) + InBag(u.bag[i]) + InMails(u.mail, i) + InLot(u.lot[id], i)
<1> DEFINE f == [n \in Ids |-> InLot(t.lot[n], i)]
           g == [n \in Ids |-> InLot(u.lot[n], i)]
<1>1. f \in [Ids -> Nat] /\ g \in [Ids -> Nat]
  BY StoreParts
<1>2. \A n \in Ids : n # id => g[n] = f[n]
  BY DEF Differ
<1>3. Total(g) + f[id] = Total(f) + g[id]
  <2>1. IsFiniteSet(Ids)
    BY ParametersFinite
  <2> HIDE DEF f, g
  <2> QED
    BY <1>1, <1>2, <2>1, TotalChange
<1>5. f[id] = InLot(t.lot[id], i) /\ g[id] = InLot(u.lot[id], i) /\ f[id] \in 0..1 /\ g[id] \in 0..1
  BY DEF InLot
<1>6. /\ InBag(t.bag[i]) \in 0..1 /\ InBag(u.bag[i]) \in 0..1
      /\ InMails(t.mail, i) \in Nat /\ InMails(u.mail, i) \in Nat
      /\ Total(f) \in Nat /\ Total(g) \in Nat
  BY StoreParts
<1>7. Places(t, i) = InBag(t.bag[i]) + InMails(t.mail, i) + Total(f)
      /\ Places(u, i) = InBag(u.bag[i]) + InMails(u.mail, i) + Total(g)
  BY DEF Places
<1> QED
  <2> HIDE DEF f, g
  <2> QED
    BY <1>3, <1>5, <1>6, <1>7

\* An item that is in a mail or a lot is in no bag, and in one lot at most,
\* as long as it is in one place at most.
LEMMA OnePlace ==
  ASSUME NEW t, IsStore(t), NEW i \in Items, Places(t, i) <= 1
  PROVE  /\ \A m \in DOMAIN t.mail : m.item = i => t.bag[i] = Nobody
         /\ \A id \in Ids, n \in Ids :
               t.lot[id] # NoLot /\ t.lot[n] # NoLot
                 /\ t.lot[id].item = i /\ t.lot[n].item = i => id = n
<1> DEFINE f == [m \in DOMAIN t.mail |-> IF m.item = i THEN t.mail[m] ELSE 0]
           g == [n \in Ids |-> InLot(t.lot[n], i)]
<1>1. /\ InBag(t.bag[i]) \in 0..1 /\ InMails(t.mail, i) \in Nat /\ Total(g) \in Nat
      /\ g \in [Ids -> Nat]
  BY StoreParts
<1>2. Places(t, i) = InBag(t.bag[i]) + InMails(t.mail, i) + Total(g)
  BY DEF Places
<1>3. ASSUME NEW m \in DOMAIN t.mail, m.item = i PROVE t.bag[i] = Nobody
  <2>1. f \in [DOMAIN t.mail -> Nat] /\ f[m] \in Nat \ {0} /\ IsFiniteSet(DOMAIN t.mail)
    BY <1>3 DEF IsStore, IsPost
  <2>2. f[m] <= Total(f)
    <3> HIDE DEF f
    <3> QED
      BY <2>1, TotalPart
  <2>3. InMails(t.mail, i) = Total(f)
    BY DEF InMails
  <2>4. InBag(t.bag[i]) = 0
    <3> HIDE DEF f, g
    <3> QED
      BY <1>1, <1>2, <2>1, <2>2, <2>3
  <2> QED
    BY <2>4 DEF InBag
<1>4. ASSUME NEW id \in Ids, NEW n \in Ids, t.lot[id] # NoLot, t.lot[n] # NoLot,
             t.lot[id].item = i, t.lot[n].item = i, id # n
      PROVE  FALSE
  <2>1. g[id] = 1 /\ g[n] = 1
    BY <1>4 DEF InLot
  <2>2. g[id] + g[n] <= Total(g)
    <3> HIDE DEF g
    <3> QED
      BY <1>1, <1>4, ParametersFinite, TotalParts
  <2> HIDE DEF g
  <2> QED
    BY <1>1, <1>2, <2>1, <2>2
<1> QED
  BY <1>3, <1>4

-----------------------------------------------------------------------------
(* The tables while the worker works through the queue *)

\* A set of naturals that is not empty has a least element.
LEMMA LeastElement ==
  ASSUME NEW T, T \subseteq Nat, T # {}
  PROVE  \E n \in T : \A m \in T : n <= m
<1>1. IsWellFoundedOn(OpToRel(<, Nat), Nat)
  BY NatLessThanWellFounded
<1>2. PICK n \in T : \A m \in T : <<m, n>> \notin OpToRel(<, Nat)
  BY <1>1, WFMin
<1>3. \A m \in T : ~(m < n)
  BY <1>2 DEF OpToRel
<1> QED
  BY <1>3

\* f says what the tables are after each of the operations.
Trace(t, q, f) == f = [n \in 0..Len(q) |-> IF n = 0 THEN t ELSE Apply(f[n - 1], q[n])]

LEMMA TraceMeans ==
  ASSUME NEW t, NEW q, Len(q) \in Nat, NEW f
  PROVE  Trace(t, q, f) <=>
           /\ f = [n \in 0..Len(q) |-> f[n]]
           /\ f[0] = t
           /\ \A n \in 1..Len(q) : f[n] = Apply(f[n - 1], q[n])
<1>1. ASSUME Trace(t, q, f)
      PROVE  /\ f = [n \in 0..Len(q) |-> f[n]]
             /\ f[0] = t
             /\ \A n \in 1..Len(q) : f[n] = Apply(f[n - 1], q[n])
  <2> DEFINE e == [n \in 0..Len(q) |-> IF n = 0 THEN t ELSE Apply(f[n - 1], q[n])]
  <2>1. f = e
    BY <1>1 DEF Trace
  <2>2. e[0] = t /\ \A n \in 1..Len(q) : e[n] = Apply(f[n - 1], q[n])
    OBVIOUS
  <2>3. e = [n \in 0..Len(q) |-> e[n]]
    OBVIOUS
  <2> HIDE DEF e
  <2> QED
    BY <2>1, <2>2, <2>3
<1>2. ASSUME f = [n \in 0..Len(q) |-> f[n]], f[0] = t,
             \A n \in 1..Len(q) : f[n] = Apply(f[n - 1], q[n])
      PROVE  Trace(t, q, f)
  <2>1. \A n \in 0..Len(q) : f[n] = IF n = 0 THEN t ELSE Apply(f[n - 1], q[n])
    BY <1>2
  <2>2. [n \in 0..Len(q) |-> f[n]] = [n \in 0..Len(q) |-> IF n = 0 THEN t ELSE Apply(f[n - 1], q[n])]
    BY <2>1
  <2> QED
    BY <1>2, <2>2 DEF Trace
<1> QED
  BY <1>1, <1>2

\* Stages is the only trace.
LEMMA StagesUnique ==
  ASSUME NEW t, NEW q, Len(q) \in Nat, NEW f, Trace(t, q, f)
  PROVE  Stages(t, q) = f
<1> DEFINE e == Stages(t, q)
           T == {n \in 0..Len(q) : e[n] # f[n]}
<1>1. Trace(t, q, e)
  <2>1. e = CHOOSE g : Trace(t, q, g)
    BY DEF Stages, Trace
  <2>2. \E g : Trace(t, q, g)
    OBVIOUS
  <2> QED
    BY <2>1, <2>2
<1> HIDE DEF e
<1>2. /\ e = [n \in 0..Len(q) |-> e[n]] /\ e[0] = t
      /\ \A n \in 1..Len(q) : e[n] = Apply(e[n - 1], q[n])
  BY <1>1, TraceMeans
<1>3. /\ f = [n \in 0..Len(q) |-> f[n]] /\ f[0] = t
      /\ \A n \in 1..Len(q) : f[n] = Apply(f[n - 1], q[n])
  BY TraceMeans
<1>4. T = {}
  <2> SUFFICES ASSUME T # {} PROVE FALSE
    OBVIOUS
  <2>1. T \subseteq Nat
    OBVIOUS
  <2>2. PICK k \in T : \A m \in T : k <= m
    BY <2>1, LeastElement
  <2>3. k # 0
    BY <1>2, <1>3
  <2>4. k \in 1..Len(q) /\ k - 1 \in 0..Len(q) /\ k - 1 \notin T
    BY <2>2, <2>3
  <2>5. e[k - 1] = f[k - 1]
    BY <2>4
  <2>6. e[k] = f[k]
    BY <1>2, <1>3, <2>4, <2>5
  <2> QED
    BY <2>6
<1>5. \A n \in 0..Len(q) : e[n] = f[n]
  BY <1>4
<1>6. [n \in 0..Len(q) |-> e[n]] = [n \in 0..Len(q) |-> f[n]]
  BY <1>5
<1>7. e = f
  BY <1>2, <1>3, <1>6
<1> QED
  BY <1>7 DEF e

\* Nothing in a store is more than there was, or twice.
Safe(t) == /\ IsStore(t) /\ Wealth(t) <= Total(StartGold)
           /\ \A i \in Items : Places(t, i) <= 1

\* The tables d, and all they will be, are safe, and m is what they lead to.
Trail(d, q, m) == /\ q \in Seq(Range(q))
                  /\ Trace(d, q, Stages(d, q))
                  /\ \A n \in 0..Len(q) : Safe(Stages(d, q)[n])
                  /\ Stages(d, q)[Len(q)] = m

LEMMA TrailFrom ==
  ASSUME NEW d, NEW S, NEW q \in Seq(S), NEW f, Trace(d, q, f),
         \A n \in 0..Len(q) : Safe(f[n])
  PROVE  Trail(d, q, f[Len(q)])
<1>1. q \in Seq(Range(q)) /\ Len(q) \in Nat
  <2>1. q \in Seq(Range(q))
    BY SeqOfRange
  <2> QED
    BY <2>1
<1>2. Stages(d, q) = f
  BY <1>1, StagesUnique
<1> QED
  BY <1>1, <1>2 DEF Trail

LEMMA TrailStart ==
  ASSUME NEW d, Safe(d)
  PROVE  Trail(d, <<>>, d)
<1> DEFINE f == [n \in 0..0 |-> d]
<1>1. <<>> \in Seq({}) /\ Len(<<>>) = 0
  OBVIOUS
<1>2. f = [n \in 0..0 |-> f[n]] /\ f[0] = d /\ \A n \in 1..0 : f[n] = Apply(f[n - 1], <<>>[n])
  OBVIOUS
<1>3. Trace(d, <<>>, f)
  <2> HIDE DEF f
  <2> QED
    BY <1>1, <1>2, TraceMeans
<1>4. \A n \in 0..Len(<<>>) : Safe(f[n])
  BY <1>1
<1> QED
  <2> HIDE DEF f
  <2>1. Trail(d, <<>>, f[Len(<<>>)])
    BY <1>1, <1>3, <1>4, TrailFrom
  <2> QED
    BY <1>1, <1>2, <2>1

LEMMA TrailEnds ==
  ASSUME NEW d, NEW q, NEW m, Trail(d, q, m)
  PROVE  Safe(d) /\ Safe(m) /\ (q = <<>> => d = m)
<1> DEFINE f == Stages(d, q)
<1>1. Len(q) \in Nat /\ Trace(d, q, f) /\ f[Len(q)] = m /\ \A n \in 0..Len(q) : Safe(f[n])
  BY DEF Trail
<1> HIDE DEF f
<1>2. f[0] = d
  BY <1>1, TraceMeans
<1>3. 0 \in 0..Len(q) /\ Len(q) \in 0..Len(q)
  BY <1>1
<1>4. q = <<>> => Len(q) = 0
  OBVIOUS
<1> QED
  BY <1>1, <1>2, <1>3, <1>4

\* One more operation in the queue.
LEMMA TrailAdd ==
  ASSUME NEW d, NEW q, NEW m, NEW x, Trail(d, q, m), Safe(Apply(m, x))
  PROVE  Trail(d, q \o <<x>>, Apply(m, x))
<1> DEFINE f == Stages(d, q)
           S == Range(q) \cup {x}
           r == q \o <<x>>
           g == [n \in 0..Len(q) + 1 |-> IF n = Len(q) + 1 THEN Apply(m, x) ELSE f[n]]
<1>1. /\ q \in Seq(Range(q)) /\ Len(q) \in Nat /\ Trace(d, q, f) /\ f[Len(q)] = m
      /\ \A n \in 0..Len(q) : Safe(f[n])
  BY DEF Trail
<1>2. /\ q \in Seq(S) /\ r \in Seq(S) /\ Len(r) = Len(q) + 1 /\ r[Len(q) + 1] = x
      /\ \A n \in 1..Len(q) : r[n] = q[n]
  <2>1. Range(q) \subseteq S /\ x \in S
    OBVIOUS
  <2> HIDE DEF S
  <2>2. q \in Seq(S)
    BY <1>1, <2>1, SeqDef
  <2>3. <<x>> \in Seq(S) /\ Len(<<x>>) = 1 /\ <<x>>[1] = x
    BY <2>1
  <2> QED
    BY <2>2, <2>3
<1> HIDE DEF f, r, S
<1>3. f[0] = d /\ \A n \in 1..Len(q) : f[n] = Apply(f[n - 1], q[n])
  BY <1>1, TraceMeans
<1>4. /\ g = [n \in 0..Len(q) + 1 |-> g[n]] /\ g[0] = d /\ g[Len(q) + 1] = Apply(m, x)
      /\ \A n \in 0..Len(q) : g[n] = f[n]
  BY <1>1, <1>3
<1> HIDE DEF g
<1>5. ASSUME NEW n \in 1..Len(q) + 1 PROVE g[n] = Apply(g[n - 1], r[n])
  <2>1. CASE n = Len(q) + 1
    <3>1. n - 1 = Len(q) /\ Len(q) \in 0..Len(q)
      BY <1>1, <2>1
    <3>2. g[n - 1] = m
      BY <1>1, <1>4, <3>1
    <3> QED
      BY <1>2, <1>4, <2>1, <3>2
  <2>2. CASE n # Len(q) + 1
    <3>1. n \in 1..Len(q) /\ n \in 0..Len(q) /\ n - 1 \in 0..Len(q)
      BY <1>1, <2>2
    <3>2. g[n] = f[n] /\ g[n - 1] = f[n - 1] /\ r[n] = q[n] /\ f[n] = Apply(f[n - 1], q[n])
      BY <1>2, <1>3, <1>4, <3>1
    <3> QED
      BY <3>2
  <2> QED
    BY <2>1, <2>2
<1>6. Trace(d, r, g)
  <2>1. \A n \in 1..Len(r) : g[n] = Apply(g[n - 1], r[n])
    BY <1>2, <1>5
  <2>2. Len(r) \in Nat /\ g = [n \in 0..Len(r) |-> g[n]] /\ g[0] = d
    BY <1>1, <1>2, <1>4
  <2> QED
    BY <2>1, <2>2, TraceMeans
<1>7. \A n \in 0..Len(r) : Safe(g[n])
  <2>1. ASSUME NEW n \in 0..Len(r) PROVE Safe(g[n])
    <3>1. n = Len(q) + 1 \/ n \in 0..Len(q)
      BY <1>1, <1>2
    <3> QED
      BY <1>1, <1>4, <3>1
  <2> QED
    BY <2>1
<1>8. Trail(d, r, g[Len(r)])
  BY <1>2, <1>6, <1>7, TrailFrom
<1>9. Trail(d, r, Apply(m, x))
  BY <1>2, <1>4, <1>8
<1> QED
  BY <1>9 DEF r

\* The worker does the operation at the head of the queue.
LEMMA TrailWork ==
  ASSUME NEW d, NEW q, NEW m, Trail(d, q, m), q # <<>>
  PROVE  Trail(Apply(d, Head(q)), Tail(q), m)
<1> DEFINE f == Stages(d, q)
           S == Range(q)
           r == Tail(q)
           g == [n \in 0..(Len(q) - 1) |-> f[n + 1]]
<1>1. /\ q \in Seq(S) /\ Len(q) \in Nat /\ Trace(d, q, f) /\ f[Len(q)] = m
      /\ \A n \in 0..Len(q) : Safe(f[n])
  BY DEF Trail
<1> HIDE DEF f, S
<1>2. /\ Len(q) # 0 /\ r \in Seq(S) /\ Len(r) = Len(q) - 1 /\ Head(q) = q[1]
      /\ \A n \in 1..Len(r) : r[n] = q[n + 1]
  BY <1>1
<1>3. f[0] = d /\ \A n \in 1..Len(q) : f[n] = Apply(f[n - 1], q[n])
  BY <1>1, TraceMeans
<1> HIDE DEF r
<1>4. g = [n \in 0..(Len(q) - 1) |-> g[n]] /\ \A n \in 0..(Len(q) - 1) : g[n] = f[n + 1]
  OBVIOUS
<1> HIDE DEF g
<1>5. g[0] = Apply(d, Head(q)) /\ g[Len(r)] = m
  <2>1. 0 \in 0..(Len(q) - 1) /\ 1 \in 1..Len(q) /\ Len(q) - 1 \in 0..(Len(q) - 1)
        /\ 0 + 1 = 1 /\ 1 - 1 = 0 /\ (Len(q) - 1) + 1 = Len(q)
    BY <1>1, <1>2
  <2>2. g[0] = f[1] /\ f[1] = Apply(f[0], q[1])
    BY <1>3, <1>4, <2>1
  <2>3. g[Len(q) - 1] = f[Len(q)]
    BY <1>4, <2>1
  <2> QED
    BY <1>1, <1>2, <1>3, <2>2, <2>3
<1>6. ASSUME NEW n \in 1..Len(r) PROVE g[n] = Apply(g[n - 1], r[n])
  <2>1. n \in 0..(Len(q) - 1) /\ n - 1 \in 0..(Len(q) - 1) /\ n + 1 \in 1..Len(q)
        /\ (n - 1) + 1 = n /\ (n + 1) - 1 = n
    BY <1>1, <1>2
  <2>2. g[n] = f[n + 1] /\ g[n - 1] = f[n] /\ r[n] = q[n + 1]
    BY <1>2, <1>4, <2>1
  <2>3. f[n + 1] = Apply(f[n], q[n + 1])
    BY <1>3, <2>1
  <2> QED
    BY <2>2, <2>3
<1>7. Trace(Apply(d, Head(q)), r, g)
  <2>1. Len(r) \in Nat /\ g = [n \in 0..Len(r) |-> g[n]]
    BY <1>1, <1>2, <1>4
  <2> QED
    BY <1>5, <1>6, <2>1, TraceMeans
<1>8. ASSUME NEW n \in 0..Len(r) PROVE Safe(g[n])
  <2>1. n \in 0..(Len(q) - 1) /\ n + 1 \in 0..Len(q)
    BY <1>1, <1>2
  <2> QED
    BY <1>1, <1>4, <2>1
<1>9. Trail(Apply(d, Head(q)), r, g[Len(r)])
  BY <1>2, <1>7, <1>8, TrailFrom
<1> QED
  BY <1>5, <1>9 DEF r

-----------------------------------------------------------------------------
(* What the handlers send *)

LEMMA MailWeight ==
  ASSUME NEW to \in Players, NEW money \in Nat, NEW item \in Items \cup {NoItem},
         item # NoItem => money = 0
  PROVE  /\ IsPost(Mail(to, money, item))
         /\ Weight(Mail(to, money, item), Money) = money
         /\ \A i \in Items : Weight(Mail(to, money, item), Carries(i)) = IF item = i THEN 1 ELSE 0
<1>0. PICK m : m = [to |-> to, money |-> money, item |-> item]
  OBVIOUS
<1>1. m \in Letter /\ m.money = money /\ m.item = item
  BY <1>0 DEF Letter
<1>2. Mail(to, money, item) = SetToBag({m})
  BY <1>0 DEF Mail
<1>3. IsPost(SetToBag({m})) /\ Weight(SetToBag({m}), Money) = Money[m]
  BY <1>1, WeightOne, MoneyType
<1>4. ASSUME NEW i \in Items
      PROVE  Weight(SetToBag({m}), Carries(i)) = IF item = i THEN 1 ELSE 0
  <2>1. Carries(i) \in [Letter -> Nat]
    BY MoneyType
  <2>2. Weight(SetToBag({m}), Carries(i)) = Carries(i)[m]
    BY <1>1, <2>1, WeightOne
  <2> QED
    BY <1>1, <2>2 DEF Carries
<1>5. Money[m] = money
  BY <1>1 DEF Money
<1> QED
  BY <1>2, <1>3, <1>4, <1>5

\* Posts with the money x and, of each item i, y[i] pieces.
Sends(b, x, y) == /\ IsPost(b) /\ Weight(b, Money) = x
                  /\ \A i \in Items : Weight(b, Carries(i)) = y[i]

LEMMA SendsNone == Sends(EmptyBag, 0, [i \in Items |-> 0])
<1>1. IsPost(EmptyBag) /\ Weight(EmptyBag, Money) = 0 /\ \A i \in Items : Weight(EmptyBag, Carries(i)) = 0
  BY WeightNone
<1> QED
  BY <1>1 DEF Sends

LEMMA SendsMail ==
  ASSUME NEW to \in Players, NEW money \in Nat, NEW item \in Items \cup {NoItem},
         item # NoItem => money = 0
  PROVE  Sends(Mail(to, money, item), money, [i \in Items |-> IF item = i THEN 1 ELSE 0])
BY MailWeight DEF Sends

LEMMA SendsBoth ==
  ASSUME NEW b, NEW c, NEW x \in Nat, NEW y \in [Items -> Nat], NEW v \in Nat,
         NEW z \in [Items -> Nat], Sends(b, x, y), Sends(c, v, z)
  PROVE  Sends(b (+) c, x + v, [i \in Items |-> y[i] + z[i]])
<1>1. IsPost(b) /\ IsPost(c)
  BY DEF Sends
<1>2. IsPost(b (+) c) /\ Weight(b (+) c, Money) = Weight(b, Money) + Weight(c, Money)
  BY <1>1, WeightSum, MoneyType
<1>3. ASSUME NEW i \in Items
      PROVE  Weight(b (+) c, Carries(i)) = y[i] + z[i]
  <2>1. Carries(i) \in [Letter -> Nat]
    BY MoneyType
  <2>2. Weight(b (+) c, Carries(i)) = Weight(b, Carries(i)) + Weight(c, Carries(i))
    BY <1>1, <2>1, WeightSum
  <2> QED
    BY <2>2 DEF Sends
<1>4. Weight(b (+) c, Money) = x + v
  BY <1>2 DEF Sends
<1> QED
  BY <1>2, <1>3, <1>4 DEF Sends

\* The cut is at most the bid, and the seller gets at most bid and deposit.
LEMMA CutBound ==
  ASSUME NEW a \in Lot
  PROVE  /\ GetAuctionCut(a) \in 0..a.bid
         /\ Profit(a) \in 0..(a.bid + Deposit)
<1>1. a.bid \in Nat /\ CutPct \in 0..100 /\ Deposit \in Nat /\ Wrap \in Nat \ {0}
  BY AuctionAssumption DEF Lot, AuctionEntry
<1>2. PICK x : x = a.bid * CutPct
  OBVIOUS
<1>3. x \in Nat /\ x <= a.bid * 100
  <2>1. PICK r \in Nat : CutPct + r = 100
    <3>1. 100 - CutPct \in Nat /\ CutPct + (100 - CutPct) = 100
      BY <1>1
    <3> QED
      BY <3>1
  <2>2. CutPct \in Nat
    BY <1>1
  <2>3. a.bid * (CutPct + r) = a.bid * CutPct + a.bid * r /\ a.bid * CutPct \in Nat /\ a.bid * r \in Nat
    BY <1>1, <2>1, <2>2, Distribute
  <2> QED
    BY <1>2, <2>1, <2>3
<1>4. x \div 100 \in 0..a.bid
  BY <1>1, <1>3
<1>5. GetAuctionCut(a) \in 0..a.bid
  BY <1>2, <1>4 DEF GetAuctionCut
<1>6. PICK y : y = a.bid + Deposit - GetAuctionCut(a)
  OBVIOUS
<1>7. y \in 0..(a.bid + Deposit)
  BY <1>1, <1>5, <1>6
<1>8. y % Wrap \in 0..y
  BY <1>1, <1>7
<1>9. y % Wrap \in 0..(a.bid + Deposit)
  BY <1>1, <1>7, <1>8
<1> QED
  BY <1>5, <1>6, <1>9 DEF Profit

\* The item of a lot, as pieces that are sent.
Piece(a) == [i \in Items |-> IF a.item = i THEN 1 ELSE 0]
Nothing == [i \in Items |-> 0]

LEMMA PieceType ==
  ASSUME NEW a
  PROVE  Piece(a) \in [Items -> Nat] /\ Nothing \in [Items -> Nat]
BY DEF Piece, Nothing

\* The refund of a bidder who is outbid.
LEMMA RefundSends ==
  ASSUME NEW a \in Lot, NEW p \in Players
  PROVE  Sends(Refund(p, a), IF a.bidder \in {p, Nobody} THEN 0 ELSE a.bid, Nothing)
<1>1. CASE a.bidder \in {p, Nobody}
  BY <1>1, SendsNone DEF Refund, Nothing
<1>2. CASE a.bidder \notin {p, Nobody}
  <2>1. a.bidder \in Players /\ a.bid \in Nat
    BY <1>2 DEF Lot, AuctionEntry
  <2>2. Sends(Mail(a.bidder, a.bid, NoItem), a.bid, [i \in Items |-> IF NoItem = i THEN 1 ELSE 0])
    BY <2>1, SendsMail
  <2>3. [i \in Items |-> IF NoItem = i THEN 1 ELSE 0] = Nothing
    BY AuctionAssumption DEF Nothing
  <2> QED
    BY <1>2, <2>2, <2>3 DEF Refund, SendAuctionOutbiddedMail
<1> QED
  BY <1>1, <1>2

\* Does the item of a lot whose time is up go into a mail?
Delivered(a, here, loaded) ==
  a.item \in loaded /\ (a.bidder = Nobody \/ a.bidder \in here \/ GmLogTrade)

\* The mails of a settlement: the profit, and the item if it is delivered.
LEMMA SettlementSends ==
  ASSUME NEW a \in Lot, NEW here, NEW loaded
  PROVE  Sends(Settlement(a, here, loaded),
               IF a.bidder = Nobody THEN 0 ELSE Profit(a),
               IF Delivered(a, here, loaded) THEN Piece(a) ELSE Nothing)
<1>1. a.item \in Items /\ a.owner \in Players /\ a.bidder \in Players \cup {Nobody} /\ NoItem \notin Items
  BY AuctionAssumption DEF Lot, AuctionEntry
<1>2. Sends(EmptyBag, 0, Nothing)
  BY SendsNone DEF Nothing
<1>3. ASSUME NEW to \in Players PROVE Sends(Mail(to, 0, a.item), 0, Piece(a))
  <2>1. a.item \in Items \cup {NoItem} /\ 0 \in Nat /\ (a.item # NoItem => 0 = 0)
    BY <1>1
  <2> QED
    BY <2>1, SendsMail DEF Piece
<1>4. CASE a.bidder = Nobody
  <2>1. Settlement(a, here, loaded) = IF a.item \in loaded THEN Mail(a.owner, 0, a.item) ELSE EmptyBag
    BY <1>4 DEF Settlement, SendAuctionExpiredMail
  <2>2. Delivered(a, here, loaded) <=> a.item \in loaded
    BY <1>4 DEF Delivered
  <2>3. Sends(Mail(a.owner, 0, a.item), 0, Piece(a))
    BY <1>1, <1>3
  <2> QED
    BY <1>2, <1>4, <2>1, <2>2, <2>3
<1>5. CASE a.bidder # Nobody
  <2> DEFINE won == SendAuctionWonMail(a, here, loaded)
             y == IF Delivered(a, here, loaded) THEN Piece(a) ELSE Nothing
  <2>1. Settlement(a, here, loaded) = Mail(a.owner, Profit(a), NoItem) (+) won
    BY <1>5 DEF Settlement, SendAuctionSuccessfulMail
  <2>2. a.bidder \in Players
    BY <1>1, <1>5
  <2>3. Delivered(a, here, loaded) <=> a.item \in loaded /\ (a.bidder \in here \/ GmLogTrade)
    BY <1>5 DEF Delivered
  <2>4. Sends(won, 0, y)
    <3>1. Sends(Mail(a.bidder, 0, a.item), 0, Piece(a))
      BY <1>3, <2>2
    <3> QED
      BY <1>2, <2>3, <3>1 DEF SendAuctionWonMail
  <2>5. Profit(a) \in Nat
    BY CutBound, AuctionAssumption DEF Lot, AuctionEntry
  <2>6. Sends(Mail(a.owner, Profit(a), NoItem), Profit(a), Nothing)
    <3>1. Sends(Mail(a.owner, Profit(a), NoItem), Profit(a), [i \in Items |-> IF NoItem = i THEN 1 ELSE 0])
      BY <1>1, <2>5, SendsMail
    <3>2. [i \in Items |-> IF NoItem = i THEN 1 ELSE 0] = Nothing
      BY <1>1 DEF Nothing
    <3> QED
      BY <3>1, <3>2
  <2>7. y \in [Items -> Nat] /\ Nothing \in [Items -> Nat] /\ 0 \in Nat
    BY PieceType
  <2> HIDE DEF y, won
  <2>8. Sends(Mail(a.owner, Profit(a), NoItem) (+) won, Profit(a) + 0, [i \in Items |-> Nothing[i] + y[i]])
    BY <2>4, <2>5, <2>6, <2>7, SendsBoth
  <2>9. [i \in Items |-> Nothing[i] + y[i]] = y
    BY <2>7 DEF Nothing
  <2>10. Profit(a) + 0 = Profit(a)
    BY <2>5
  <2>11. Sends(Settlement(a, here, loaded), Profit(a), y)
    BY <2>1, <2>8, <2>9, <2>10
  <2> QED
    BY <1>5, <2>11 DEF y
<1> QED
  BY <1>4, <1>5

-----------------------------------------------------------------------------
(* The inductive invariant *)

\* The books: unless writes were lost, the money in m and the k that was kept
\* are what the players started with, and every item is in one place.
Books(gone, m, k) ==
  /\ k \in Nat
  /\ ~gone => /\ Wealth(m) + k = Total(StartGold)
              /\ GmLogTrade => \A i \in Items : Places(m, i) = 1

\* The lots of m: their items are loaded and their ids below n.
Shelf(m, loaded, n) == \A id \in Open(m) : m.lot[id].item \in loaded /\ id < n

\* The server is up: the tables lead to what is in memory.
UpInv == /\ Trail(db, queue, mem)
         /\ Books(lost, mem, kept)
         /\ Shelf(mem, aitems, next)

\* The server starts: nothing is queued and no lot is due or loaded.
BootInv == /\ queue = <<>> /\ due = {}
           /\ Safe(db)
           /\ Books(lost, db, kept)
           /\ mem = [db EXCEPT !.lot = [id \in Ids |-> NoLot]]
           /\ \A id \in Open(db) : id < next
           /\ phase = "auctions" => aitems = {db.lot[id].item : id \in Open(db)}

HouseInv == /\ next \in Nat \ {0}
            /\ phase \in {"up", "expire", "items", "auctions"}
            /\ IF Running THEN UpInv ELSE BootInv

-----------------------------------------------------------------------------
(* What the writes of a handler do to the stores *)

LEMMA WrittenRow ==
  ASSUME NEW S, NEW V, NEW f \in [S -> V], NEW x \in S, NEW v
  PROVE  Written(Row(x, v), f) = [f EXCEPT ![x] = v]
<1>1. DOMAIN Row(x, v) = {x} /\ Row(x, v)[x] = v
  BY DEF Row
<1> QED
  BY <1>1 DEF Written

LEMMA WrittenNone ==
  ASSUME NEW S, NEW V, NEW f \in [S -> V]
  PROVE  Written(<<>>, f) = f
<1>1. DOMAIN <<>> = {}
  OBVIOUS
<1>2. Written(<<>>, f) = [x \in S |-> f[x]]
  BY <1>1 DEF Written
<1> QED
  BY <1>2

LEMMA PostNone ==
  ASSUME NEW b, IsPost(b)
  PROVE  b (+) EmptyBag = b /\ b (-) EmptyBag = b
<1>1. DOMAIN EmptyBag = {}
  BY DEF EmptyBag, SetToBag
<1>2. \A m \in DOMAIN b : b[m] \in Nat /\ b[m] > 0 /\ b[m] + 0 = b[m]
  BY DEF IsPost
<1>3. b = [m \in DOMAIN b |-> b[m]]
  BY DEF IsPost
<1>4. b (+) EmptyBag = [m \in DOMAIN b |-> b[m]]
  <2>1. b (+) EmptyBag = [m \in DOMAIN b |-> b[m] + 0]
    BY <1>1 DEF (+)
  <2> QED
    BY <1>2, <2>1
<1>5. b (-) EmptyBag = [m \in DOMAIN b |-> b[m]]
  <2> DEFINE B == [m \in DOMAIN b |-> b[m]]
  <2>1. b (-) EmptyBag = [m \in {e \in DOMAIN B : B[e] > 0} |-> B[m]]
    BY <1>1 DEF (-)
  <2>2. {e \in DOMAIN B : B[e] > 0} = DOMAIN b
    BY <1>2
  <2> QED
    BY <2>1, <2>2
<1> QED
  BY <1>3, <1>4, <1>5

\* The post with what a handler sends.
LEMMA PostAdd ==
  ASSUME NEW b, IsPost(b), NEW c, NEW x, NEW y, Sends(c, x, y)
  PROVE  /\ IsPost(b (+) c)
         /\ MailMoney(b (+) c) = MailMoney(b) + x
         /\ \A i \in Items : InMails(b (+) c, i) = InMails(b, i) + y[i]
<1>1. IsPost(c)
  BY DEF Sends
<1>2. IsPost(b (+) c) /\ Weight(b (+) c, Money) = Weight(b, Money) + Weight(c, Money)
  BY <1>1, WeightSum, MoneyType
<1>3. ASSUME NEW i \in Items
      PROVE  InMails(b (+) c, i) = InMails(b, i) + y[i]
  <2>1. Carries(i) \in [Letter -> Nat]
    BY MoneyType
  <2>2. Weight(b (+) c, Carries(i)) = Weight(b, Carries(i)) + Weight(c, Carries(i))
    BY <1>1, <2>1, WeightSum
  <2>3. InMails(b (+) c, i) = Weight(b (+) c, Carries(i)) /\ InMails(b, i) = Weight(b, Carries(i))
    BY <1>2, PostWeight
  <2> QED
    BY <2>2, <2>3 DEF Sends
<1>4. MailMoney(b (+) c) = MailMoney(b) + x
  BY <1>2, PostWeight DEF Sends
<1> QED
  BY <1>2, <1>3, <1>4

\* The post without a mail that is taken.
LEMMA PostTake ==
  ASSUME NEW b, IsPost(b), NEW m \in DOMAIN b
  PROVE  /\ IsPost(b (-) SetToBag({m}))
         /\ MailMoney(b (-) SetToBag({m})) + m.money = MailMoney(b)
         /\ \A i \in Items : InMails(b (-) SetToBag({m}), i)
                                + (IF m.item = i THEN 1 ELSE 0) = InMails(b, i)
<1>0. m \in Letter
  BY DEF IsPost
<1>1. /\ IsPost(b (-) SetToBag({m}))
      /\ Weight(b (-) SetToBag({m}), Money) + Money[m] = Weight(b, Money)
  BY WeightTake, MoneyType
<1>2. ASSUME NEW i \in Items
      PROVE  InMails(b (-) SetToBag({m}), i) + (IF m.item = i THEN 1 ELSE 0) = InMails(b, i)
  <2>1. Carries(i) \in [Letter -> Nat]
    BY MoneyType
  <2>2. Weight(b (-) SetToBag({m}), Carries(i)) + Carries(i)[m] = Weight(b, Carries(i))
    BY <2>1, WeightTake
  <2>3. InMails(b (-) SetToBag({m}), i) = Weight(b (-) SetToBag({m}), Carries(i))
        /\ InMails(b, i) = Weight(b, Carries(i))
    BY <1>1, PostWeight
  <2>4. Carries(i)[m] = IF m.item = i THEN 1 ELSE 0
    BY <1>0 DEF Carries
  <2> QED
    BY <2>2, <2>3, <2>4
<1>3. Money[m] = m.money
  BY <1>0 DEF Money
<1>4. MailMoney(b (-) SetToBag({m})) + m.money = MailMoney(b)
  BY <1>1, <1>3, PostWeight
<1> QED
  BY <1>1, <1>2, <1>4

\* A step from t with k kept to u with l kept that is fair: what the players
\* lose is kept, and no item is doubled (nor lost, when trades are logged).
Fair(t, k, u, l) ==
  /\ IsStore(u) /\ l \in Nat /\ l >= k
  /\ Wealth(u) + l = Wealth(t) + k
  /\ \A i \in Items : /\ Places(u, i) <= Places(t, i)
                      /\ GmLogTrade => Places(u, i) = Places(t, i)

\* Two sums of an item's places, before and after, that a fair step may have.
Spares(before, after) == after <= before /\ (GmLogTrade => after = before)

LEMMA FairChange ==
  ASSUME NEW t, IsStore(t), NEW u, IsStore(u), NEW p \in Players, NEW id \in Ids,
         Differ(t, u, p, id), NEW k \in Nat, NEW l \in Nat, l >= k,
         u.gold[p] + MailMoney(u.mail) + Stake(u.lot[id]) + l
           = t.gold[p] + MailMoney(t.mail) + Stake(t.lot[id]) + k,
         \A i \in Items : Spares(InBag(t.bag[i]) + InMails(t.mail, i) + InLot(t.lot[id], i),
                                 InBag(u.bag[i]) + InMails(u.mail, i) + InLot(u.lot[id], i))
  PROVE  Fair(t, k, u, l)
<1>1. /\ Wealth(u) \in Nat /\ Wealth(t) \in Nat
      /\ Wealth(u) + t.gold[p] + MailMoney(t.mail) + Stake(t.lot[id])
              = Wealth(t) + u.gold[p] + MailMoney(u.mail) + Stake(u.lot[id])
  BY WealthChange
<1>2. /\ t.gold[p] \in Nat /\ u.gold[p] \in Nat
      /\ MailMoney(t.mail) \in Nat /\ MailMoney(u.mail) \in Nat
  BY StoreParts DEF IsStore
<1>3. Stake(t.lot[id]) \in Nat /\ Stake(u.lot[id]) \in Nat
  <2>1. [n \in Ids |-> Stake(t.lot[n])] \in [Ids -> Nat] /\ [n \in Ids |-> Stake(u.lot[n])] \in [Ids -> Nat]
    BY StoreParts
  <2> QED
    BY <2>1
<1>4. Wealth(u) + l = Wealth(t) + k
  BY <1>1, <1>2, <1>3
<1>5. ASSUME NEW i \in Items
      PROVE  Spares(Places(t, i), Places(u, i))
  <2>1. /\ Places(u, i) \in Nat /\ Places(t, i) \in Nat
        /\ InBag(t.bag[i]) \in 0..1 /\ InBag(u.bag[i]) \in 0..1
        /\ InMails(t.mail, i) \in Nat /\ InMails(u.mail, i) \in Nat
        /\ InLot(t.lot[id], i) \in 0..1 /\ InLot(u.lot[id], i) \in 0..1
        /\ Places(u, i) + InBag(t.bag[i]) + InMails(t.mail, i) + InLot(t.lot[id], i)
              = Places(t, i) + InBag(u.bag[i]) + InMails(u.mail, i) + InLot(u.lot[id], i)
    BY PlacesChange
  <2>2. Spares(InBag(t.bag[i]) + InMails(t.mail, i) + InLot(t.lot[id], i),
               InBag(u.bag[i]) + InMails(u.mail, i) + InLot(u.lot[id], i))
    OBVIOUS
  <2> QED
    BY <2>1, <2>2 DEF Spares
<1> QED
  BY <1>4, <1>5 DEF Fair, Spares

LEMMA FairKeeps ==
  ASSUME NEW t, Safe(t), NEW k \in Nat, NEW u, NEW l, Fair(t, k, u, l), NEW gone
  PROVE  Safe(u) /\ (Books(gone, t, k) => Books(gone, u, l))
<1>1. Wealth(t) \in Nat /\ Wealth(u) \in Nat
      /\ \A i \in Items : Places(t, i) \in Nat /\ Places(u, i) \in Nat
  BY WealthNat DEF Safe, Fair
<1>2. Total(StartGold) \in Nat
  BY ParametersFinite, AuctionAssumption, TotalNat DEF IsCount
<1>3. Wealth(u) <= Wealth(t)
  BY <1>1 DEF Fair
<1>4. Safe(u)
  BY <1>1, <1>2, <1>3 DEF Safe, Fair
<1>5. ASSUME Books(gone, t, k) PROVE Books(gone, u, l)
  BY <1>1, <1>5 DEF Books, Fair
<1> QED
  BY <1>4, <1>5

\* A handler that queues one transaction.
LEMMA OneWrite ==
  ASSUME NEW d, NEW q, NEW m, Trail(d, q, m), NEW gone, NEW k, Books(gone, m, k),
         NEW x, NEW l, Fair(m, k, Apply(m, x), l)
  PROVE  Trail(d, q \o <<x>>, Apply(m, x)) /\ Books(gone, Apply(m, x), l)
<1>1. Safe(m) /\ k \in Nat
  BY TrailEnds DEF Books
<1>2. Safe(Apply(m, x)) /\ Books(gone, Apply(m, x), l)
  BY <1>1, FairKeeps
<1> QED
  BY <1>2, TrailAdd

-----------------------------------------------------------------------------
(* Closing a lot *)

\* The store without the lot id, and what it is once the mails are sent and p
\* has the gold left.
Without(t, id) == [gold |-> t.gold, bag |-> t.bag, mail |-> t.mail,
                   lot |-> [t.lot EXCEPT ![id] = NoLot]]
Closed(t, p, left, id, sent) ==
  [gold |-> [t.gold EXCEPT ![p] = left], bag |-> t.bag, mail |-> t.mail (+) sent,
   lot |-> [t.lot EXCEPT ![id] = NoLot]]

LEMMA ClosedStore ==
  ASSUME NEW t, IsStore(t), NEW p \in Players, NEW left \in Nat, NEW id \in Ids, NEW sent,
         IsPost(t.mail (+) sent)
  PROVE  IsStore(Closed(t, p, left, id, sent)) /\ IsStore(Without(t, id))
<1>1. t.lot \in [Ids -> Lot \cup {NoLot}] /\ t.gold \in [Players -> Nat]
  BY DEF IsStore
<1>2. [t.lot EXCEPT ![id] = NoLot] \in [Ids -> Lot \cup {NoLot}]
  BY <1>1
<1>3. [t.gold EXCEPT ![p] = left] \in [Players -> Nat]
  BY <1>1
<1>4. IsStore(Without(t, id))
  BY <1>2 DEF IsStore, Without
<1>5. IsStore(Closed(t, p, left, id, sent))
  BY <1>2, <1>3 DEF IsStore, Closed
<1> QED
  BY <1>4, <1>5

\* The row of the lot is deleted by an operation of its own: until the next
\* one is done there is less money and there are fewer items, never more.
LEMMA DeleteRow ==
  ASSUME NEW t, Safe(t), NEW id \in Ids
  PROVE  /\ Apply(t, [NoWrites EXCEPT !.lot = Row(id, NoLot)]) = Without(t, id)
         /\ Safe(Without(t, id))
<1>0. IsStore(t)
  BY DEF Safe
<1>1. PICK p : p \in Players
  BY AuctionAssumption
<1>2. Apply(t, [NoWrites EXCEPT !.lot = Row(id, NoLot)]) = Without(t, id)
  <2>1. Written(<<>>, t.gold) = t.gold /\ Written(<<>>, t.bag) = t.bag
    BY <1>0, WrittenNone DEF IsStore
  <2>2. Written(Row(id, NoLot), t.lot) = [t.lot EXCEPT ![id] = NoLot]
    <3>1. PICK f : f = t.lot
      OBVIOUS
    <3>2. f \in [Ids -> Lot \cup {NoLot}]
      BY <1>0, <3>1 DEF IsStore
    <3>3. Written(Row(id, NoLot), f) = [f EXCEPT ![id] = NoLot]
      BY <3>2 DEF Written, Row
    <3> QED
      BY <3>1, <3>3
  <2>3. IsPost(t.mail)
    BY <1>0 DEF IsStore
  <2>4. (t.mail (-) EmptyBag) (+) EmptyBag = t.mail
    BY <2>3, PostNone
  <2> QED
    BY <2>1, <2>2, <2>4 DEF Apply, NoWrites, Without
<1>3. PICK u : u = Without(t, id)
  OBVIOUS
<1>4. IsStore(u)
  <2>1. t.lot \in [Ids -> Lot \cup {NoLot}]
    BY <1>0 DEF IsStore
  <2>2. [t.lot EXCEPT ![id] = NoLot] \in [Ids -> Lot \cup {NoLot}]
    BY <2>1
  <2> QED
    BY <1>0, <1>3, <2>2 DEF IsStore, Without
<1>5. u.gold = t.gold /\ u.bag = t.bag /\ u.mail = t.mail /\ u.lot = [t.lot EXCEPT ![id] = NoLot]
  BY <1>3 DEF Without
<1>6. Differ(t, u, p, id) /\ u.lot[id] = NoLot
  BY <1>0, <1>5 DEF Differ, IsStore
<1>7. Stake(u.lot[id]) = 0 /\ \A i \in Items : InLot(u.lot[id], i) = 0
  BY <1>6 DEF Stake, InLot
<1>8. Stake(t.lot[id]) \in Nat
  <2>1. [n \in Ids |-> Stake(t.lot[n])] \in [Ids -> Nat]
    BY <1>0, StoreParts
  <2> QED
    BY <2>1
<1>9. Wealth(u) <= Total(StartGold)
  <2>1. /\ Wealth(u) \in Nat /\ Wealth(t) \in Nat
        /\ Wealth(u) + t.gold[p] + MailMoney(t.mail) + Stake(t.lot[id])
              = Wealth(t) + u.gold[p] + MailMoney(u.mail) + Stake(u.lot[id])
    BY <1>0, <1>1, <1>4, <1>6, WealthChange
  <2>2. t.gold[p] \in Nat /\ MailMoney(t.mail) \in Nat
    BY <1>0, <1>1, StoreParts DEF IsStore
  <2>3. Wealth(u) <= Wealth(t)
    BY <1>5, <1>7, <1>8, <2>1, <2>2
  <2>4. Wealth(t) <= Total(StartGold) /\ Total(StartGold) \in Nat
    BY ParametersFinite, AuctionAssumption, TotalNat DEF IsCount, Safe
  <2> QED
    BY <2>1, <2>3, <2>4
<1>10. ASSUME NEW i \in Items PROVE Places(u, i) <= 1
  <2>1. /\ Places(u, i) \in Nat /\ Places(t, i) \in Nat
        /\ InBag(t.bag[i]) \in 0..1 /\ InMails(t.mail, i) \in Nat /\ InLot(t.lot[id], i) \in 0..1
        /\ Places(u, i) + InBag(t.bag[i]) + InMails(t.mail, i) + InLot(t.lot[id], i)
              = Places(t, i) + InBag(u.bag[i]) + InMails(u.mail, i) + InLot(u.lot[id], i)
    BY <1>0, <1>4, <1>6, PlacesChange
  <2>2. Places(t, i) <= 1
    BY DEF Safe
  <2> QED
    BY <1>5, <1>7, <2>1, <2>2
<1> QED
  BY <1>2, <1>3, <1>4, <1>9, <1>10 DEF Safe

LEMMA PairConcat ==
  ASSUME NEW S, NEW x \in S, NEW y \in S
  PROVE  <<y>> \o <<x>> = <<y, x>>
<1>1. /\ <<y>> \in Seq(S) /\ <<x>> \in Seq(S) /\ <<y, x>> \in Seq(S)
      /\ Len(<<y>>) = 1 /\ Len(<<x>>) = 1 /\ Len(<<y, x>>) = 2
  OBVIOUS
<1>2. PICK r : r = <<y>> \o <<x>>
  OBVIOUS
<1>3. r \in Seq(S) /\ Len(r) = 2 /\ r[1] = y /\ r[2] = x
  <2>1. Len(<<y>> \o <<x>>) = 2 /\ <<y>> \o <<x>> \in Seq(S)
    BY <1>1
  <2>2. (<<y>> \o <<x>>)[1] = y /\ (<<y>> \o <<x>>)[2] = x
    BY <1>1
  <2> QED
    BY <1>2, <2>1, <2>2
<1>4. PICK z : z = <<y, x>>
  OBVIOUS
<1>5. z \in Seq(S) /\ Len(z) = 2 /\ z[1] = y /\ z[2] = x
  BY <1>1, <1>4
<1>6. \A i \in 1..2 : r[i] = z[i]
  BY <1>3, <1>5
<1>7. r = z
  BY <1>3, <1>5, <1>6, SeqEqual
<1> QED
  BY <1>2, <1>4, <1>7

\* Deleting the row and then the transaction of the handler.
LEMMA CloseWrite ==
  ASSUME NEW d, NEW q, NEW m, Trail(d, q, m), NEW gone, NEW k, Books(gone, m, k),
         NEW id \in Ids, NEW x, NEW l, Fair(m, k, Apply(Without(m, id), x), l)
  PROVE  /\ Trail(d, q \o DeleteFromDB(id, x), Apply(Without(m, id), x))
         /\ Books(gone, Apply(Without(m, id), x), l)
<1> DEFINE y == [NoWrites EXCEPT !.lot = Row(id, NoLot)]
           u == Apply(Without(m, id), x)
<1>1. Safe(m) /\ k \in Nat
  BY TrailEnds DEF Books
<1>2. Apply(m, y) = Without(m, id) /\ Safe(Without(m, id))
  BY <1>1, DeleteRow
<1>3. Safe(u) /\ Books(gone, u, l)
  BY <1>1, FairKeeps
<1>4. Trail(d, q \o <<y>>, Apply(m, y))
  <2> HIDE DEF y
  <2> QED
    BY <1>2, TrailAdd
<1>5. Trail(d, (q \o <<y>>) \o <<x>>, u)
  <2> HIDE DEF y
  <2>1. Trail(d, q \o <<y>>, Without(m, id))
    BY <1>2, <1>4
  <2> QED
    BY <1>3, <2>1, TrailAdd
<1>6. (q \o <<y>>) \o <<x>> = q \o <<y, x>>
  <2> DEFINE S == Range(q) \cup {x, y}
  <2>1. q \in Seq(Range(q)) /\ Range(q) \subseteq S /\ x \in S /\ y \in S
    BY DEF Trail
  <2> HIDE DEF S, y
  <2>2. q \in Seq(S)
    BY <2>1, SeqMonotonic
  <2>3. <<y>> \in Seq(S) /\ <<x>> \in Seq(S)
    BY <2>1
  <2>4. <<y>> \o <<x>> = <<y, x>>
    BY <2>1, PairConcat
  <2> QED
    BY <2>2, <2>3, <2>4, ConcatAssociative
<1>7. DeleteFromDB(id, x) = <<y, x>>
  BY DEF DeleteFromDB
<1> QED
  BY <1>3, <1>5, <1>6, <1>7

\* The two transactions that follow the deletion of a row.
PayAndSend(p, left, sent) == [NoWrites EXCEPT !.gold = Row(p, left), !.sent = sent]
Send(sent) == [NoWrites EXCEPT !.sent = sent]

LEMMA ApplyClose ==
  ASSUME NEW t, IsStore(t), NEW p \in Players, NEW id \in Ids, NEW left, NEW sent
  PROVE  /\ Apply(Without(t, id), PayAndSend(p, left, sent)) = Closed(t, p, left, id, sent)
         /\ Apply(Without(t, id), Send(sent)) = Closed(t, p, t.gold[p], id, sent)
<1>0. PICK u : u = Without(t, id)
  OBVIOUS
<1>1. u.gold = t.gold /\ u.bag = t.bag /\ u.mail = t.mail /\ u.lot = [t.lot EXCEPT ![id] = NoLot]
  BY <1>0 DEF Without
<1>2. Written(<<>>, t.gold) = t.gold /\ Written(<<>>, t.bag) = t.bag
  BY WrittenNone DEF IsStore
<1>3. Written(Row(p, left), t.gold) = [t.gold EXCEPT ![p] = left]
  BY WrittenRow DEF IsStore
<1>4. Written(<<>>, u.lot) = u.lot
  <2>1. u.lot \in [Ids -> Lot \cup {NoLot}]
    BY <1>1 DEF IsStore
  <2> QED
    BY <2>1, WrittenNone
<1>5. IsPost(t.mail)
  BY DEF IsStore
<1>6. t.mail (-) EmptyBag = t.mail
  BY <1>5, PostNone
<1>7. [t.gold EXCEPT ![p] = t.gold[p]] = t.gold
  BY DEF IsStore
<1>8. Apply(u, PayAndSend(p, left, sent)) = Closed(t, p, left, id, sent)
  BY <1>1, <1>2, <1>3, <1>4, <1>6 DEF Apply, NoWrites, Closed, PayAndSend
<1>9. Apply(u, Send(sent)) = Closed(t, p, t.gold[p], id, sent)
  BY <1>1, <1>2, <1>4, <1>6, <1>7 DEF Apply, NoWrites, Closed, Send
<1> QED
  BY <1>0, <1>8, <1>9

\* Closing a lot is fair if what was in it is paid out or kept.
LEMMA CloseFair ==
  ASSUME NEW t, IsStore(t), NEW p \in Players, NEW left \in Nat, NEW id \in Open(t),
         NEW sent, NEW x \in Nat, NEW y \in [Items -> Nat], Sends(sent, x, y),
         NEW k \in Nat, NEW l \in Nat, l >= k,
         left + x + l = t.gold[p] + t.lot[id].bid + Deposit + k,
         \A i \in Items : Spares(Piece(t.lot[id])[i], y[i])
  PROVE  Fair(t, k, Closed(t, p, left, id, sent), l)
<1>0. PICK u : u = Closed(t, p, left, id, sent)
  OBVIOUS
<1>1. id \in Ids /\ t.lot[id] # NoLot
  BY DEF Open, IsStore
<1>2. t.lot[id] \in Lot
  BY <1>1, StoreParts
<1>3. IsPost(t.mail)
  BY DEF IsStore
<1>4. /\ IsPost(t.mail (+) sent) /\ MailMoney(t.mail (+) sent) = MailMoney(t.mail) + x
      /\ \A i \in Items : InMails(t.mail (+) sent, i) = InMails(t.mail, i) + y[i]
  BY <1>3, PostAdd
<1>5. IsStore(u)
  BY <1>0, <1>1, <1>4, ClosedStore
<1>6. /\ u.gold = [t.gold EXCEPT ![p] = left] /\ u.bag = t.bag /\ u.mail = t.mail (+) sent
      /\ u.lot = [t.lot EXCEPT ![id] = NoLot]
  BY <1>0 DEF Closed
<1>7. Differ(t, u, p, id) /\ u.gold[p] = left /\ u.lot[id] = NoLot
  BY <1>1, <1>6 DEF Differ, IsStore
<1>8. Stake(u.lot[id]) = 0 /\ Stake(t.lot[id]) = t.lot[id].bid + Deposit
  BY <1>1, <1>7 DEF Stake
<1>9. t.lot[id].bid \in Nat /\ Deposit \in Nat /\ t.gold[p] \in Nat /\ MailMoney(t.mail) \in Nat
  BY <1>2, AuctionAssumption, StoreParts DEF Lot, AuctionEntry, IsStore
<1>10. u.gold[p] + MailMoney(u.mail) + Stake(u.lot[id]) + l
           = t.gold[p] + MailMoney(t.mail) + Stake(t.lot[id]) + k
  BY <1>4, <1>6, <1>7, <1>8, <1>9
<1>11. ASSUME NEW i \in Items
       PROVE  Spares(InBag(t.bag[i]) + InMails(t.mail, i) + InLot(t.lot[id], i),
                     InBag(u.bag[i]) + InMails(u.mail, i) + InLot(u.lot[id], i))
  <2>1. InLot(u.lot[id], i) = 0 /\ InLot(t.lot[id], i) = Piece(t.lot[id])[i]
    BY <1>1, <1>7 DEF InLot, Piece
  <2>2. InMails(u.mail, i) = InMails(t.mail, i) + y[i] /\ u.bag = t.bag
    BY <1>4, <1>6
  <2>3. InBag(t.bag[i]) \in 0..1 /\ InMails(t.mail, i) \in Nat /\ y[i] \in Nat
    BY StoreParts
  <2>4. Piece(t.lot[id])[i] \in Nat /\ Spares(Piece(t.lot[id])[i], y[i])
    BY DEF Piece
  <2> QED
    BY <2>1, <2>2, <2>3, <2>4 DEF Spares
<1>12. Fair(t, k, u, l)
  BY <1>1, <1>5, <1>7, <1>10, <1>11, FairChange
<1> QED
  BY <1>0, <1>12

\* The items of the other lots stay loaded.
LEMMA ShelfClose ==
  ASSUME NEW t, Safe(t), NEW id \in Open(t), NEW loaded, NEW n, Shelf(t, loaded, n),
         NEW u, u.lot = Without(t, id).lot,
         NEW left, loaded \ {t.lot[id].item} \subseteq left
  PROVE  Shelf(u, left, n) /\ Open(u) = Open(t) \ {id}
<1>1. IsStore(t) /\ id \in Ids /\ t.lot[id] # NoLot /\ t.lot \in [Ids -> Lot \cup {NoLot}]
  BY DEF Safe, IsStore, Open
<1>0. u.lot = [t.lot EXCEPT ![id] = NoLot]
  BY DEF Without
<1>2. Open(u) = Open(t) \ {id}
  BY <1>0, <1>1 DEF Open
<1>3. ASSUME NEW e \in Open(u) PROVE u.lot[e].item \in left /\ e < n
  <2>1. e \in Open(t) /\ e # id /\ e \in Ids /\ t.lot[e] # NoLot /\ u.lot[e] = t.lot[e]
    BY <1>0, <1>1, <1>2 DEF Open
  <2>2. t.lot[e].item \in loaded /\ e < n
    BY <2>1 DEF Shelf
  <2>3. t.lot[e].item # t.lot[id].item
    <3>1. PICK i : i = t.lot[id].item
      OBVIOUS
    <3>2. i \in Items
      BY <1>1, <3>1, StoreParts DEF Lot, AuctionEntry
    <3>3. Places(t, i) <= 1
      BY <3>2 DEF Safe
    <3>4. \A e1 \in Ids, n1 \in Ids :
               t.lot[e1] # NoLot /\ t.lot[n1] # NoLot
                 /\ t.lot[e1].item = i /\ t.lot[n1].item = i => e1 = n1
      BY <1>1, <3>2, <3>3, OnePlace
    <3> QED
      BY <1>1, <2>1, <3>1, <3>4
  <2> QED
    BY <2>1, <2>2, <2>3
<1> QED
  BY <1>2, <1>3 DEF Shelf

-----------------------------------------------------------------------------
(* The handlers *)

\* A handler that leaves memory, queue, loaded items, next id and kept money
\* as the invariant wants them.
LEMMA UpStep ==
  ASSUME HouseInv, Running, phase' = phase, lost' = lost, next' \in Nat \ {0},
         Trail(db', queue', mem'), Books(lost, mem', kept'), Shelf(mem', aitems', next')
  PROVE  HouseInv'
BY DEF HouseInv, UpInv, Running

LEMMA UpFacts ==
  ASSUME HouseInv, Running
  PROVE  /\ Trail(db, queue, mem) /\ Books(lost, mem, kept) /\ Shelf(mem, aitems, next)
         /\ Safe(mem) /\ IsStore(mem) /\ kept \in Nat /\ next \in Nat \ {0}
<1>1. Trail(db, queue, mem) /\ Books(lost, mem, kept) /\ Shelf(mem, aitems, next) /\ next \in Nat \ {0}
  BY DEF HouseInv, UpInv
<1>2. Safe(mem)
  BY <1>1, TrailEnds
<1> QED
  BY <1>1, <1>2 DEF Safe, Books

LEMMA SellKeeps ==
  ASSUME HouseInv, NEW p \in Players, NEW i \in Items, NEW bid \in StartBids,
         NEW buyout \in Buyouts, HandleAuctionSellItem(p, i, bid, buyout)
  PROVE  HouseInv'
<1>0. Running
  BY DEF HandleAuctionSellItem
<1>1. /\ Trail(db, queue, mem) /\ Books(lost, mem, kept) /\ Shelf(mem, aitems, next)
      /\ Safe(mem) /\ IsStore(mem) /\ kept \in Nat /\ next \in Nat \ {0}
  BY <1>0, UpFacts
<1>2. PICK a : a = [item |-> i, owner |-> p, startbid |-> bid % Wrap,
                    buyout |-> buyout % Wrap, bid |-> 0, bidder |-> Nobody]
  OBVIOUS
<1>3. PICK left : left = mem.gold[p] - Deposit
  OBVIOUS
<1>4. PICK x : x = [NoWrites EXCEPT !.gold = Row(p, left), !.bag = Row(i, Nobody), !.lot = Row(next, a)]
  OBVIOUS
<1>5. /\ mem.bag[i] = p /\ mem.gold[p] >= Deposit /\ next \in Ids /\ next' = next + 1
      /\ mem' = [mem EXCEPT !.gold[p] = left, !.bag[i] = Nobody, !.lot[next] = a]
      /\ aitems' = aitems \cup {i} /\ queue' = queue \o <<x>>
      /\ db' = db /\ kept' = kept /\ phase' = phase /\ lost' = lost
  BY <1>2, <1>3, <1>4 DEF HandleAuctionSellItem, Enqueue
<1>6. mem.gold \in [Players -> Nat] /\ mem.bag \in [Items -> Players \cup {Nobody}]
      /\ mem.lot \in [Ids -> Lot \cup {NoLot}] /\ IsPost(mem.mail)
  BY <1>1 DEF IsStore
<1>7. left \in Nat /\ Deposit \in Nat /\ mem.gold[p] = left + Deposit
  BY <1>3, <1>5, <1>6, AuctionAssumption
<1>8. a \in Lot /\ a # NoLot /\ a.bid = 0 /\ a.item = i
  <2>1. bid \in Nat /\ buyout \in Nat /\ Wrap \in Nat \ {0}
    BY AuctionAssumption
  <2>2. bid % Wrap \in Nat /\ buyout % Wrap \in Nat
    BY <2>1
  <2>3. a \in Lot
    BY <1>2, <2>2 DEF Lot, AuctionEntry
  <2> QED
    BY <1>2, <2>3, NoLotIsNone
<1>9. mem.lot[next] = NoLot
  BY <1>1, <1>5, <1>6 DEF Shelf, Open
<1>10. PICK u : u = mem'
  OBVIOUS
<1>11. /\ u.gold = [mem.gold EXCEPT ![p] = left] /\ u.bag = [mem.bag EXCEPT ![i] = Nobody]
       /\ u.mail = mem.mail /\ u.lot = [mem.lot EXCEPT ![next] = a]
  <2>0. u = [mem EXCEPT !.gold[p] = left, !.bag[i] = Nobody, !.lot[next] = a]
    BY <1>5, <1>10
  <2>1. mem = [gold |-> mem.gold, bag |-> mem.bag, mail |-> mem.mail, lot |-> mem.lot]
    BY <1>1 DEF IsStore
  <2>2. u.gold = [mem.gold EXCEPT ![p] = left]
    BY <2>0, <2>1
  <2>3. u.bag = [mem.bag EXCEPT ![i] = Nobody]
    BY <2>0, <2>1
  <2>4. u.mail = mem.mail
    BY <2>0, <2>1
  <2>5. u.lot = [mem.lot EXCEPT ![next] = a]
    BY <2>0, <2>1
  <2> QED
    BY <2>2, <2>3, <2>4, <2>5
<1>12. u = [gold |-> u.gold, bag |-> u.bag, mail |-> u.mail, lot |-> u.lot]
  <2>0. u = [mem EXCEPT !.gold[p] = left, !.bag[i] = Nobody, !.lot[next] = a]
    BY <1>5, <1>10
  <2>1. mem = [gold |-> mem.gold, bag |-> mem.bag, mail |-> mem.mail, lot |-> mem.lot]
    BY <1>1 DEF IsStore
  <2> QED
    BY <2>0, <2>1
<1>13. Apply(mem, x) = u
  <2>1. Written(Row(p, left), mem.gold) = u.gold
    BY <1>6, <1>11 DEF Written, Row
  <2>2. Written(Row(i, Nobody), mem.bag) = u.bag
    BY <1>6, <1>11 DEF Written, Row
  <2>3. Written(Row(next, a), mem.lot) = u.lot
    BY <1>5, <1>6, <1>11 DEF Written, Row
  <2>4. (mem.mail (-) EmptyBag) (+) EmptyBag = u.mail
    BY <1>6, <1>11, PostNone
  <2> QED
    BY <1>4, <1>12, <2>1, <2>2, <2>3, <2>4 DEF Apply, NoWrites
<1>14. IsStore(u)
  <2>1. u.gold \in [Players -> Nat]
    BY <1>6, <1>7, <1>11
  <2>2. u.bag \in [Items -> Players \cup {Nobody}]
    BY <1>6, <1>11
  <2>3. u.lot \in [Ids -> Lot \cup {NoLot}]
    BY <1>6, <1>8, <1>11
  <2> QED
    BY <1>6, <1>11, <1>12, <2>1, <2>2, <2>3 DEF IsStore
<1>15. Fair(mem, kept, u, kept)
  <2>1. Differ(mem, u, p, next) /\ u.gold[p] = left /\ u.lot[next] = a /\ u.bag[i] = Nobody
        /\ \A j \in Items : j # i => u.bag[j] = mem.bag[j]
    BY <1>5, <1>6, <1>11 DEF Differ
  <2>2. Stake(u.lot[next]) = Deposit /\ Stake(mem.lot[next]) = 0
    BY <1>7, <1>8, <1>9, <2>1 DEF Stake
  <2>3. MailMoney(mem.mail) \in Nat
    BY <1>1, StoreParts
  <2>4. u.gold[p] + MailMoney(u.mail) + Stake(u.lot[next]) + kept
           = mem.gold[p] + MailMoney(mem.mail) + Stake(mem.lot[next]) + kept
    BY <1>1, <1>7, <1>11, <2>1, <2>2, <2>3
  <2>5. ASSUME NEW j \in Items
        PROVE  Spares(InBag(mem.bag[j]) + InMails(mem.mail, j) + InLot(mem.lot[next], j),
                      InBag(u.bag[j]) + InMails(u.mail, j) + InLot(u.lot[next], j))
    <3>1. InMails(mem.mail, j) \in Nat /\ u.mail = mem.mail /\ InBag(mem.bag[j]) \in 0..1
      BY <1>1, <1>11, StoreParts
    <3>2. InLot(mem.lot[next], j) = 0
      BY <1>9 DEF InLot
    <3>3. InLot(u.lot[next], j) = IF i = j THEN 1 ELSE 0
      BY <1>8, <2>1 DEF InLot
    <3>4. CASE j = i
      <4>1. InBag(mem.bag[j]) = 1 /\ InBag(u.bag[j]) = 0
        BY <1>5, <2>1, <3>4, AuctionAssumption DEF InBag
      <4> QED
        BY <3>1, <3>2, <3>3, <3>4, <4>1 DEF Spares
    <3>5. CASE j # i
      BY <2>1, <3>1, <3>2, <3>3, <3>5 DEF Spares
    <3> QED
      BY <3>4, <3>5
  <2>6. kept >= kept
    BY <1>1
  <2> QED
    BY <1>1, <1>5, <1>14, <2>1, <2>4, <2>5, <2>6, FairChange
<1>16. Trail(db, queue \o <<x>>, u) /\ Books(lost, u, kept)
  BY <1>1, <1>13, <1>15, OneWrite
<1>17. Shelf(u, aitems \cup {i}, next + 1)
  <2>1. ASSUME NEW id \in Open(u) PROVE u.lot[id].item \in aitems \cup {i} /\ id < next + 1
    <3>1. CASE id = next
      BY <1>1, <1>5, <1>6, <1>8, <1>11, <3>1
    <3>2. CASE id # next
      <4>1. id \in Open(mem) /\ u.lot[id] = mem.lot[id] /\ id \in Nat
        BY <1>5, <1>6, <1>11, <3>2, ParametersFinite DEF Open
      <4>2. mem.lot[id].item \in aitems /\ id < next
        BY <1>1, <4>1 DEF Shelf
      <4> QED
        BY <1>1, <4>1, <4>2
    <3> QED
      BY <3>1, <3>2
  <2> QED
    BY <2>1 DEF Shelf
<1>18. next' \in Nat \ {0}
  BY <1>1, <1>5
<1> QED
  BY <1>0, <1>5, <1>10, <1>16, <1>17, <1>18, UpStep

\* A store in which a purse, a lot and the post are updated.
LEMMA UpdatedStore ==
  ASSUME NEW t, t = [gold |-> t.gold, bag |-> t.bag, mail |-> t.mail, lot |-> t.lot],
         NEW p, NEW left, NEW n, NEW a, NEW sent, NEW u,
         u = [t EXCEPT !.gold[p] = left, !.lot[n] = a, !.mail = @ (+) sent]
  PROVE  /\ u.gold = [t.gold EXCEPT ![p] = left] /\ u.bag = t.bag /\ u.mail = t.mail (+) sent
         /\ u.lot = [t.lot EXCEPT ![n] = a]
         /\ u = [gold |-> u.gold, bag |-> u.bag, mail |-> u.mail, lot |-> u.lot]
<1>1. u.gold = [t.gold EXCEPT ![p] = left]
  OBVIOUS
<1>2. u.bag = t.bag
  OBVIOUS
<1>3. u.mail = t.mail (+) sent
  OBVIOUS
<1>4. u.lot = [t.lot EXCEPT ![n] = a]
  OBVIOUS
<1>5. u = [gold |-> u.gold, bag |-> u.bag, mail |-> u.mail, lot |-> u.lot]
  OBVIOUS
<1> QED
  BY <1>1, <1>2, <1>3, <1>4, <1>5

\* What a bidder pays, and what the refund of the old bidder costs: together
\* the new bid less what is in the lot.
LEMMA PaysBalance ==
  ASSUME NEW a \in Lot, NEW p \in Players, NEW price \in Nat
  PROVE  /\ Pays(p, a, price) \in Int /\ Pays(p, a, price) <= price
         /\ Pays(p, a, price) + a.bid
               = price + (IF a.bidder \in {p, Nobody} THEN 0 ELSE a.bid)
<1>1. a.bid \in Nat /\ (a.bidder = Nobody => a.bid = 0) /\ p # Nobody
  BY AuctionAssumption DEF Lot, AuctionEntry
<1>2. CASE a.bidder = p
  BY <1>1, <1>2 DEF Pays
<1>3. CASE a.bidder # p
  BY <1>1, <1>3 DEF Pays
<1> QED
  BY <1>2, <1>3

LEMMA BidKeeps ==
  ASSUME HouseInv, NEW p \in Players, NEW id \in Ids, NEW price \in Prices,
         PlaceBid(p, id, price)
  PROVE  HouseInv'
<1>0. Running
  BY DEF PlaceBid
<1>1. /\ Trail(db, queue, mem) /\ Books(lost, mem, kept) /\ Shelf(mem, aitems, next)
      /\ Safe(mem) /\ IsStore(mem) /\ kept \in Nat /\ next \in Nat \ {0}
  BY <1>0, UpFacts
<1>2. PICK a : a = mem.lot[id]
  OBVIOUS
<1>3. PICK b : b = [a EXCEPT !.bidder = p, !.bid = price % Wrap]
  OBVIOUS
<1>4. PICK left : left = mem.gold[p] - Pays(p, a, price)
  OBVIOUS
<1>5. PICK x : x = [NoWrites EXCEPT !.gold = Row(p, left), !.lot = Row(id, b), !.sent = Refund(p, a)]
  OBVIOUS
<1>6. PICK u : u = mem'
  OBVIOUS
<1>7. /\ a # NoLot /\ mem.gold[p] >= price
      /\ u = [mem EXCEPT !.gold[p] = left, !.lot[id] = b, !.mail = @ (+) Refund(p, a)]
      /\ queue' = queue \o <<x>> /\ kept' = kept + (price - (price % Wrap))
      /\ db' = db /\ aitems' = aitems /\ next' = next /\ phase' = phase /\ lost' = lost
  BY <1>2, <1>3, <1>4, <1>5, <1>6 DEF PlaceBid, CanBid, Enqueue
<1>8. mem.gold \in [Players -> Nat] /\ mem.bag \in [Items -> Players \cup {Nobody}]
      /\ mem.lot \in [Ids -> Lot \cup {NoLot}] /\ IsPost(mem.mail)
  BY <1>1 DEF IsStore
<1>9. a \in Lot /\ id \in Open(mem)
  BY <1>2, <1>7, <1>8 DEF Open
<1>10. price \in Nat /\ price % Wrap \in 0..price
  <2>1. price \in Nat /\ Wrap \in Nat \ {0}
    BY AuctionAssumption
  <2> QED
    BY <2>1
<1>11. b \in Lot /\ b # NoLot /\ b.bid = price % Wrap /\ b.item = a.item
  <2>1. a \in AuctionEntry /\ Nobody \notin Players /\ price % Wrap \in Nat
    BY <1>9, <1>10, AuctionAssumption DEF Lot
  <2>2. b \in AuctionEntry /\ b.bidder = p /\ b.bid = price % Wrap /\ b.item = a.item
    BY <1>3, <2>1 DEF AuctionEntry
  <2>3. b \in Lot
    BY <2>1, <2>2 DEF Lot
  <2> QED
    BY <2>2, <2>3, NoLotIsNone
<1>12. PICK r : r = IF a.bidder \in {p, Nobody} THEN 0 ELSE a.bid
  OBVIOUS
<1>13. r \in Nat /\ a.bid \in Nat
  BY <1>9, <1>12 DEF Lot, AuctionEntry
<1>14. /\ Pays(p, a, price) \in Int /\ Pays(p, a, price) <= price
       /\ Pays(p, a, price) + a.bid = price + r
  BY <1>9, <1>10, <1>12, PaysBalance
<1>15. left \in Nat /\ left + price + r = mem.gold[p] + a.bid /\ mem.gold[p] \in Nat
  <2>1. mem.gold[p] \in Nat /\ mem.gold[p] >= price
    BY <1>7, <1>8
  <2> QED
    BY <1>4, <1>10, <1>13, <1>14, <2>1
<1>16. /\ u.gold = [mem.gold EXCEPT ![p] = left] /\ u.bag = mem.bag
       /\ u.mail = mem.mail (+) Refund(p, a) /\ u.lot = [mem.lot EXCEPT ![id] = b]
       /\ u = [gold |-> u.gold, bag |-> u.bag, mail |-> u.mail, lot |-> u.lot]
  <2>1. mem = [gold |-> mem.gold, bag |-> mem.bag, mail |-> mem.mail, lot |-> mem.lot]
    BY <1>1 DEF IsStore
  <2> QED
    BY <1>7, <2>1, UpdatedStore
<1>17. Sends(Refund(p, a), r, Nothing)
  BY <1>9, <1>12, RefundSends
<1>18. /\ IsPost(u.mail) /\ MailMoney(u.mail) = MailMoney(mem.mail) + r
       /\ \A i \in Items : InMails(u.mail, i) = InMails(mem.mail, i) + Nothing[i]
  <2>1. /\ IsPost(mem.mail (+) Refund(p, a))
        /\ MailMoney(mem.mail (+) Refund(p, a)) = MailMoney(mem.mail) + r
        /\ \A i \in Items : InMails(mem.mail (+) Refund(p, a), i) = InMails(mem.mail, i) + Nothing[i]
    BY <1>8, <1>17, PostAdd
  <2> QED
    BY <1>16, <2>1
<1>19. Apply(mem, x) = u
  <2>1. Written(Row(p, left), mem.gold) = u.gold
    BY <1>8, <1>16 DEF Written, Row
  <2>2. Written(<<>>, mem.bag) = u.bag
    BY <1>8, <1>16, WrittenNone
  <2>3. Written(Row(id, b), mem.lot) = u.lot
    BY <1>8, <1>16 DEF Written, Row
  <2>4. (mem.mail (-) EmptyBag) (+) Refund(p, a) = u.mail
    BY <1>8, <1>16, PostNone
  <2> QED
    BY <1>5, <1>16, <2>1, <2>2, <2>3, <2>4 DEF Apply, NoWrites
<1>20. IsStore(u)
  <2>1. u.gold \in [Players -> Nat]
    BY <1>8, <1>15, <1>16
  <2>2. u.lot \in [Ids -> Lot \cup {NoLot}]
    BY <1>8, <1>11, <1>16
  <2> QED
    BY <1>8, <1>16, <1>18, <2>1, <2>2 DEF IsStore
<1>21. kept' \in Nat /\ kept' >= kept /\ kept' = kept + (price - (price % Wrap))
  BY <1>1, <1>7, <1>10
<1>22. Fair(mem, kept, u, kept')
  <2>1. Differ(mem, u, p, id) /\ u.gold[p] = left /\ u.lot[id] = b
    BY <1>8, <1>16 DEF Differ
  <2>2. Stake(u.lot[id]) = (price % Wrap) + Deposit /\ Stake(mem.lot[id]) = a.bid + Deposit
    BY <1>2, <1>7, <1>11, <2>1 DEF Stake
  <2>3. MailMoney(mem.mail) \in Nat /\ Deposit \in Nat
    BY <1>1, StoreParts, AuctionAssumption
  <2>4. u.gold[p] + MailMoney(u.mail) + Stake(u.lot[id]) + kept'
           = mem.gold[p] + MailMoney(mem.mail) + Stake(mem.lot[id]) + kept
    BY <1>1, <1>10, <1>13, <1>15, <1>18, <1>21, <2>1, <2>2, <2>3
  <2>5. ASSUME NEW i \in Items
        PROVE  Spares(InBag(mem.bag[i]) + InMails(mem.mail, i) + InLot(mem.lot[id], i),
                      InBag(u.bag[i]) + InMails(u.mail, i) + InLot(u.lot[id], i))
    <3>1. InMails(u.mail, i) = InMails(mem.mail, i) /\ InMails(mem.mail, i) \in Nat
      <4>1. InMails(mem.mail, i) \in Nat /\ Nothing[i] = 0
        BY <1>1, StoreParts DEF Nothing
      <4>2. InMails(u.mail, i) = InMails(mem.mail, i) + Nothing[i]
        BY <1>18
      <4> QED
        BY <4>1, <4>2
    <3>2. InLot(u.lot[id], i) = InLot(mem.lot[id], i) /\ InLot(mem.lot[id], i) \in Nat
      BY <1>2, <1>7, <1>11, <2>1 DEF InLot
    <3>3. InBag(u.bag[i]) = InBag(mem.bag[i]) /\ InBag(mem.bag[i]) \in 0..1
      BY <1>1, <1>16, StoreParts
    <3> QED
      BY <3>1, <3>2, <3>3 DEF Spares
  <2> QED
    BY <1>1, <1>20, <1>21, <2>1, <2>4, <2>5, FairChange
<1>23. Trail(db, queue \o <<x>>, u) /\ Books(lost, u, kept')
  BY <1>1, <1>19, <1>22, OneWrite
<1>24. Shelf(u, aitems, next)
  <2>1. ASSUME NEW e \in Open(u) PROVE u.lot[e].item \in aitems /\ e < next
    <3>1. e \in Open(mem) /\ u.lot[e].item = mem.lot[e].item
      BY <1>2, <1>7, <1>8, <1>9, <1>11, <1>16 DEF Open
    <3> QED
      BY <1>1, <3>1 DEF Shelf
  <2> QED
    BY <2>1 DEF Shelf
<1> QED
  BY <1>0, <1>1, <1>6, <1>7, <1>23, <1>24, UpStep

\* A handler that closes the lot id: p is left with left, sent is mailed.
LEMMA CloseKeeps ==
  ASSUME HouseInv, Running, NEW p \in Players, NEW left \in Nat, NEW id \in Open(mem), NEW sent,
         NEW x \in Nat, NEW y \in [Items -> Nat], Sends(sent, x, y),
         mem' = [mem EXCEPT !.gold[p] = left, !.lot[id] = NoLot, !.mail = @ (+) sent],
         queue' = queue \o DeleteFromDB(id, PayAndSend(p, left, sent)),
         aitems' = aitems \ {mem.lot[id].item},
         kept' \in Nat, kept' >= kept,
         left + x + kept' = mem.gold[p] + mem.lot[id].bid + Deposit + kept,
         \A i \in Items : Spares(Piece(mem.lot[id])[i], y[i]),
         db' = db, next' = next, phase' = phase, lost' = lost
  PROVE  HouseInv'
<1>1. /\ Trail(db, queue, mem) /\ Books(lost, mem, kept) /\ Shelf(mem, aitems, next)
      /\ Safe(mem) /\ IsStore(mem) /\ kept \in Nat /\ next \in Nat \ {0}
  BY UpFacts
<1>2. PICK tr : tr = PayAndSend(p, left, sent)
  OBVIOUS
<1>3. PICK u : u = mem'
  OBVIOUS
<1>4. id \in Ids
  BY <1>1 DEF Open, IsStore
<1>5. /\ u.gold = [mem.gold EXCEPT ![p] = left] /\ u.bag = mem.bag
      /\ u.mail = mem.mail (+) sent /\ u.lot = [mem.lot EXCEPT ![id] = NoLot]
      /\ u = [gold |-> u.gold, bag |-> u.bag, mail |-> u.mail, lot |-> u.lot]
  <2>1. mem = [gold |-> mem.gold, bag |-> mem.bag, mail |-> mem.mail, lot |-> mem.lot]
    BY <1>1 DEF IsStore
  <2>2. u = [mem EXCEPT !.gold[p] = left, !.lot[id] = NoLot, !.mail = @ (+) sent]
    BY <1>3
  <2> QED
    BY <2>1, <2>2, UpdatedStore
<1>6. u = Closed(mem, p, left, id, sent)
  BY <1>5 DEF Closed
<1>7. Apply(Without(mem, id), tr) = u
  <2>1. Apply(Without(mem, id), PayAndSend(p, left, sent)) = Closed(mem, p, left, id, sent)
    BY <1>1, <1>4, ApplyClose
  <2> QED
    BY <1>2, <1>6, <2>1
<1>8. Fair(mem, kept, u, kept')
  BY <1>1, <1>6, CloseFair
<1>9. Trail(db, queue \o DeleteFromDB(id, tr), u) /\ Books(lost, u, kept')
  BY <1>1, <1>4, <1>7, <1>8, CloseWrite
<1>10. Shelf(u, aitems \ {mem.lot[id].item}, next)
  <2>1. PICK rest : rest = aitems \ {mem.lot[id].item}
    OBVIOUS
  <2>2. aitems \ {mem.lot[id].item} \subseteq rest
    BY <2>1
  <2>3. u.lot = Without(mem, id).lot
    BY <1>5 DEF Without
  <2>4. Shelf(u, rest, next)
    BY <1>1, <2>2, <2>3, ShelfClose
  <2> QED
    BY <2>1, <2>4
<1> QED
  BY <1>1, <1>2, <1>3, <1>9, <1>10, UpStep

LEMMA BuyKeeps ==
  ASSUME HouseInv, NEW p \in Players, NEW id \in Ids, NEW price \in Prices, NEW here,
         Buyout(p, id, price, here)
  PROVE  HouseInv'
<1>0. Running
  BY DEF Buyout
<1>1. /\ Shelf(mem, aitems, next) /\ IsStore(mem) /\ kept \in Nat
  BY <1>0, UpFacts
<1>2. PICK a : a = mem.lot[id]
  OBVIOUS
<1>3. PICK b : b = [a EXCEPT !.bidder = p, !.bid = a.buyout]
  OBVIOUS
<1>4. PICK left : left = mem.gold[p] - Pays(p, a, a.buyout)
  OBVIOUS
<1>5. PICK won : won = Settlement(b, here \cup {p}, aitems)
  OBVIOUS
<1>6. PICK sent : sent = Refund(p, a) (+) won
  OBVIOUS
<1>7. /\ a # NoLot /\ mem.gold[p] >= price /\ price >= a.buyout
      /\ mem' = [mem EXCEPT !.gold[p] = left, !.lot[id] = NoLot, !.mail = @ (+) sent]
      /\ queue' = queue \o DeleteFromDB(id, PayAndSend(p, left, sent))
      /\ kept' = kept + Fees(b) /\ aitems' = aitems \ {a.item}
      /\ db' = db /\ next' = next /\ phase' = phase /\ lost' = lost
  BY <1>2, <1>3, <1>4, <1>5, <1>6 DEF Buyout, CanBid, IsBuyout, Enqueue, PayAndSend
<1>8. a \in Lot /\ id \in Open(mem) /\ mem.gold[p] \in Nat
  BY <1>1, <1>2, <1>7 DEF Open, IsStore
<1>9. /\ a.bid \in Nat /\ a.buyout \in Nat /\ a.item \in Items /\ price \in Nat /\ Deposit \in Nat
      /\ Nobody \notin Players
  BY <1>8, AuctionAssumption DEF Lot, AuctionEntry
<1>10. b \in Lot /\ b.bid = a.buyout /\ b.item = a.item /\ b.bidder = p
  <2>1. a \in AuctionEntry
    BY <1>8 DEF Lot
  <2>2. b \in AuctionEntry /\ b.bidder = p /\ b.bid = a.buyout /\ b.item = a.item
    BY <1>3, <1>9, <2>1 DEF AuctionEntry
  <2> QED
    BY <1>9, <2>2 DEF Lot
<1>11. PICK r : r = IF a.bidder \in {p, Nobody} THEN 0 ELSE a.bid
  OBVIOUS
<1>12. r \in Nat
  BY <1>9, <1>11
<1>13. /\ Pays(p, a, a.buyout) \in Int /\ Pays(p, a, a.buyout) <= a.buyout
       /\ Pays(p, a, a.buyout) + a.bid = a.buyout + r
  BY <1>8, <1>9, <1>11, PaysBalance
<1>14. left \in Nat /\ left + a.buyout + r = mem.gold[p] + a.bid
  <2>1. mem.gold[p] >= price /\ price >= a.buyout
    BY <1>7
  <2> QED
    BY <1>4, <1>8, <1>9, <1>12, <1>13, <2>1
<1>15. Profit(b) \in 0..(a.buyout + Deposit)
  BY <1>10, CutBound
<1>16. Sends(won, Profit(b), Piece(a))
  <2>1. a.item \in aitems
    BY <1>1, <1>2, <1>8 DEF Shelf
  <2>2. Delivered(b, here \cup {p}, aitems) /\ b.bidder # Nobody /\ Piece(b) = Piece(a)
    BY <1>9, <1>10, <2>1 DEF Delivered, Piece
  <2>3. Sends(won, IF b.bidder = Nobody THEN 0 ELSE Profit(b),
              IF Delivered(b, here \cup {p}, aitems) THEN Piece(b) ELSE Nothing)
    BY <1>5, <1>10, SettlementSends
  <2> QED
    BY <2>2, <2>3
<1>17. Sends(Refund(p, a), r, Nothing)
  BY <1>8, <1>11, RefundSends
<1>18. Sends(sent, r + Profit(b), Piece(a))
  <2>1. Nothing \in [Items -> Nat] /\ Piece(a) \in [Items -> Nat] /\ Profit(b) \in Nat
    BY <1>9, <1>15, PieceType
  <2>2. Sends(sent, r + Profit(b), [i \in Items |-> Nothing[i] + Piece(a)[i]])
    BY <1>6, <1>12, <1>16, <1>17, <2>1, SendsBoth
  <2>3. [i \in Items |-> Nothing[i] + Piece(a)[i]] = Piece(a)
    BY DEF Nothing, Piece
  <2> QED
    BY <2>2, <2>3
<1>19. Fees(b) = a.buyout + Deposit - Profit(b)
  BY <1>9, <1>10 DEF Fees
<1>20. /\ kept' \in Nat /\ kept' >= kept /\ r + Profit(b) \in Nat
       /\ left + (r + Profit(b)) + kept' = mem.gold[p] + a.bid + Deposit + kept
  <2>1. kept' = kept + (a.buyout + Deposit - Profit(b))
    BY <1>7, <1>19
  <2> QED
    BY <1>1, <1>8, <1>9, <1>12, <1>14, <1>15, <2>1
<1>21. Piece(a) \in [Items -> Nat] /\ \A i \in Items : Spares(Piece(a)[i], Piece(a)[i])
  BY DEF Piece, Spares
<1> QED
  BY <1>0, <1>2, <1>7, <1>8, <1>14, <1>18, <1>20, <1>21, CloseKeeps

LEMMA CancelKeeps ==
  ASSUME HouseInv, NEW p \in Players, NEW id \in Ids, HandleAuctionRemoveItem(p, id)
  PROVE  HouseInv'
<1>0. Running
  BY DEF HandleAuctionRemoveItem
<1>1. IsStore(mem) /\ kept \in Nat
  BY <1>0, UpFacts
<1>2. PICK a : a = mem.lot[id]
  OBVIOUS
<1>3. PICK cut : cut = IF a.bidder = Nobody THEN 0 ELSE GetAuctionCut(a)
  OBVIOUS
<1>4. PICK left : left = mem.gold[p] - cut
  OBVIOUS
<1>5. PICK back : back = IF a.bidder = Nobody THEN EmptyBag ELSE SendAuctionCancelledToBidderMail(a)
  OBVIOUS
<1>6. PICK sent : sent = Mail(p, 0, a.item) (+) back
  OBVIOUS
<1>7. /\ a # NoLot /\ mem.gold[p] >= cut
      /\ mem' = [mem EXCEPT !.gold[p] = left, !.lot[id] = NoLot, !.mail = @ (+) sent]
      /\ queue' = queue \o DeleteFromDB(id, PayAndSend(p, left, sent))
      /\ kept' = kept + cut + Deposit /\ aitems' = aitems \ {a.item}
      /\ db' = db /\ next' = next /\ phase' = phase /\ lost' = lost
  BY <1>2, <1>3, <1>4, <1>5, <1>6 DEF HandleAuctionRemoveItem, Enqueue, PayAndSend
<1>8. a \in Lot /\ id \in Open(mem) /\ mem.gold[p] \in Nat
  BY <1>1, <1>2, <1>7 DEF Open, IsStore
<1>9. /\ a.bid \in Nat /\ a.item \in Items /\ Deposit \in Nat /\ NoItem \notin Items
      /\ a.bidder \in Players \cup {Nobody} /\ (a.bidder = Nobody => a.bid = 0)
  BY <1>8, AuctionAssumption DEF Lot, AuctionEntry
<1>10. cut \in Nat
  BY <1>3, <1>8, <1>9, CutBound
<1>11. Sends(back, a.bid, Nothing)
  <2>1. CASE a.bidder = Nobody
    BY <1>5, <1>9, <2>1, SendsNone DEF Nothing
  <2>2. CASE a.bidder # Nobody
    <3>1. a.bidder \in Players /\ NoItem \in Items \cup {NoItem}
      BY <1>9, <2>2
    <3>2. Sends(Mail(a.bidder, a.bid, NoItem), a.bid, [i \in Items |-> IF NoItem = i THEN 1 ELSE 0])
      BY <1>9, <3>1, SendsMail
    <3>3. [i \in Items |-> IF NoItem = i THEN 1 ELSE 0] = Nothing
      BY <1>9 DEF Nothing
    <3> QED
      BY <1>5, <2>2, <3>2, <3>3 DEF SendAuctionCancelledToBidderMail
  <2> QED
    BY <2>1, <2>2
<1>12. Sends(Mail(p, 0, a.item), 0, Piece(a))
  <2>1. a.item \in Items \cup {NoItem} /\ 0 \in Nat /\ (a.item # NoItem => 0 = 0)
    BY <1>9
  <2> QED
    BY <2>1, SendsMail DEF Piece
<1>13. Sends(sent, a.bid, Piece(a))
  <2>1. Nothing \in [Items -> Nat] /\ Piece(a) \in [Items -> Nat] /\ 0 \in Nat
    BY PieceType
  <2>2. Sends(sent, 0 + a.bid, [i \in Items |-> Piece(a)[i] + Nothing[i]])
    BY <1>6, <1>9, <1>11, <1>12, <2>1, SendsBoth
  <2>3. [i \in Items |-> Piece(a)[i] + Nothing[i]] = Piece(a)
    BY DEF Nothing, Piece
  <2>4. 0 + a.bid = a.bid
    BY <1>9
  <2> QED
    BY <2>2, <2>3, <2>4
<1>14. /\ left \in Nat /\ kept' \in Nat /\ kept' >= kept
       /\ left + a.bid + kept' = mem.gold[p] + a.bid + Deposit + kept
  <2>1. kept' = kept + cut + Deposit /\ mem.gold[p] >= cut
    BY <1>7
  <2> QED
    BY <1>1, <1>4, <1>8, <1>9, <1>10, <2>1
<1>15. Piece(a) \in [Items -> Nat] /\ \A i \in Items : Spares(Piece(a)[i], Piece(a)[i])
  BY DEF Piece, Spares
<1> QED
  BY <1>0, <1>2, <1>7, <1>8, <1>9, <1>13, <1>14, <1>15, CloseKeeps

LEMMA MinBound ==
  ASSUME NEW x \in Nat, NEW y \in Nat
  PROVE  Min({x, y}) \in Nat /\ Min({x, y}) <= x
<1>1. \E z \in {x, y} : \A w \in {x, y} : z <= w
  <2>1. CASE x <= y
    BY <2>1
  <2>2. CASE ~(x <= y)
    BY <2>2
  <2> QED
    BY <2>1, <2>2
<1>2. Min({x, y}) \in {x, y} /\ \A w \in {x, y} : Min({x, y}) <= w
  BY <1>1 DEF Min
<1> QED
  BY <1>2

LEMMA TakeMoneyKeeps ==
  ASSUME HouseInv, NEW m \in BagToSet(mem.mail), HandleMailTakeMoney(m)
  PROVE  HouseInv'
<1>0. Running
  BY DEF HandleMailTakeMoney
<1>1. /\ Trail(db, queue, mem) /\ Books(lost, mem, kept) /\ Shelf(mem, aitems, next)
      /\ Safe(mem) /\ IsStore(mem) /\ kept \in Nat /\ next \in Nat \ {0}
  BY <1>0, UpFacts
<1>2. mem.gold \in [Players -> Nat] /\ mem.bag \in [Items -> Players \cup {Nobody}]
      /\ mem.lot \in [Ids -> Lot \cup {NoLot}] /\ IsPost(mem.mail)
  BY <1>1 DEF IsStore
<1>3. m \in DOMAIN mem.mail /\ m \in Letter
  BY <1>2 DEF BagToSet, IsPost
<1>4. PICK p : p = m.to
  OBVIOUS
<1>5. PICK total : total = mem.gold[p] + m.money
  OBVIOUS
<1>6. PICK now : now = Min({total, MaxGold})
  OBVIOUS
<1>7. p \in Players /\ m.money \in Nat /\ m.money > 0 /\ m.item = NoItem
  BY <1>3, <1>4 DEF Letter, HandleMailTakeMoney
<1>8. PICK mail : mail = mem.mail (-) SetToBag({m})
  OBVIOUS
<1>9. /\ IsPost(mail) /\ MailMoney(mail) + m.money = MailMoney(mem.mail)
      /\ \A i \in Items : InMails(mail, i) + (IF m.item = i THEN 1 ELSE 0) = InMails(mem.mail, i)
  BY <1>2, <1>3, <1>8, PostTake
<1>10. PICK x : x = [NoWrites EXCEPT !.gold = Row(p, now), !.taken = SetToBag({m}), !.sent = EmptyBag]
  OBVIOUS
<1>11. PICK u : u = mem'
  OBVIOUS
<1>12. /\ u = [mem EXCEPT !.gold[p] = now, !.mail = (@ (-) SetToBag({m})) (+) EmptyBag]
       /\ queue' = queue \o <<x>> /\ kept' = kept + (total - now)
       /\ db' = db /\ aitems' = aitems /\ next' = next /\ phase' = phase /\ lost' = lost
  BY <1>4, <1>5, <1>6, <1>7, <1>10, <1>11 DEF HandleMailTakeMoney, Enqueue
<1>13. mem.gold[p] \in Nat /\ total \in Nat /\ now \in Nat /\ now <= total
  <2>1. mem.gold[p] \in Nat /\ total \in Nat /\ MaxGold \in Nat
    BY <1>2, <1>5, <1>7, AuctionAssumption
  <2> QED
    BY <1>6, <2>1, MinBound
<1>14. mail (+) EmptyBag = mail
  BY <1>9, PostNone
<1>15. /\ u.gold = [mem.gold EXCEPT ![p] = now] /\ u.bag = mem.bag
       /\ u.mail = mail /\ u.lot = mem.lot
       /\ u = [gold |-> u.gold, bag |-> u.bag, mail |-> u.mail, lot |-> u.lot]
  <2>1. mem = [gold |-> mem.gold, bag |-> mem.bag, mail |-> mem.mail, lot |-> mem.lot]
    BY <1>1 DEF IsStore
  <2>2. u.gold = [mem.gold EXCEPT ![p] = now]
    BY <1>12, <2>1
  <2>3. u.bag = mem.bag /\ u.lot = mem.lot
    BY <1>12, <2>1
  <2>4. u.mail = (mem.mail (-) SetToBag({m})) (+) EmptyBag
    BY <1>12, <2>1
  <2>5. u = [gold |-> u.gold, bag |-> u.bag, mail |-> u.mail, lot |-> u.lot]
    BY <1>12, <2>1
  <2> QED
    BY <1>8, <1>14, <2>2, <2>3, <2>4, <2>5
<1>16. Apply(mem, x) = u
  <2>1. Written(Row(p, now), mem.gold) = u.gold
    BY <1>2, <1>7, <1>15 DEF Written, Row
  <2>2. Written(<<>>, mem.bag) = u.bag /\ Written(<<>>, mem.lot) = u.lot
    BY <1>2, <1>15, WrittenNone
  <2>3. (mem.mail (-) SetToBag({m})) (+) EmptyBag = u.mail
    BY <1>8, <1>14, <1>15
  <2> QED
    BY <1>10, <1>15, <2>1, <2>2, <2>3 DEF Apply, NoWrites
<1>17. IsStore(u)
  <2>1. u.gold \in [Players -> Nat]
    BY <1>2, <1>13, <1>15
  <2> QED
    BY <1>2, <1>9, <1>15, <2>1 DEF IsStore
<1>18. kept' \in Nat /\ kept' >= kept /\ kept' + now = kept + mem.gold[p] + m.money
  <2>1. kept' = kept + (total - now)
    BY <1>12
  <2> QED
    BY <1>1, <1>5, <1>7, <1>13, <2>1
<1>19. Fair(mem, kept, u, kept')
  <2>0. 1 \in Ids
    BY AuctionAssumption DEF Ids
  <2>1. Differ(mem, u, p, 1) /\ u.gold[p] = now /\ u.lot[1] = mem.lot[1]
    BY <1>2, <1>7, <1>15 DEF Differ
  <2>2. Stake(mem.lot[1]) \in Nat
    <3>1. [n \in Ids |-> Stake(mem.lot[n])] \in [Ids -> Nat]
      BY <1>1, StoreParts
    <3> QED
      BY <2>0, <3>1
  <2>3. MailMoney(mail) \in Nat
    BY <1>15, <1>17, StoreParts
  <2>4. u.gold[p] + MailMoney(u.mail) + Stake(u.lot[1]) + kept'
           = mem.gold[p] + MailMoney(mem.mail) + Stake(mem.lot[1]) + kept
    BY <1>1, <1>7, <1>9, <1>13, <1>15, <1>18, <2>1, <2>2, <2>3
  <2>5. ASSUME NEW i \in Items
        PROVE  Spares(InBag(mem.bag[i]) + InMails(mem.mail, i) + InLot(mem.lot[1], i),
                      InBag(u.bag[i]) + InMails(u.mail, i) + InLot(u.lot[1], i))
    <3>1. InMails(mail, i) \in Nat
      BY <1>15, <1>17, StoreParts
    <3>2. m.item # i
      BY <1>7, AuctionAssumption
    <3>3. InMails(u.mail, i) = InMails(mem.mail, i)
      BY <1>9, <1>15, <3>1, <3>2
    <3>4. InLot(u.lot[1], i) = InLot(mem.lot[1], i) /\ InLot(mem.lot[1], i) \in Nat
      BY <2>1 DEF InLot
    <3>5. InBag(u.bag[i]) = InBag(mem.bag[i]) /\ InBag(mem.bag[i]) \in 0..1
      BY <1>1, <1>15, StoreParts
    <3>6. InMails(mem.mail, i) \in Nat
      BY <1>1, StoreParts
    <3> QED
      BY <3>3, <3>4, <3>5, <3>6 DEF Spares
  <2> QED
    BY <1>1, <1>7, <1>17, <1>18, <2>0, <2>1, <2>4, <2>5, FairChange
<1>20. Trail(db, queue \o <<x>>, u) /\ Books(lost, u, kept')
  BY <1>1, <1>16, <1>19, OneWrite
<1>21. Shelf(u, aitems, next)
  BY <1>1, <1>15 DEF Shelf, Open
<1> QED
  BY <1>0, <1>1, <1>11, <1>12, <1>20, <1>21, UpStep

LEMMA TakeItemKeeps ==
  ASSUME HouseInv, NEW m \in BagToSet(mem.mail), HandleMailTakeItem(m)
  PROVE  HouseInv'
<1>0. Running
  BY DEF HandleMailTakeItem
<1>1. /\ Trail(db, queue, mem) /\ Books(lost, mem, kept) /\ Shelf(mem, aitems, next)
      /\ Safe(mem) /\ IsStore(mem) /\ kept \in Nat /\ next \in Nat \ {0}
  BY <1>0, UpFacts
<1>2. mem.gold \in [Players -> Nat] /\ mem.bag \in [Items -> Players \cup {Nobody}]
      /\ mem.lot \in [Ids -> Lot \cup {NoLot}] /\ IsPost(mem.mail)
  BY <1>1 DEF IsStore
<1>3. m \in DOMAIN mem.mail /\ m \in Letter
  BY <1>2 DEF BagToSet, IsPost
<1>4. PICK p : p = m.to
  OBVIOUS
<1>5. PICK j : j = m.item
  OBVIOUS
<1>6. p \in Players /\ j \in Items /\ m.money = 0 /\ p # Nobody
  BY <1>3, <1>4, <1>5, AuctionAssumption DEF Letter, HandleMailTakeItem
<1>7. mem.bag[j] = Nobody
  <2>1. Places(mem, j) <= 1
    BY <1>1, <1>6 DEF Safe
  <2>2. \A e \in DOMAIN mem.mail : e.item = j => mem.bag[j] = Nobody
    BY <1>1, <1>6, <2>1, OnePlace
  <2> QED
    BY <1>3, <1>5, <2>2
<1>8. PICK mail : mail = mem.mail (-) SetToBag({m})
  OBVIOUS
<1>9. /\ IsPost(mail) /\ MailMoney(mail) + m.money = MailMoney(mem.mail)
      /\ \A i \in Items : InMails(mail, i) + (IF m.item = i THEN 1 ELSE 0) = InMails(mem.mail, i)
  BY <1>2, <1>3, <1>8, PostTake
<1>10. PICK x : x = [NoWrites EXCEPT !.gold = Row(p, mem.gold[p]), !.bag = Row(j, p), !.taken = SetToBag({m})]
  OBVIOUS
<1>11. PICK u : u = mem'
  OBVIOUS
<1>12. /\ u = [mem EXCEPT !.bag[j] = p, !.mail = @ (-) SetToBag({m})]
       /\ queue' = queue \o <<x>> /\ kept' = kept
       /\ db' = db /\ aitems' = aitems /\ next' = next /\ phase' = phase /\ lost' = lost
  BY <1>4, <1>5, <1>10, <1>11 DEF HandleMailTakeItem, Enqueue
<1>13. /\ u.gold = mem.gold /\ u.bag = [mem.bag EXCEPT ![j] = p]
       /\ u.mail = mail /\ u.lot = mem.lot
       /\ u = [gold |-> u.gold, bag |-> u.bag, mail |-> u.mail, lot |-> u.lot]
  <2>1. mem = [gold |-> mem.gold, bag |-> mem.bag, mail |-> mem.mail, lot |-> mem.lot]
    BY <1>1 DEF IsStore
  <2>2. u.bag = [mem.bag EXCEPT ![j] = p]
    BY <1>12, <2>1
  <2>3. u.gold = mem.gold /\ u.lot = mem.lot
    BY <1>12, <2>1
  <2>4. u.mail = mem.mail (-) SetToBag({m})
    BY <1>12, <2>1
  <2>5. u = [gold |-> u.gold, bag |-> u.bag, mail |-> u.mail, lot |-> u.lot]
    BY <1>12, <2>1
  <2> QED
    BY <1>8, <2>2, <2>3, <2>4, <2>5
<1>14. Apply(mem, x) = u
  <2>1. Written(Row(p, mem.gold[p]), mem.gold) = u.gold
    <3>1. \A q \in Players : Written(Row(p, mem.gold[p]), mem.gold)[q] = mem.gold[q]
      BY <1>2, <1>6 DEF Written, Row
    <3>2. Written(Row(p, mem.gold[p]), mem.gold) = [q \in Players |-> Written(Row(p, mem.gold[p]), mem.gold)[q]]
      BY <1>2 DEF Written
    <3> QED
      BY <1>2, <1>13, <3>1, <3>2
  <2>2. Written(Row(j, p), mem.bag) = u.bag
    BY <1>2, <1>6, <1>13 DEF Written, Row
  <2>3. Written(<<>>, mem.lot) = u.lot
    BY <1>2, <1>13, WrittenNone
  <2>4. (mem.mail (-) SetToBag({m})) (+) EmptyBag = u.mail
    BY <1>8, <1>9, <1>13, PostNone
  <2> QED
    BY <1>10, <1>13, <2>1, <2>2, <2>3, <2>4 DEF Apply, NoWrites
<1>15. IsStore(u)
  <2>1. u.bag \in [Items -> Players \cup {Nobody}]
    BY <1>2, <1>6, <1>13
  <2> QED
    BY <1>2, <1>9, <1>13, <2>1 DEF IsStore
<1>16. Fair(mem, kept, u, kept)
  <2>0. 1 \in Ids
    BY AuctionAssumption DEF Ids
  <2>1. Differ(mem, u, p, 1) /\ u.gold[p] = mem.gold[p] /\ u.lot[1] = mem.lot[1]
    BY <1>13 DEF Differ
  <2>2. MailMoney(u.mail) \in Nat /\ MailMoney(u.mail) = MailMoney(mem.mail)
    <3>1. MailMoney(u.mail) \in Nat
      BY <1>15, StoreParts
    <3> QED
      BY <1>6, <1>9, <1>13, <3>1
  <2>4. u.gold[p] + MailMoney(u.mail) + Stake(u.lot[1]) + kept
           = mem.gold[p] + MailMoney(mem.mail) + Stake(mem.lot[1]) + kept
    BY <2>1, <2>2
  <2>5. ASSUME NEW i \in Items
        PROVE  Spares(InBag(mem.bag[i]) + InMails(mem.mail, i) + InLot(mem.lot[1], i),
                      InBag(u.bag[i]) + InMails(u.mail, i) + InLot(u.lot[1], i))
    <3>1. InMails(u.mail, i) \in Nat /\ InMails(mem.mail, i) \in Nat
      BY <1>1, <1>15, StoreParts
    <3>2. InMails(u.mail, i) + (IF j = i THEN 1 ELSE 0) = InMails(mem.mail, i)
      BY <1>5, <1>9, <1>13
    <3>3. InLot(u.lot[1], i) = InLot(mem.lot[1], i) /\ InLot(mem.lot[1], i) \in Nat
      BY <2>1 DEF InLot
    <3>4. InBag(u.bag[i]) = InBag(mem.bag[i]) + (IF j = i THEN 1 ELSE 0) /\ InBag(mem.bag[i]) \in 0..1
      BY <1>2, <1>6, <1>7, <1>13 DEF InBag
    <3> QED
      BY <3>1, <3>2, <3>3, <3>4 DEF Spares
  <2>6. kept >= kept
    BY <1>1
  <2> QED
    BY <1>1, <1>6, <1>15, <2>0, <2>1, <2>4, <2>5, <2>6, FairChange
<1>17. Trail(db, queue \o <<x>>, u) /\ Books(lost, u, kept)
  BY <1>1, <1>14, <1>16, OneWrite
<1>18. Shelf(u, aitems, next)
  BY <1>1, <1>13 DEF Shelf, Open
<1> QED
  BY <1>0, <1>1, <1>11, <1>12, <1>17, <1>18, UpStep

-----------------------------------------------------------------------------
(* The loop that settles lots *)

\* What a round starts from and leads to.
Standing(d, gone, n, s) ==
  Trail(d, s.queue, s.mem) /\ Books(gone, s.mem, s.kept) /\ Shelf(s.mem, s.aitems, n)

\* The round of the lot id leads from s to r.
Round(s, id, here, stale, r) ==
  id \in Open(s.mem) /\ r = SettleLot(s, id, s.mem.lot[id], here, stale)

\* One round keeps the invariant and closes one lot.
LEMMA SettleRound ==
  ASSUME NEW d, NEW gone, NEW n, NEW s, Standing(d, gone, n, s),
         NEW id, NEW here, NEW stale, NEW r, Round(s, id, here, stale, r)
  PROVE  Standing(d, gone, n, r) /\ r.mem.lot = Without(s.mem, id).lot
<1>0. Trail(d, s.queue, s.mem) /\ Books(gone, s.mem, s.kept) /\ Shelf(s.mem, s.aitems, n)
  BY DEF Standing
<1>a. id \in Open(s.mem) /\ r = SettleLot(s, id, s.mem.lot[id], here, stale)
  BY DEF Round
<1>1. PICK m : m = s.mem
  OBVIOUS
<1>2. PICK k : k = s.kept
  OBVIOUS
<1>3. PICK a : a = m.lot[id]
  OBVIOUS
<1>4. PICK sent : sent = Settlement(a, here, s.aitems)
  OBVIOUS
<1>5. PICK u : u = [m EXCEPT !.lot[id] = NoLot, !.mail = @ (+) sent]
  OBVIOUS
<1>6. PICK l : l = k + Fees(a)
  OBVIOUS
<1>7. PICK rest : rest = IF a.item \in stale THEN s.aitems ELSE s.aitems \ {a.item}
  OBVIOUS
<1>8. /\ r.mem = u /\ r.queue = s.queue \o DeleteFromDB(id, Send(sent))
      /\ r.aitems = rest /\ r.kept = l
  BY <1>a, <1>1, <1>2, <1>3, <1>4, <1>5, <1>6, <1>7 DEF SettleLot, Send
<1>9. Safe(m) /\ IsStore(m) /\ k \in Nat
  <2>1. Safe(m)
    BY <1>0, <1>1, TrailEnds
  <2> QED
    BY <1>0, <1>2, <2>1 DEF Safe, Books
<1>10. id \in Ids /\ a \in Lot /\ a # NoLot
  BY <1>a, <1>1, <1>3, <1>9 DEF Open, IsStore
<1>11. PICK p : p \in Players
  BY AuctionAssumption
<1>12. /\ a.bid \in Nat /\ Deposit \in Nat /\ m.gold[p] \in Nat
       /\ (a.bidder = Nobody => a.bid = 0)
  BY <1>9, <1>10, <1>11, AuctionAssumption DEF Lot, AuctionEntry, IsStore
<1>13. PICK x : x = IF a.bidder = Nobody THEN 0 ELSE Profit(a)
  OBVIOUS
<1>14. PICK y : y = IF Delivered(a, here, s.aitems) THEN Piece(a) ELSE Nothing
  OBVIOUS
<1>15. Sends(sent, x, y)
  BY <1>4, <1>10, <1>13, <1>14, SettlementSends
<1>16. y \in [Items -> Nat]
  BY <1>14, PieceType
<1>17. x \in Nat /\ l \in Nat /\ l >= k /\ m.gold[p] + x + l = m.gold[p] + a.bid + Deposit + k
  <2>1. Profit(a) \in 0..(a.bid + Deposit)
    BY <1>10, CutBound
  <2>2. Fees(a) = IF a.bidder = Nobody THEN Deposit ELSE a.bid + Deposit - Profit(a)
    BY DEF Fees
  <2>3. CASE a.bidder = Nobody
    BY <1>6, <1>9, <1>12, <1>13, <2>2, <2>3
  <2>4. CASE a.bidder # Nobody
    <3>1. x = Profit(a) /\ l = k + (a.bid + Deposit - Profit(a))
      BY <1>6, <1>13, <2>2, <2>4
    <3> QED
      BY <1>9, <1>12, <2>1, <3>1
  <2> QED
    BY <2>3, <2>4
<1>18. ASSUME NEW i \in Items PROVE Spares(Piece(a)[i], y[i])
  <2>1. a.item \in s.aitems
    BY <1>0, <1>a, <1>1, <1>3 DEF Shelf
  <2>2. GmLogTrade => y = Piece(a)
    BY <1>14, <2>1 DEF Delivered
  <2>3. y = Piece(a) \/ y = Nothing
    BY <1>14
  <2>4. Piece(a)[i] \in 0..1 /\ Nothing[i] = 0
    BY DEF Piece, Nothing
  <2> QED
    BY <2>2, <2>3, <2>4 DEF Spares
<1>19. u = Closed(m, p, m.gold[p], id, sent)
  <2>1. m = [gold |-> m.gold, bag |-> m.bag, mail |-> m.mail, lot |-> m.lot]
    BY <1>9 DEF IsStore
  <2>2. u.gold = m.gold /\ u.bag = m.bag
    BY <1>5, <2>1
  <2>3. u.mail = m.mail (+) sent
    BY <1>5, <2>1
  <2>4. u.lot = [m.lot EXCEPT ![id] = NoLot]
    BY <1>5, <2>1
  <2>5. u = [gold |-> u.gold, bag |-> u.bag, mail |-> u.mail, lot |-> u.lot]
    BY <1>5, <2>1
  <2>6. m.gold = [m.gold EXCEPT ![p] = m.gold[p]]
    BY <1>9 DEF IsStore
  <2> QED
    BY <2>2, <2>3, <2>4, <2>5, <2>6 DEF Closed
<1>20. Apply(Without(m, id), Send(sent)) = u
  BY <1>9, <1>10, <1>11, <1>19, ApplyClose
<1>21. Fair(m, k, u, l)
  <2>1. id \in Open(m) /\ a = m.lot[id]
    BY <1>a, <1>1, <1>3
  <2>2. Fair(m, k, Closed(m, p, m.gold[p], id, sent), l)
    BY <1>9, <1>11, <1>12, <1>15, <1>16, <1>17, <1>18, <2>1, CloseFair
  <2> QED
    BY <1>19, <2>2
<1>22. Trail(d, s.queue \o DeleteFromDB(id, Send(sent)), u) /\ Books(gone, u, l)
  <2>1. Trail(d, s.queue, m) /\ Books(gone, m, k)
    BY <1>0, <1>1, <1>2
  <2> QED
    BY <1>10, <1>20, <1>21, <2>1, CloseWrite
<1>23. u.lot = Without(m, id).lot
  BY <1>19 DEF Closed, Without
<1>24. Shelf(u, rest, n)
  <2>1. s.aitems \ {m.lot[id].item} \subseteq rest
    BY <1>3, <1>7
  <2>2. id \in Open(m) /\ Shelf(m, s.aitems, n)
    BY <1>0, <1>a, <1>1
  <2> QED
    BY <1>9, <1>23, <2>1, <2>2, ShelfClose
<1> QED
  BY <1>1, <1>8, <1>22, <1>23, <1>24 DEF Standing

\* The states between the rounds.
Rounds(start, ids, lot, here, stale, n, f) ==
  f = [k \in 0..n |-> IF k = 0 THEN start
                      ELSE SettleLot(f[k - 1], ids[k], lot[ids[k]], here, stale)]

RoundsFrom(start, ids, lot, here, stale, n, f) ==
  /\ f = [k \in 0..n |-> f[k]] /\ f[0] = start
  /\ \A k \in 1..n : f[k] = SettleLot(f[k - 1], ids[k], lot[ids[k]], here, stale)

LEMMA RoundsMeans ==
  ASSUME NEW start, NEW ids, NEW lot, NEW here, NEW stale, NEW n \in Nat, NEW f,
         Rounds(start, ids, lot, here, stale, n, f)
  PROVE  RoundsFrom(start, ids, lot, here, stale, n, f)
<1> DEFINE e == [k \in 0..n |-> IF k = 0 THEN start
                      ELSE SettleLot(f[k - 1], ids[k], lot[ids[k]], here, stale)]
<1>1. f = e
  BY DEF Rounds
<1>2. e = [k \in 0..n |-> e[k]] /\ e[0] = start
      /\ \A k \in 1..n : e[k] = SettleLot(f[k - 1], ids[k], lot[ids[k]], here, stale)
  OBVIOUS
<1> HIDE DEF e
<1> QED
  BY <1>1, <1>2 DEF RoundsFrom

\* The loop ends.
LEMMA RoundsExist ==
  ASSUME NEW start, NEW ids, NEW lot, NEW here, NEW stale, NEW n \in Nat
  PROVE  \E f : Rounds(start, ids, lot, here, stale, n, f)
<1> DEFINE Upto(k) == \E f : Rounds(start, ids, lot, here, stale, k, f)
           T == {k \in 0..n : ~Upto(k)}
<1>1. Upto(0)
  <2>1. PICK f : f = [k \in 0..0 |-> start]
    OBVIOUS
  <2>2. f = [k \in 0..0 |-> IF k = 0 THEN start
                            ELSE SettleLot(f[k - 1], ids[k], lot[ids[k]], here, stale)]
    BY <2>1
  <2> QED
    BY <2>2 DEF Rounds
<1>2. ASSUME NEW k \in 1..n, Upto(k - 1) PROVE Upto(k)
  <2>0. k - 1 \in Nat
    OBVIOUS
  <2>1. PICK f : Rounds(start, ids, lot, here, stale, k - 1, f)
    BY <1>2
  <2>2. /\ f = [j \in 0..(k - 1) |-> f[j]] /\ f[0] = start
        /\ \A j \in 1..(k - 1) : f[j] = SettleLot(f[j - 1], ids[j], lot[ids[j]], here, stale)
    <3>1. RoundsFrom(start, ids, lot, here, stale, k - 1, f)
      BY <2>0, <2>1, RoundsMeans
    <3> QED
      BY <3>1 DEF RoundsFrom
  <2>3. PICK z : z = SettleLot(f[k - 1], ids[k], lot[ids[k]], here, stale)
    OBVIOUS
  <2>4. PICK e : e = [j \in 0..k |-> IF j = k THEN z ELSE f[j]]
    OBVIOUS
  <2>5. e = [j \in 0..k |-> e[j]] /\ e[0] = start /\ e[k] = z /\ \A j \in 0..(k - 1) : e[j] = f[j]
    BY <2>2, <2>4
  <2>6. ASSUME NEW j \in 1..k PROVE e[j] = SettleLot(e[j - 1], ids[j], lot[ids[j]], here, stale)
    <3>1. j - 1 \in 0..(k - 1)
      OBVIOUS
    <3>2. e[j - 1] = f[j - 1]
      BY <2>5, <3>1
    <3>3. CASE j = k
      BY <2>3, <2>5, <3>2, <3>3
    <3>4. CASE j # k
      <4>1. j \in 1..(k - 1) /\ j \in 0..(k - 1)
        BY <3>4
      <4> QED
        BY <2>2, <2>5, <3>2, <4>1
    <3> QED
      BY <3>3, <3>4
  <2>7. \A j \in 0..k : e[j] = IF j = 0 THEN start
                                 ELSE SettleLot(e[j - 1], ids[j], lot[ids[j]], here, stale)
    <3> TAKE j \in 0..k
    <3>1. CASE j = 0
      BY <2>5, <3>1
    <3>2. CASE j # 0
      <4>1. j \in 1..k
        BY <3>2
      <4>2. e[j] = SettleLot(e[j - 1], ids[j], lot[ids[j]], here, stale)
        BY <2>6, <4>1
      <4> QED
        BY <3>2, <4>2
    <3> QED
      BY <3>1, <3>2
  <2>8. [j \in 0..k |-> e[j]] = [j \in 0..k |-> IF j = 0 THEN start
                                 ELSE SettleLot(e[j - 1], ids[j], lot[ids[j]], here, stale)]
    BY <2>7
  <2>9. Rounds(start, ids, lot, here, stale, k, e)
    BY <2>5, <2>8 DEF Rounds
  <2> QED
    BY <2>9
<1>3. T = {}
  <2> HIDE DEF Upto
  <2> SUFFICES ASSUME T # {} PROVE FALSE
    OBVIOUS
  <2>1. T \subseteq Nat
    OBVIOUS
  <2>2. PICK k \in T : \A j \in T : k <= j
    BY <2>1, LeastElement
  <2>3. k # 0
    BY <1>1
  <2>4. k \in 1..n /\ k - 1 \in 0..n /\ k - 1 \notin T
    BY <2>2, <2>3
  <2>5. Upto(k - 1)
    BY <2>4
  <2> QED
    BY <1>2, <2>4, <2>5
<1>4. n \in 0..n
  OBVIOUS
<1>5. Upto(n)
  <2> HIDE DEF Upto
  <2> QED
    BY <1>3, <1>4
<1> QED
  BY <1>5

\* What SettleLots computes.
LEMMA SettleLotsMeans ==
  ASSUME NEW start, start = [mem |-> mem, queue |-> queue, aitems |-> aitems, kept |-> kept],
         NEW ids, Len(ids) \in Nat, NEW lot, NEW here, NEW stale
  PROVE  \E f : /\ RoundsFrom(start, ids, lot, here, stale, Len(ids), f)
                /\ SettleLots(ids, lot, here, stale) = f[Len(ids)]
<1>2. PICK f : f = CHOOSE g : Rounds(start, ids, lot, here, stale, Len(ids), g)
  OBVIOUS
<1>3. Rounds(start, ids, lot, here, stale, Len(ids), f)
  BY <1>2, RoundsExist
<1>4. SettleLots(ids, lot, here, stale) = f[Len(ids)]
  BY <1>2 DEF SettleLots, Rounds
<1>5. RoundsFrom(start, ids, lot, here, stale, Len(ids), f)
  BY <1>3, RoundsMeans
<1> QED
  BY <1>4, <1>5

\* A finite set as a sequence.
LEMMA SetToSeqMeans ==
  ASSUME NEW S, IsFiniteSet(S)
  PROVE  /\ Cardinality(S) \in Nat /\ Len(SetToSeq(S)) = Cardinality(S)
         /\ SetToSeq(S) \in [1..Cardinality(S) -> S] /\ IsInjective(SetToSeq(S))
<1>1. Cardinality(S) \in Nat /\ ExistsBijection(1..Cardinality(S), S)
  BY FS_CardinalityType
<1>2. \E f \in [1..Cardinality(S) -> S] : IsInjective(f)
  BY <1>1 DEF ExistsBijection, Bijection, Injection
<1>3. SetToSeq(S) \in [1..Cardinality(S) -> S] /\ IsInjective(SetToSeq(S))
  BY <1>2 DEF SetToSeq
<1>4. Len(SetToSeq(S)) = Cardinality(S)
  BY <1>1, <1>3
<1> QED
  BY <1>1, <1>3, <1>4

\* After k rounds the invariant holds, and the lots of the later rounds are as
\* they were.
Midway(s, ids, k) ==
  /\ Standing(db, lost, next, s)
  /\ \A n \in (k + 1)..Len(ids) : ids[n] \in Open(s.mem) /\ s.mem.lot[ids[n]] = mem.lot[ids[n]]

LEMMA MidwayStep ==
  ASSUME NEW ids, Len(ids) \in Nat, NEW k \in 1..Len(ids), NEW s, Midway(s, ids, k - 1),
         \A m, n \in 1..Len(ids) : ids[m] = ids[n] => m = n,
         NEW here, NEW stale, NEW r, r = SettleLot(s, ids[k], mem.lot[ids[k]], here, stale)
  PROVE  Midway(r, ids, k)
<1>1. PICK id : id = ids[k]
  OBVIOUS
<1>2. k \in (k - 1 + 1)..Len(ids)
  OBVIOUS
<1>3. id \in Open(s.mem) /\ s.mem.lot[id] = mem.lot[id]
  BY <1>1, <1>2 DEF Midway
<1>4. Standing(db, lost, next, s)
  BY DEF Midway
<1>5. Round(s, id, here, stale, r)
  BY <1>1, <1>3 DEF Round
<1>6. Standing(db, lost, next, r) /\ r.mem.lot = Without(s.mem, id).lot
  BY <1>4, <1>5, SettleRound
<1>7. Safe(s.mem)
  BY <1>4, TrailEnds DEF Standing
<1>8. s.mem.lot \in [Ids -> Lot \cup {NoLot}]
  BY <1>7 DEF Safe, IsStore
<1>9. ASSUME NEW n \in (k + 1)..Len(ids)
      PROVE  ids[n] \in Open(r.mem) /\ r.mem.lot[ids[n]] = mem.lot[ids[n]]
  <2>1. n \in (k - 1 + 1)..Len(ids) /\ n \in 1..Len(ids) /\ n # k
    OBVIOUS
  <2>2. ids[n] # id
    BY <1>1, <2>1
  <2>3. ids[n] \in Open(s.mem) /\ s.mem.lot[ids[n]] = mem.lot[ids[n]]
    BY <2>1 DEF Midway
  <2>4. ids[n] \in Ids /\ s.mem.lot[ids[n]] # NoLot
    BY <1>8, <2>3 DEF Open
  <2>5. Without(s.mem, id).lot = [s.mem.lot EXCEPT ![id] = NoLot]
    BY DEF Without
  <2>6. ids[n] \in DOMAIN r.mem.lot /\ r.mem.lot[ids[n]] = s.mem.lot[ids[n]]
    BY <1>6, <1>8, <2>2, <2>4, <2>5
  <2> QED
    BY <2>3, <2>4, <2>6 DEF Open
<1> QED
  BY <1>6, <1>9 DEF Midway

LEMMA UpdateKeeps ==
  ASSUME HouseInv, NEW here, AuctionsUpdate(here)
  PROVE  HouseInv'
<1>0. Running
  BY DEF AuctionsUpdate
<1>1. /\ Trail(db, queue, mem) /\ Books(lost, mem, kept) /\ Shelf(mem, aitems, next)
      /\ IsStore(mem) /\ next \in Nat \ {0}
  BY <1>0, UpFacts
<1>2. PICK rows : rows = Expired(db) \cap Open(mem)
  OBVIOUS
<1>3. PICK ids : ids = SetToSeq(rows)
  OBVIOUS
<1>4. PICK stale, t : /\ t = SettleLots(ids, mem.lot, here, stale)
                      /\ mem' = t.mem /\ queue' = t.queue /\ aitems' = t.aitems /\ kept' = t.kept
                      /\ db' = db /\ next' = next /\ phase' = phase /\ lost' = lost
  BY <1>2, <1>3 DEF AuctionsUpdate
<1>5. rows \subseteq Ids /\ rows \subseteq Open(mem)
  BY <1>1, <1>2 DEF Open, IsStore
<1>6. IsFiniteSet(rows)
  <2>1. IsFiniteSet(Ids)
    BY ParametersFinite
  <2> QED
    BY <1>5, <2>1, FS_Subset
<1>7. PICK c \in Nat : Len(ids) = c /\ ids \in [1..c -> rows] /\ IsInjective(ids)
  BY <1>3, <1>6, SetToSeqMeans
<1>8. Len(ids) \in Nat /\ (\A n \in 1..Len(ids) : ids[n] \in Open(mem))
      /\ \A m, n \in 1..Len(ids) : ids[m] = ids[n] => m = n
  BY <1>5, <1>7 DEF IsInjective
<1>9. PICK start : start = [mem |-> mem, queue |-> queue, aitems |-> aitems, kept |-> kept]
  OBVIOUS
<1>10. PICK f : /\ f[0] = start /\ t = f[Len(ids)]
                /\ \A k \in 1..Len(ids) :
                      f[k] = SettleLot(f[k - 1], ids[k], mem.lot[ids[k]], here, stale)
  <2>1. PICK f : /\ RoundsFrom(start, ids, mem.lot, here, stale, Len(ids), f)
                 /\ SettleLots(ids, mem.lot, here, stale) = f[Len(ids)]
    BY <1>8, <1>9, SettleLotsMeans
  <2> QED
    BY <1>4, <2>1 DEF RoundsFrom
<1>11. Midway(f[0], ids, 0)
  <2>1. start.mem = mem /\ start.queue = queue /\ start.aitems = aitems /\ start.kept = kept
    BY <1>9
  <2>2. \A n \in (0 + 1)..Len(ids) : ids[n] \in Open(mem)
    BY <1>8
  <2> QED
    BY <1>1, <1>10, <2>1, <2>2 DEF Midway, Standing
<1> DEFINE T == {k \in 0..Len(ids) : ~Midway(f[k], ids, k)}
<1>12. T = {}
  <2> SUFFICES ASSUME T # {} PROVE FALSE
    OBVIOUS
  <2>1. T \subseteq Nat
    OBVIOUS
  <2>2. PICK k \in T : \A j \in T : k <= j
    BY <2>1, LeastElement
  <2>3. k # 0
    BY <1>11
  <2>4. k \in 1..Len(ids) /\ k - 1 \in 0..Len(ids) /\ k - 1 \notin T
    BY <1>8, <2>2, <2>3
  <2>5. Midway(f[k - 1], ids, k - 1)
    BY <2>4
  <2>6. f[k] = SettleLot(f[k - 1], ids[k], mem.lot[ids[k]], here, stale)
    BY <1>10, <2>4
  <2>7. Midway(f[k], ids, k)
    BY <1>8, <2>4, <2>5, <2>6, MidwayStep
  <2> QED
    BY <2>7
<1>13. Midway(t, ids, Len(ids))
  <2>1. Len(ids) \in 0..Len(ids)
    BY <1>8
  <2> QED
    BY <1>10, <1>12, <2>1
<1>14. Trail(db, t.queue, t.mem) /\ Books(lost, t.mem, t.kept) /\ Shelf(t.mem, t.aitems, next)
  BY <1>13 DEF Midway, Standing
<1> QED
  BY <1>0, <1>1, <1>4, <1>14, UpStep

-----------------------------------------------------------------------------
(* The clock, the worker, and stopping and starting *)

LEMMA TickKeeps ==
  ASSUME ~DueAtBoot, HouseInv, NEW id, TimePasses(id)
  PROVE  HouseInv'
<1>1. /\ Running /\ mem' = mem /\ aitems' = aitems /\ db' = db /\ queue' = queue /\ next' = next
      /\ phase' = phase /\ kept' = kept /\ lost' = lost
  BY DEF TimePasses
<1>2. /\ Trail(db, queue, mem) /\ Books(lost, mem, kept) /\ Shelf(mem, aitems, next)
      /\ next \in Nat \ {0}
  BY <1>1, UpFacts
<1> QED
  BY <1>1, <1>2, UpStep

LEMMA WorkKeeps ==
  ASSUME HouseInv, Work
  PROVE  HouseInv'
<1>1. /\ queue # <<>> /\ db' = Apply(db, Head(queue)) /\ queue' = Tail(queue)
      /\ mem' = mem /\ aitems' = aitems /\ next' = next
      /\ phase' = phase /\ kept' = kept /\ lost' = lost
  BY DEF Work
<1>2. Running
  BY <1>1 DEF HouseInv, BootInv
<1>3. /\ Trail(db, queue, mem) /\ Books(lost, mem, kept) /\ Shelf(mem, aitems, next)
      /\ next \in Nat \ {0}
  BY <1>2, UpFacts
<1>4. Trail(Apply(db, Head(queue)), Tail(queue), mem)
  BY <1>1, <1>3, TrailWork
<1> QED
  BY <1>1, <1>2, <1>3, <1>4, UpStep

\* The greatest of some numbers that have a bound.
LEMMA MaxBound ==
  ASSUME NEW b \in Nat, NEW S, S \subseteq 0..b, S # {}
  PROVE  Max(S) \in S /\ \A y \in S : Max(S) >= y
<1> DEFINE T == {b - x : x \in S}
<1>1. T \subseteq Nat /\ T # {}
  <2>1. PICK z \in S : TRUE
    OBVIOUS
  <2>2. b - z \in T
    BY <2>1
  <2>3. \A x \in S : x \in 0..b /\ b - x \in Nat
    OBVIOUS
  <2>4. T \subseteq Nat
    BY <2>3
  <2> QED
    BY <2>2, <2>4
<1>2. PICK n \in T : \A m \in T : n <= m
  BY <1>1, LeastElement
<1>3. PICK x \in S : n = b - x
  OBVIOUS
<1>4. ASSUME NEW y \in S PROVE x >= y
  <2>1. b - y \in T
    OBVIOUS
  <2>2. b - x <= b - y
    BY <1>2, <1>3, <2>1
  <2>3. x \in 0..b /\ y \in 0..b
    OBVIOUS
  <2> HIDE DEF T
  <2> QED
    BY <2>2, <2>3
<1> QED
  BY <1>4 DEF Max

\* The next id of a new process is above those in the table.
LEMMA NextId ==
  ASSUME NEW t, IsStore(t)
  PROVE  LET n == Max(Open(t) \cup {0}) + 1 IN n \in Nat \ {0} /\ \A id \in Open(t) : id < n
<1>1. MaxSales \in Nat /\ Open(t) \subseteq 1..MaxSales
  BY AuctionAssumption DEF Open, IsStore, Ids
<1>2. PICK S : S = Open(t) \cup {0}
  OBVIOUS
<1>3. S \subseteq 0..MaxSales /\ S # {}
  BY <1>1, <1>2
<1>4. Max(S) \in S /\ \A y \in S : Max(S) >= y
  BY <1>1, <1>3, MaxBound
<1>5. PICK x : x = Max(S)
  OBVIOUS
<1>6. x \in Nat /\ \A y \in Open(t) : x >= y /\ y \in Nat
  BY <1>1, <1>2, <1>3, <1>4, <1>5
<1>7. x + 1 \in Nat \ {0} /\ \A y \in Open(t) : y < x + 1
  BY <1>6
<1> QED
  BY <1>2, <1>5, <1>7

LEMMA RestartKeeps ==
  ASSUME ~DueAtBoot, HouseInv, Restart
  PROVE  HouseInv'
<1>1. /\ Expired(db) = {} /\ mem' = [db EXCEPT !.lot = [id \in Ids |-> NoLot]]
      /\ queue' = <<>> /\ phase' = "expire" /\ due' = Expired(db)
      /\ next' = Max(Open(db) \cup {0}) + 1 /\ lost' = (lost \/ queue # <<>>)
      /\ db' = db /\ kept' = kept
  BY DEF Restart
<1>2. Safe(db) /\ kept \in Nat /\ (~lost /\ queue = <<>> => Books(FALSE, db, kept))
  <2>1. CASE Running
    <3>1. Trail(db, queue, mem) /\ Books(lost, mem, kept) /\ kept \in Nat
      BY <2>1, UpFacts
    <3>2. Safe(db) /\ (queue = <<>> => db = mem)
      BY <3>1, TrailEnds
    <3>3. ~lost => Books(FALSE, mem, kept)
      BY <3>1 DEF Books
    <3> QED
      BY <3>1, <3>2, <3>3
  <2>2. CASE ~Running
    <3>1. Safe(db) /\ Books(lost, db, kept)
      BY <2>2 DEF HouseInv, BootInv
    <3> QED
      BY <3>1 DEF Books
  <2> QED
    BY <2>1, <2>2
<1>3. Books(lost', db, kept)
  <2>1. ~lost' => Books(FALSE, db, kept)
    BY <1>1, <1>2
  <2> QED
    BY <1>2, <2>1 DEF Books
<1>4. next' \in Nat \ {0} /\ \A id \in Open(db) : id < next'
  BY <1>1, <1>2, NextId DEF Safe
<1>5. BootInv'
  <2>1. phase' # "auctions" /\ due' = {}
    BY <1>1
  <2>2. Open(db)' = Open(db)
    BY <1>1 DEF Open
  <2> QED
    BY <1>1, <1>2, <1>3, <1>4, <2>1, <2>2 DEF BootInv
<1>6. ~Running' /\ phase' \in {"up", "expire", "items", "auctions"}
  BY <1>1 DEF Running
<1> QED
  BY <1>4, <1>5, <1>6 DEF HouseInv

\* With no lot due, DeleteExpiredAuctionsAtStartup does nothing.
LEMMA ExpireKeeps ==
  ASSUME HouseInv, DeleteExpiredAuctionsAtStartup
  PROVE  HouseInv'
<1>1. phase = "expire" /\ phase' = "items" /\ db' = db /\ due' = due /\ next' = next /\ lost' = lost
  BY DEF DeleteExpiredAuctionsAtStartup
<1>2. BootInv /\ next \in Nat \ {0}
  BY <1>1 DEF HouseInv, Running
<1>3. PICK ids : ids = SetToSeq({})
  OBVIOUS
<1>4. Len(ids) = 0
  BY <1>3, SetToSeqMeans, FS_EmptySet
<1>5. PICK start : start = [mem |-> mem, queue |-> queue, aitems |-> aitems, kept |-> kept]
  OBVIOUS
<1>6. PICK none : none = {}
  OBVIOUS
<1>7. PICK f : /\ RoundsFrom(start, ids, db.lot, none, none, Len(ids), f)
               /\ SettleLots(ids, db.lot, none, none) = f[Len(ids)]
  <2>1. Len(ids) \in Nat
    BY <1>4
  <2> QED
    BY <1>5, <2>1, SettleLotsMeans
<1>8. SettleLots(ids, db.lot, none, none) = start
  BY <1>4, <1>7 DEF RoundsFrom
<1>9. Expired(db) = {}
  BY <1>2 DEF BootInv, Expired
<1>10. mem' = mem /\ queue' = queue /\ aitems' = aitems /\ kept' = kept
  <2>1. PICK s : /\ s = SettleLots(ids, db.lot, none, none)
                 /\ mem' = s.mem /\ queue' = s.queue /\ aitems' = s.aitems /\ kept' = s.kept
    BY <1>3, <1>6, <1>9 DEF DeleteExpiredAuctionsAtStartup
  <2> QED
    BY <1>5, <1>8, <2>1
<1>11. BootInv'
  <2>1. Open(db)' = Open(db)
    BY <1>1 DEF Open
  <2> QED
    BY <1>1, <1>2, <1>10, <2>1 DEF BootInv
<1> QED
  BY <1>1, <1>2, <1>11 DEF HouseInv, Running

LEMMA LoadItemsKeeps ==
  ASSUME HouseInv, LoadAuctionItems
  PROVE  HouseInv'
<1>1. /\ phase = "items" /\ phase' = "auctions" /\ aitems' = {db.lot[id].item : id \in Open(db)}
      /\ mem' = mem /\ db' = db /\ queue' = queue /\ due' = due /\ next' = next
      /\ kept' = kept /\ lost' = lost
  BY DEF LoadAuctionItems
<1>2. BootInv /\ next \in Nat \ {0}
  BY <1>1 DEF HouseInv, Running
<1>3. Open(db)' = Open(db)
  BY <1>1 DEF Open
<1>4. BootInv'
  BY <1>1, <1>2, <1>3 DEF BootInv
<1> QED
  BY <1>1, <1>2, <1>4 DEF HouseInv, Running

\* Every row has its item loaded, so that LoadAuctions takes over the table.
LEMMA LoadKeeps ==
  ASSUME HouseInv, LoadAuctions
  PROVE  HouseInv'
<1>1. PICK orphans : orphans = {id \in Open(db) : db.lot[id].item \notin aitems}
  OBVIOUS
<1>2. /\ phase = "auctions" /\ phase' = "up" /\ aitems' = aitems /\ db' = db /\ next' = next
      /\ kept' = kept /\ lost' = lost
      /\ mem' = [mem EXCEPT !.lot = [id \in Ids |-> IF id \in orphans THEN NoLot ELSE db.lot[id]]]
      /\ queue' = queue \o [n \in 1..Cardinality(orphans) |->
                        [NoWrites EXCEPT !.lot = Row(SetToSeq(orphans)[n], NoLot)]]
  BY <1>1 DEF LoadAuctions
<1>3. BootInv /\ next \in Nat \ {0}
  BY <1>2 DEF HouseInv, Running
<1>4. aitems = {db.lot[id].item : id \in Open(db)}
  BY <1>2, <1>3 DEF BootInv
<1>5. orphans = {}
  BY <1>1, <1>4
<1>6. IsStore(db) /\ Safe(db) /\ Books(lost, db, kept) /\ queue = <<>>
      /\ mem = [db EXCEPT !.lot = [id \in Ids |-> NoLot]]
      /\ \A id \in Open(db) : id < next
  BY <1>3 DEF BootInv, Safe
<1>7. mem' = db
  <2>1. db = [gold |-> db.gold, bag |-> db.bag, mail |-> db.mail, lot |-> db.lot]
        /\ db.lot \in [Ids -> Lot \cup {NoLot}]
    BY <1>6 DEF IsStore
  <2>2. [id \in Ids |-> IF id \in orphans THEN NoLot ELSE db.lot[id]] = db.lot
    BY <1>5, <2>1
  <2>3. mem' = [mem EXCEPT !.lot = db.lot]
    BY <1>2, <2>2
  <2> QED
    BY <1>6, <2>1, <2>3
<1>8. queue' = <<>>
  <2>1. PICK q : q = [n \in 1..Cardinality(orphans) |->
                        [NoWrites EXCEPT !.lot = Row(SetToSeq(orphans)[n], NoLot)]]
    OBVIOUS
  <2>2. Cardinality(orphans) = 0
    BY <1>5, FS_EmptySet
  <2>3. q = <<>>
    <3>1. 1..Cardinality(orphans) = {}
      BY <2>2
    <3> QED
      BY <2>1, <3>1
  <2>4. queue' = queue \o q
    BY <1>2, <2>1
  <2> QED
    BY <1>6, <2>3, <2>4
<1>9. Trail(db, <<>>, db)
  BY <1>6, TrailStart
<1>10. Shelf(db, aitems, next)
  BY <1>4, <1>6 DEF Shelf
<1>11. UpInv'
  BY <1>2, <1>6, <1>7, <1>8, <1>9, <1>10 DEF UpInv
<1> QED
  BY <1>2, <1>3, <1>11 DEF HouseInv, Running

-----------------------------------------------------------------------------
(* The theorems *)

\* At the start the players hold all the money and one of them every item.
LEMMA StartBalances ==
  ASSUME NEW t, NEW p \in Players,
         t = [gold |-> StartGold, bag |-> [i \in Items |-> p],
              mail |-> EmptyBag, lot |-> [id \in Ids |-> NoLot]]
  PROVE  /\ IsStore(t) /\ Total(StartGold) \in Nat /\ Wealth(t) = Total(StartGold)
         /\ \A i \in Items : Places(t, i) = 1
<1>1. /\ t.gold = StartGold /\ t.bag = [i \in Items |-> p] /\ t.mail = EmptyBag
      /\ t.lot = [id \in Ids |-> NoLot]
  OBVIOUS
<1>2. StartGold \in [Players -> Nat]
  BY AuctionAssumption
<1>3. IsPost(EmptyBag) /\ MailMoney(EmptyBag) = 0 /\ \A i \in Items : InMails(EmptyBag, i) = 0
  BY WeightNone, PostWeight
<1>4. IsStore(t)
  BY <1>1, <1>2, <1>3 DEF IsStore
<1>5. ASSUME NEW f, NEW S, f = [x \in S |-> 0] PROVE Total(f) = 0
  <2>1. Units(f) = {}
    BY <1>5 DEF Units
  <2> QED
    BY <2>1, FS_EmptySet DEF Total
<1>6. Total([id \in Ids |-> Stake(t.lot[id])]) = 0
  <2>1. [id \in Ids |-> Stake(t.lot[id])] = [id \in Ids |-> 0]
    BY <1>1 DEF Stake
  <2> QED
    BY <1>5, <2>1
<1>7. ASSUME NEW i \in Items PROVE Total([id \in Ids |-> InLot(t.lot[id], i)]) = 0
  <2>1. [id \in Ids |-> InLot(t.lot[id], i)] = [id \in Ids |-> 0]
    BY <1>1 DEF InLot
  <2> QED
    BY <1>5, <2>1
<1>8. Total(StartGold) \in Nat
  BY <1>1, <1>4, StoreParts
<1>9. Wealth(t) = Total(StartGold)
  BY <1>1, <1>3, <1>6, <1>8 DEF Wealth
<1>10. ASSUME NEW i \in Items PROVE Places(t, i) = 1
  <2>1. InBag(t.bag[i]) = 1
    BY <1>1, AuctionAssumption DEF InBag
  <2>2. InMails(t.mail, i) = 0
    BY <1>1, <1>3
  <2> QED
    BY <1>7, <2>1, <2>2 DEF Places
<1> QED
  BY <1>4, <1>8, <1>9, <1>10

LEMMA InitHolds ==
  ASSUME Init
  PROVE  HouseInv
<1>1. PICK p : p = CHOOSE q \in Players : TRUE
  OBVIOUS
<1>2. p \in Players
  BY <1>1, AuctionAssumption
<1>3. /\ mem = [gold |-> StartGold, bag |-> [i \in Items |-> p],
                mail |-> EmptyBag, lot |-> [id \in Ids |-> NoLot]]
      /\ db = mem /\ queue = <<>> /\ next = 1 /\ phase = "up" /\ kept = 0 /\ lost = FALSE
  BY <1>1 DEF Init
<1>4. PICK t : t = mem
  OBVIOUS
<1>5. /\ IsStore(t) /\ Total(StartGold) \in Nat /\ Wealth(t) = Total(StartGold)
      /\ \A i \in Items : Places(t, i) = 1
  BY <1>2, <1>3, <1>4, StartBalances
<1>6. Safe(t)
  BY <1>5 DEF Safe
<1>7. Trail(t, <<>>, t)
  BY <1>6, TrailStart
<1>8. Books(FALSE, t, 0)
  BY <1>5 DEF Books
<1>9. Open(mem) = {}
  BY <1>3 DEF Open
<1>10. UpInv
  BY <1>3, <1>4, <1>7, <1>8, <1>9 DEF UpInv, Shelf
<1> QED
  BY <1>3, <1>10 DEF HouseInv, Running

LEMMA NextKeeps ==
  ASSUME ~DueAtBoot, HouseInv, [Next]_vars
  PROVE  HouseInv'
<1>1. CASE Sell
  BY <1>1, SellKeeps DEF Sell
<1>2. CASE Bid
  BY <1>2, BidKeeps DEF Bid
<1>3. CASE Buy
  BY <1>3, BuyKeeps DEF Buy
<1>4. CASE Cancel
  BY <1>4, CancelKeeps DEF Cancel
<1>5. CASE TakeMoney
  BY <1>5, TakeMoneyKeeps DEF TakeMoney
<1>6. CASE TakeItem
  BY <1>6, TakeItemKeeps DEF TakeItem
<1>7. CASE Update
  BY <1>7, UpdateKeeps DEF Update
<1>8. CASE Tick
  BY <1>8, TickKeeps DEF Tick
<1>9. CASE Work
  BY <1>9, WorkKeeps
<1>10. CASE Restart
  BY <1>10, RestartKeeps
<1>11. CASE Boot
  BY <1>11, ExpireKeeps, LoadItemsKeeps, LoadKeeps DEF Boot
<1>12. CASE UNCHANGED vars
  BY <1>12 DEF vars, HouseInv, UpInv, BootInv, Running, Open, Shelf
<1> QED
  BY <1>1, <1>2, <1>3, <1>4, <1>5, <1>6, <1>7, <1>8, <1>9, <1>10, <1>11, <1>12 DEF Next

\* The invariant holds in every state of a server that never starts with a lot
\* already due: the tables, and all the worker will make of them, hold no more
\* than the players started with, and lead to what the world thread sees.
THEOREM HouseInvariant ==
  ASSUME ~DueAtBoot
  PROVE  Spec => []HouseInv
<1>1. Init => HouseInv
  BY InitHolds
<1>2. HouseInv /\ [Next]_vars => HouseInv'
  BY NextKeeps
<1> QED
  BY <1>1, <1>2, PTL DEF Spec

\* Whatever players, prices, widths and bounds: the operations of the auction
\* house and its mails neither create money nor lose any beyond what is kept,
\* and a crash that loses queued writes creates none either.
THEOREM MoneyIsConserved ==
  ASSUME ~DueAtBoot
  PROVE  Spec => []MoneyConserved
<1>1. HouseInv => MoneyConserved
  <2> SUFFICES ASSUME HouseInv, Running PROVE MoneyConserved
    BY DEF MoneyConserved
  <2>1. Books(lost, mem, kept) /\ Safe(mem)
    BY UpFacts
  <2> QED
    BY <2>1 DEF MoneyConserved, Books, Safe
<1> QED
  BY <1>1, HouseInvariant, PTL

\* Every item is in exactly one bag, mail or lot, provided that winners who are
\* offline are looked up (CONFIG_GM_LOG_TRADE); a crash may lose an item and
\* never doubles one.
THEOREM ItemsAreConserved ==
  ASSUME ~DueAtBoot, GmLogTrade
  PROVE  Spec => []ItemsConserved
<1>1. HouseInv => ItemsConserved
  <2> SUFFICES ASSUME HouseInv, Running, NEW i \in Items
               PROVE  Places(mem, i) = 1 \/ (lost /\ Places(mem, i) = 0)
    BY DEF ItemsConserved
  <2>1. Books(lost, mem, kept) /\ Safe(mem)
    BY UpFacts
  <2>2. Places(mem, i) \in Nat /\ Places(mem, i) <= 1
    BY <2>1, WealthNat DEF Safe
  <2>3. ~lost => Places(mem, i) = 1
    BY <2>1 DEF Books
  <2> QED
    BY <2>2, <2>3
<1> QED
  BY <1>1, HouseInvariant, PTL

\* Without that configuration a lot may lose its item, but no item is ever in
\* two places: no sequence of bids, buyouts, cancellations, settlements, mails
\* and crashes duplicates one.
THEOREM NoItemDoubled ==
  ASSUME ~DueAtBoot
  PROVE  Spec => [](Running => \A i \in Items : Places(mem, i) <= 1)
<1>1. HouseInv => (Running => \A i \in Items : Places(mem, i) <= 1)
  BY UpFacts DEF Safe
<1> QED
  BY <1>1, HouseInvariant, PTL

\* The tables, once the worker has done what is queued, are what the world
\* thread sees, although DeleteFromDB ignores the transaction it is given.
THEOREM DatabaseIsFollowed ==
  ASSUME ~DueAtBoot
  PROVE  Spec => []DatabaseFollows
<1>1. HouseInv => DatabaseFollows
  BY UpFacts DEF Trail, DatabaseFollows
<1> QED
  BY <1>1, HouseInvariant, PTL

=============================================================================
