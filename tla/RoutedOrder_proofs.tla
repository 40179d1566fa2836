------------------------- MODULE RoutedOrder_proofs -------------------------
(***************************************************************************)
(* For all pools, prices, routes and slippages: an order in flight is well *)
(* formed; the contract never sells more than the order, sells nothing on  *)
(* a route beyond the cutoff, sells on better routes first, and places     *)
(* what the routes have room for.                                          *)
(***************************************************************************)
EXTENDS RoutedOrder, TLAPS

LEMMA Quotient ==
  ASSUME NEW a \in Nat, NEW d \in Nat \ {0}
  PROVE  a \div d \in Nat /\ (a \div d) * d <= a
OBVIOUS

LEMMA FloorIsInt ==
  ASSUME NEW a \in Int, NEW d \in Nat \ {0}
  PROVE  a \div d \in Int
OBVIOUS

LEMMA CapacityBounds ==
  ASSUME NEW level \in Int, NEW shift \in Int, NEW rate \in Nat, NEW remaining \in Nat
  PROVE  Capacity(level, shift, rate, remaining) \in 0..remaining
<1> DEFINE depth == (level - shift) \div X96
           volume == (depth * rate) \div 2
<1>1. depth \in Int
  BY FloorIsInt, PlaceOrderConstants
<1> HIDE DEF depth
<1>2. volume \in Int
  BY <1>1
<1> HIDE DEF volume
<1>3. Capacity(level, shift, rate, remaining)
        = IF volume > remaining THEN remaining ELSE IF volume < 0 THEN 0 ELSE volume
  BY DEF Capacity, volume, depth
<1> QED BY <1>2, <1>3

(* Parts of a volume in proportion to their rates are no more than it.     *)
LEMMA LessByFactor ==
  ASSUME NEW x \in Nat, NEW y \in Nat, NEW z \in Nat, NEW v \in Nat, NEW t \in Nat \ {0},
         (x + y + z) * t <= v * t
  PROVE  x + y + z <= v
OBVIOUS

LEMMA PartsFit ==
  ASSUME NEW v \in Nat, NEW a \in Nat, NEW b \in Nat, NEW c \in Nat, a + b + c # 0
  PROVE  LET q(x) == (v * x) \div (a + b + c)
         IN  q(a) \in Nat /\ q(b) \in Nat /\ q(c) \in Nat /\ q(a) + q(b) + q(c) <= v
<1> DEFINE t == a + b + c
           q(x) == (v * x) \div t
<1>1. t \in Nat \ {0}
  OBVIOUS
<1>2. v * a \in Nat /\ v * b \in Nat /\ v * c \in Nat
  OBVIOUS
<1> HIDE DEF t
<1>3. /\ q(a) \in Nat /\ q(a) * t <= v * a
      /\ q(b) \in Nat /\ q(b) * t <= v * b
      /\ q(c) \in Nat /\ q(c) * t <= v * c
  BY <1>1, <1>2, Quotient
<1> HIDE DEF q
<1>4. v * a + v * b + v * c = v * t
  BY DEF t
<1>5. (q(a) + q(b) + q(c)) * t = q(a) * t + q(b) * t + q(c) * t
  BY <1>1, <1>3
<1>6. (q(a) + q(b) + q(c)) * t <= v * t
  <2>1. q(a) * t \in Nat /\ q(b) * t \in Nat /\ q(c) * t \in Nat /\ v * t \in Nat
    BY <1>1, <1>3
  <2> QED BY <1>2, <1>3, <1>4, <1>5, <2>1
<1>7. q(a) + q(b) + q(c) <= v
  BY <1>1, <1>3, <1>6, LessByFactor
<1> QED BY <1>3, <1>7 DEF q, t

LEMMA CutoffIsInt == CutoffThreshold \in Int
BY PlaceOrderConstants DEF CutoffThreshold

----------------------------------------------------------------------------
RankRecords == [shift : Int, rate : Nat, slip : Nat]

(* What may be sold of an order: three shares that are together no more.   *)
Within(s, reference) ==
  /\ s \in [1..MaxRoutes -> Nat]
  /\ s[1] + s[2] + s[3] <= reference

LEMMA ThreeShares ==
  ASSUME NEW a \in Nat, NEW b \in Nat, NEW c \in Nat, NEW n \in Nat, a + b + c <= n
  PROVE  Within(<<a, b, c>>, n)
BY DEF Within, MaxRoutes

(* The smallest order is within the tolerance epsilon of the split.        *)
LEMMA SmallestWithinEpsilon ==
  ASSUME NEW a \in Nat, NEW b \in Nat, b >= 10
  PROVE  a \div b \in Nat /\ a \div b <= a \div 10
<1> DEFINE q == a \div b
<1>1. q \in Nat /\ q * b <= a
  BY Quotient
<1> HIDE DEF q
<1>2. q * 10 <= q * b
  BY <1>1
<1>3. q * 10 <= a
  <2>1. q * b \in Nat
    BY <1>1
  <2> QED BY <1>1, <1>2, <2>1
<1>4. q <= a \div 10
  BY <1>1, <1>3
<1> QED BY <1>1, <1>4 DEF q

(* What Part gives of a volume to ranks whose rates add up.                *)
LEMMA PartsBound ==
  ASSUME NEW v \in Nat, NEW a \in RankRecords, NEW b \in RankRecords, NEW c \in RankRecords,
         NEW rate, rate = a.rate + b.rate + c.rate, v # 0 => rate # 0
  PROVE  /\ Part(v, a, rate) \in Nat /\ Part(v, b, rate) \in Nat /\ Part(v, c, rate) \in Nat
         /\ Part(v, a, rate) + Part(v, b, rate) + Part(v, c, rate) <= v
<1>1. a.rate \in Nat /\ b.rate \in Nat /\ c.rate \in Nat
  BY DEF RankRecords
<1>2. CASE v = 0
  BY <1>2 DEF Part
<1>3. CASE v # 0
  <2>1. a.rate + b.rate + c.rate # 0
    BY <1>3
  <2> QED BY <1>1, <1>3, <2>1, PartsFit DEF Part
<1> QED BY <1>2, <1>3

(* The split over two or three routes: each range takes from what the one  *)
(* before has left, and a leftover is only added where the code has taken  *)
(* all that was sold from what remains.                                    *)
LEMMA SpreadFits ==
  ASSUME NEW o \in Orders, o.minRate >= 10,
         NEW first \in RankRecords, NEW second \in RankRecords, NEW third \in RankRecords
  PROVE  Within(Spread(o, first, second, third).shares, o.reference)
<1> DEFINE n        == o.reference
           epsilon  == o.reference \div 10
           alone    == Capacity(second.shift, first.shift, first.rate, o.reference)
           finished == Abs(alone - o.reference) < epsilon
           rest1    == IF finished THEN o.reference ELSE o.reference - alone
           both     == ~finished /\ rest1 > epsilon
           rate2    == first.rate + second.rate
           three    == third.shift <= CutoffThreshold
           level2   == IF three THEN third.shift ELSE CutoffThreshold
           volume2  == IF both THEN Capacity(level2, second.shift, rate2, rest1) ELSE 0
           rest2    == IF three THEN rest1 - volume2 ELSE rest1
           all      == both /\ three /\ rest2 > epsilon
           rate3    == rate2 + third.rate
           volume3  == IF all THEN Capacity(CutoffThreshold, third.shift, rate3, rest2) ELSE 0
           left     == IF rest2 < MinOrderSize(o) THEN rest2 ELSE 0
           flatter  == second.slip > 0 /\ second.slip < first.slip
           p21      == Part(volume2, first, rate2)
           p22      == Part(volume2, second, rate2)
           p31      == Part(volume3, first, rate3)
           p32      == Part(volume3, second, rate3)
           p33      == Part(volume3, third, rate3)
<1>1. n \in Nat /\ o.minRate \in Nat
  BY DEF Orders
<1>2. /\ first.shift \in Int /\ first.rate \in Nat
      /\ second.shift \in Int /\ second.rate \in Nat
      /\ third.shift \in Int /\ third.rate \in Nat
  BY DEF RankRecords
<1>3. MinOrderSize(o) \in Nat /\ epsilon \in Nat /\ MinOrderSize(o) <= epsilon
  BY <1>1, SmallestWithinEpsilon DEF MinOrderSize
<1>a. epsilon <= n
  BY <1>1
<1>4. alone \in 0..n
  BY <1>1, <1>2, CapacityBounds
<1> HIDE DEF alone, epsilon
<1>5. /\ rest1 \in 0..n
      /\ finished => rest1 = n
      /\ ~finished => rest1 = n - alone
  BY <1>1, <1>4
<1> HIDE DEF finished, rest1
<1>6. level2 \in Int /\ rate2 \in Nat /\ rate3 \in Nat
  BY <1>2, CutoffIsInt
<1> HIDE DEF level2
<1>7. volume2 \in 0..rest1 /\ (~both => volume2 = 0)
  <2>1. rest1 \in Nat
    BY <1>1, <1>5
  <2>2. Capacity(level2, second.shift, rate2, rest1) \in 0..rest1
    BY <1>2, <1>6, <2>1, CapacityBounds
  <2> QED BY <2>1, <2>2
<1> HIDE DEF volume2
<1>8. /\ rest2 \in 0..rest1
      /\ three => rest2 = rest1 - volume2
      /\ ~three => rest2 = rest1
  BY <1>5, <1>7
<1> HIDE DEF rest2
<1>9. volume3 \in 0..rest2 /\ (~all => volume3 = 0)
  <2>1. rest2 \in Nat
    BY <1>1, <1>5, <1>8
  <2>2. Capacity(CutoffThreshold, third.shift, rate3, rest2) \in 0..rest2
    BY <1>2, <1>6, <2>1, CutoffIsInt, CapacityBounds
  <2> QED BY <2>1, <2>2
<1> HIDE DEF volume3
<1>10. CASE both /\ rate2 = 0
  <2>1. Spread(o, first, second, third).shares = <<0, 0, 0>>
    BY <1>10 DEF Spread, NoShares, rest1, alone, finished, epsilon
  <2> QED BY <1>1, <2>1, ThreeShares
<1>11. CASE ~(both /\ rate2 = 0)
  <2>1. p21 \in Nat /\ p22 \in Nat /\ p21 + p22 <= volume2
    <3>1. NoRank \in RankRecords /\ NoRank.rate = 0
      BY DEF NoRank, RankRecords
    <3>2. rate2 = first.rate + second.rate + NoRank.rate
      BY <1>2, <3>1
    <3>3. volume2 \in Nat /\ (volume2 # 0 => rate2 # 0)
      BY <1>5, <1>7, <1>11
    <3> QED BY <3>1, <3>2, <3>3, PartsBound
  <2>2. p31 \in Nat /\ p32 \in Nat /\ p33 \in Nat /\ p31 + p32 + p33 <= volume3
    <3>1. rate3 = first.rate + second.rate + third.rate
      OBVIOUS
    <3>2. volume3 \in Nat /\ (volume3 # 0 => rate3 # 0)
      BY <1>2, <1>5, <1>6, <1>8, <1>9, <1>11
    <3> QED BY <3>1, <3>2, PartsBound
  <2> HIDE DEF p21, p22, p31, p32, p33
  <2>3. left \in Nat /\ alone + volume2 + volume3 + left <= n
    <3>1. CASE finished
      BY <3>1, <1>1, <1>3, <1>a, <1>4, <1>5, <1>7, <1>8, <1>9
    <3>2. CASE ~finished
      BY <3>2, <1>1, <1>3, <1>4, <1>5, <1>7, <1>8, <1>9
    <3> QED BY <3>1, <3>2
  <2> HIDE DEF left
  <2> DEFINE a == alone + p21 + p31 + (IF flatter THEN 0 ELSE left)
             b == p22 + p32 + (IF flatter THEN left ELSE 0)
             c == p33
  <2>4. Spread(o, first, second, third).shares = <<a, b, c>>
    BY <1>11 DEF Spread, rest1, rest2, alone, finished, epsilon, volume2, volume3, level2, left,
                 p21, p22, p31, p32, p33
  <2>5. a \in Nat /\ b \in Nat /\ c \in Nat /\ a + b + c <= n
    BY <1>1, <1>4, <1>5, <1>7, <1>8, <1>9, <2>1, <2>2, <2>3
  <2> QED BY <1>1, <2>4, <2>5, ThreeShares
<1> QED BY <1>10, <1>11

----------------------------------------------------------------------------
PriceMap == [Pools -> Nat]
IsHops(h) == h \in Seq(Pools) /\ Len(h) \in {1, 2}

LEMMA HopsInPools ==
  ASSUME NEW h, IsHops(h)
  PROVE  h[1] \in Pools /\ (Len(h) # 1 => h[2] \in Pools)
BY DEF IsHops

LEMMA PricesAreNat ==
  ASSUME NEW h, IsHops(h), NEW prices \in PriceMap
  PROVE  /\ SpotPrice(h, prices) \in Nat
         /\ Len(h) = 1 => prices[h[1]] \in Nat
         /\ Len(h) # 1 => (prices[h[1]] * prices[h[2]]) \div X96 \in Nat
<1> DEFINE hop(p) == IF p \in Balancer THEN 0 ELSE prices[p]
<1>1. \A p \in Pools : hop(p) \in Nat /\ prices[p] \in Nat
  BY DEF PriceMap
<1> HIDE DEF hop
<1>2. CASE Len(h) = 1
  <2>1. SpotPrice(h, prices) = hop(h[1])
    BY <1>2 DEF SpotPrice, hop
  <2> QED BY <1>1, <1>2, <2>1, HopsInPools
<1>3. CASE Len(h) # 1
  <2>1. SpotPrice(h, prices) = (hop(h[1]) * hop(h[2])) \div X96
    BY <1>3 DEF SpotPrice, hop
  <2>2. hop(h[1]) * hop(h[2]) \in Nat /\ prices[h[1]] * prices[h[2]] \in Nat
    BY <1>1, <1>3, HopsInPools
  <2> QED BY <1>3, <2>1, <2>2, Quotient, PlaceOrderConstants
<1> QED BY <1>2, <1>3

LEMMA SeqElement ==
  ASSUME NEW S, NEW s \in Seq(S), NEW i \in DOMAIN s
  PROVE  s[i] \in S
OBVIOUS

LEMMA ShiftIsInt ==
  ASSUME NEW o, OrderOK(o), NEW i \in DOMAIN o.orders, NEW prices \in PriceMap
  PROVE  MarketAdverseShift(o, i, prices) \in Int
<1> DEFINE spot == SpotPrice(o.orders[i].hops, prices)
<1>1. IsHops(o.orders[i].hops) /\ o.price \in Nat
  <2>1. o \in Orders /\ Len(o.orders[i].hops) \in {1, 2}
    BY DEF OrderOK
  <2>2. o.orders \in Seq([hops : Seq(Pools), slip : Nat \ {0}]) /\ o.price \in Nat
    BY <2>1 DEF Orders
  <2>3. o.orders[i] \in [hops : Seq(Pools), slip : Nat \ {0}]
    BY <2>2, SeqElement
  <2> QED BY <2>1, <2>2, <2>3 DEF IsHops
<1>2. spot \in Nat
  BY <1>1, PricesAreNat
<1> HIDE DEF spot
<1>3. CASE spot = 0
  BY <1>3 DEF MarketAdverseShift, spot
<1>4. CASE spot # 0
  <2>1. (o.price * X96) \div spot \in Nat
    BY <1>1, <1>2, <1>4, Quotient, PlaceOrderConstants
  <2> QED BY <1>4, <2>1, PlaceOrderConstants DEF MarketAdverseShift, spot
<1> QED BY <1>3, <1>4

LEMMA RankIsRecord ==
  ASSUME NEW o, OrderOK(o), NEW shift \in [DOMAIN o.orders -> Int],
         NEW r \in [DOMAIN o.orders -> DOMAIN o.orders], NEW k \in 1..3
  PROVE  Rank(o, shift, r, k) \in RankRecords
<1>1. CASE k \notin DOMAIN r
  BY <1>1 DEF Rank, NoRank, RankRecords
<1>2. CASE k \in DOMAIN r
  <2>1. r[k] \in DOMAIN o.orders
    BY <1>2
  <2>2. o.orders[r[k]].slip \in Nat \ {0}
    <3>1. o.orders \in Seq([hops : Seq(Pools), slip : Nat \ {0}])
      BY DEF OrderOK, Orders
    <3>2. o.orders[r[k]] \in [hops : Seq(Pools), slip : Nat \ {0}]
      BY <2>1, <3>1, SeqElement
    <3> QED BY <3>2
  <2>3. ReverseSlippageRate(o.orders[r[k]]) \in Nat
    BY <2>2, Quotient, PlaceOrderConstants DEF ReverseSlippageRate
  <2>4. SlippageRate(o.orders[r[k]]) \in Nat
    BY <2>2, Quotient, PlaceOrderConstants DEF SlippageRate
  <2> QED BY <1>2, <2>1, <2>3, <2>4 DEF Rank, RankRecords
<1> QED BY <1>1, <1>2

(* One route alone never gets more than the order.                         *)
LEMMA AloneFits ==
  ASSUME NEW o, OrderOK(o), NEW first \in RankRecords
  PROVE  Alone(o, first) \in 0..o.reference
<1>1. Capacity(CutoffThreshold, first.shift, first.rate, o.reference) \in 0..o.reference
  BY CapacityBounds, CutoffIsInt DEF OrderOK, Orders, RankRecords
<1>2. o.reference \in Nat
  BY DEF OrderOK, Orders
<1> QED BY <1>1, <1>2 DEF Alone

LEMMA OneShare ==
  ASSUME NEW n \in Nat, NEW a \in 0..n
  PROVE  Within(Shares(a).shares, n)
BY ThreeShares DEF Shares

(* Every way through getInputData keeps within the order.                  *)
LEMMA NotionalsFit ==
  ASSUME NEW o, OrderOK(o), NEW shift \in [DOMAIN o.orders -> Int], NEW priced,
         NEW r \in [DOMAIN o.orders -> DOMAIN o.orders]
  PROVE  Within(OrderNotionals(o, shift, priced, r).shares, o.reference)
<1> DEFINE rank(k) == Rank(o, shift, r, k)
<1>1. rank(1) \in RankRecords /\ rank(2) \in RankRecords /\ rank(3) \in RankRecords
  BY RankIsRecord
<1>2. o \in Orders /\ o.reference \in Nat /\ o.minRate >= 10
  BY DEF OrderOK, Orders
<1> HIDE DEF rank
<1>3. Within(Shares(o.reference).shares, o.reference)
  BY <1>2, OneShare
<1>4. Within(Shares(Alone(o, rank(1))).shares, o.reference)
  BY <1>1, <1>2, AloneFits, OneShare
<1>5. Within(Shares(0).shares, o.reference)
  BY <1>2, OneShare
<1>6. Within(Spread(o, rank(1), rank(2), rank(3)).shares, o.reference)
  BY <1>1, <1>2, SpreadFits
<1>7. Within(SortOrders(o, rank(1), rank(2), rank(3)).shares, o.reference)
  BY <1>4, <1>5, <1>6 DEF SortOrders
<1> QED BY <1>3, <1>4, <1>7 DEF OrderNotionals, rank

----------------------------------------------------------------------------
IInv == TypeOK /\ NeverOverspends

LEMMA InitIsInv == Init => IInv
<1> SUFFICES ASSUME Init PROVE IInv
  OBVIOUS
<1>1. price \in [Pools -> Nat]
  BY RoutedOrderConstants DEF Init
<1> QED BY <1>1 DEF Init, IInv, TypeOK, NeverOverspends, Called

LEMMA MoveKeepsInv ==
  ASSUME IInv, NEW p \in Pools, Move(p)
  PROVE  IInv'
<1>1. price' \in [Pools -> Nat]
  BY RoutedOrderConstants DEF Move, IInv, TypeOK
<1> QED BY <1>1 DEF Move, IInv, TypeOK, NeverOverspends, Called, OrderOK, Orders

LEMMA QuoteIsNat ==
  ASSUME price \in PriceMap, NEW i \in DOMAIN Routes
  PROVE  /\ IsHops(Routes[i])
         /\ QuotedPrice(Routes[i]) \in Nat
         /\ RouteSlip(Routes[i]) \in Nat \ {0}
<1>1. IsHops(Routes[i])
  BY RoutedOrderConstants DEF IsHops
<1>2. QuotedPrice(Routes[i]) \in Nat
  BY <1>1, PricesAreNat DEF QuotedPrice
<1>3. RouteSlip(Routes[i]) \in Nat \ {0}
  BY <1>1, HopsInPools, RoutedOrderConstants DEF RouteSlip
<1> QED BY <1>1, <1>2, <1>3

(* What can be asked about is an order of at least one notional.           *)
LEMMA EncodeHasNotionals ==
  ASSUME NEW i \in DOMAIN Routes, NEW d \in 0..MaxDiff, Encode(i, d)
  PROVE  d >= 1
<1>1. Askable(MinOrderSizeRate(d)) /\ d \in Nat
  BY RoutedOrderConstants DEF Encode
<1> QED BY <1>1 DEF Askable, MinOrderSizeRate

LEMMA EncodeKeepsInv ==
  ASSUME IInv, NEW i \in DOMAIN Routes, NEW d \in 0..MaxDiff, Encode(i, d)
  PROVE  IInv'
<1> DEFINE passing == Passing(i, d * Notional)
<1> DEFINE quote(n, kept) ==
      [reference |-> d * Notional,
       minRate   |-> MinOrderSizeRate(d),
       price     |-> QuotedPrice(Routes[i]),
       orders    |-> [k \in 1..n |-> [hops |-> Routes[kept[k]],
                                      slip |-> RouteSlip(Routes[kept[k]])]],
       quoted    |-> price]
<1>0. PICK n \in 1..MaxRoutes : \E kept \in [1..n -> passing] : order' = quote(n, kept)
  BY DEF Encode
<1>1. PICK kept \in [1..n -> passing] : order' = quote(n, kept)
  BY <1>0
<1>2. price \in PriceMap
  BY DEF IInv, TypeOK, PriceMap
<1>3. \A k \in 1..n : kept[k] \in DOMAIN Routes
  BY DEF Passing
<1> HIDE DEF passing
<1>4. \A k \in 1..n : /\ IsHops(Routes[kept[k]])
                       /\ RouteSlip(Routes[kept[k]]) \in Nat \ {0}
  BY <1>2, <1>3, QuoteIsNat
<1>5. d \in Nat /\ d >= 1 /\ d * Notional \in Nat
  BY RoutedOrderConstants, EncodeHasNotionals
<1>6. MinOrderSizeRate(d) \in Nat /\ MinOrderSizeRate(d) >= 10
  BY <1>5 DEF MinOrderSizeRate
<1>7. QuotedPrice(Routes[i]) \in Nat
  BY <1>2, QuoteIsNat
<1> DEFINE list == [k \in 1..n |-> [hops |-> Routes[kept[k]],
                                    slip |-> RouteSlip(Routes[kept[k]])]]
<1>8. /\ list \in Seq([hops : Seq(Pools), slip : Nat \ {0}])
      /\ Len(list) = n /\ DOMAIN list = 1..n
      /\ \A k \in 1..n : Len(list[k].hops) \in {1, 2}
  BY <1>4 DEF MaxRoutes, IsHops
<1> HIDE DEF list
<1>9. order' = [reference |-> d * Notional, minRate |-> MinOrderSizeRate(d),
                price |-> QuotedPrice(Routes[i]), orders |-> list, quoted |-> price]
  BY <1>1 DEF list
<1>10. OrderOK(order')
  BY <1>2, <1>5, <1>6, <1>7, <1>8, <1>9 DEF OrderOK, Orders, PriceMap
<1> QED BY <1>2, <1>10 DEF Encode, IInv, TypeOK, OrderOK, NeverOverspends, Called, PriceMap

LEMMA SoldFits ==
  ASSUME NEW o, NEW share \in Nat
  PROVE  Sold(o, share) \in Nat /\ Sold(o, share) <= share
BY DEF Sold

LEMMA FunctionIsSeq ==
  ASSUME NEW n \in Nat, NEW S, NEW f \in [1..n -> S]
  PROVE  f \in Seq(S)
OBVIOUS

LEMMA CallKeepsInv ==
  ASSUME IInv, NEW paid \in BOOLEAN, placeOrderCall(paid)
  PROVE  IInv'
<1> DEFINE routes == DOMAIN order.orders
           shift  == [i \in routes |-> MarketAdverseShift(order, i, price)]
           priced == [i \in routes |-> SpotPrice(order.orders[i].hops, price) # 0]
           split(r) == OrderNotionals(order, shift, priced, r)
           sold(r)  == [k \in 1..MaxRoutes |-> Sold(order, split(r).shares[k])]
           spent(r) == sold(r)[1] + sold(r)[2] + sold(r)[3]
<1>1. order # NoOrder /\ OrderOK(order) /\ price \in PriceMap /\ price' = price /\ order' = NoOrder
  BY DEF placeOrderCall, IInv, TypeOK, PriceMap
<1>2. PICK r \in [routes -> routes] :
        call' = [order  |-> order,
                 route  |-> r,
                 shift  |-> [k \in routes |-> shift[r[k]]],
                 priced |-> [k \in routes |-> priced[r[k]]],
                 green  |-> GreenLit(order, shift, priced),
                 shares |-> split(r).shares,
                 spent  |-> spent(r),
                 moved  |-> price # order.quoted,
                 done   |-> IF split(r).panic THEN "reverted"
                            ELSE IF spent(r) = 0 THEN "braked"
                            ELSE IF paid THEN "traded" ELSE "reverted"]
  BY DEF placeOrderCall
<1>3. shift \in [routes -> Int]
  BY <1>1, ShiftIsInt
<1>4. priced \in [routes -> BOOLEAN]
  OBVIOUS
<1>5. PICK n \in 1..MaxRoutes : routes = 1..n /\ order \in Orders
  BY <1>1 DEF OrderOK, Orders
<1> HIDE DEF shift, priced
<1>6. Within(split(r).shares, order.reference)
  BY <1>1, <1>3, NotionalsFit
<1> HIDE DEF split
<1>7. /\ split(r).shares \in [1..MaxRoutes -> Nat]
      /\ split(r).shares[1] + split(r).shares[2] + split(r).shares[3] <= order.reference
  BY <1>6 DEF Within
<1>8. /\ spent(r) \in Nat
      /\ spent(r) <= split(r).shares[1] + split(r).shares[2] + split(r).shares[3]
  <2>1. \A k \in 1..MaxRoutes : sold(r)[k] \in Nat /\ sold(r)[k] <= split(r).shares[k]
    BY <1>7, SoldFits
  <2> HIDE DEF sold
  <2> QED BY <1>7, <2>1 DEF MaxRoutes
<1> HIDE DEF spent, sold
<1>9. GreenLit(order, shift, priced) \in BOOLEAN
  BY DEF GreenLit
<1>10. /\ r \in Seq(1..MaxRoutes)
       /\ [k \in routes |-> shift[r[k]]] \in Seq(Int)
       /\ [k \in routes |-> priced[r[k]]] \in Seq(BOOLEAN)
  <2>1. n \in Nat /\ r \in [1..n -> 1..n] /\ 1..n \subseteq 1..MaxRoutes
    BY <1>5 DEF MaxRoutes
  <2>2. r \in [1..n -> 1..MaxRoutes]
    BY <2>1
  <2>3. [k \in routes |-> shift[r[k]]] \in [1..n -> Int]
    BY <1>3, <1>5, <2>1
  <2>4. [k \in routes |-> priced[r[k]]] \in [1..n -> BOOLEAN]
    BY <1>4, <1>5, <2>1
  <2> QED BY <2>1, <2>2, <2>3, <2>4, FunctionIsSeq
<1> HIDE DEF routes
<1>11. call' \in Calls
  BY <1>2, <1>5, <1>7, <1>8, <1>9, <1>10 DEF Calls
<1>12. TypeOK'
  BY <1>1, <1>11 DEF TypeOK, PriceMap
<1>13. NeverOverspends'
  BY <1>2, <1>7, <1>8 DEF NeverOverspends, Total
<1> QED BY <1>12, <1>13 DEF IInv

LEMMA NextKeepsInv == IInv /\ [Next]_vars => IInv'
<1> SUFFICES ASSUME IInv, [Next]_vars PROVE IInv'
  OBVIOUS
<1>1. CASE \E p \in Pools : Move(p)
  BY <1>1, MoveKeepsInv
<1>2. CASE \E i \in DOMAIN Routes, d \in 0..MaxDiff : Encode(i, d)
  BY <1>2, EncodeKeepsInv
<1>3. CASE \E paid \in BOOLEAN : placeOrderCall(paid)
  BY <1>3, CallKeepsInv
<1>4. CASE UNCHANGED vars
  BY <1>4 DEF vars, IInv, TypeOK, NeverOverspends, Called, Total, OrderOK
<1> QED BY <1>1, <1>2, <1>3, <1>4 DEF Next

(* Orders and calls are well formed, and the smallest order of each is at  *)
(* most a tenth of it, as the split needs (PlaceOrder.sol:60, 281).        *)
THEOREM RoutedTypeCorrect == Spec => []TypeOK
<1> QED BY InitIsInv, NextKeepsInv, PTL DEF Spec, IInv

(* However the pools move between quote and execution, PlaceOrder.sol      *)
(* never sells more than the order it was given.                           *)
THEOREM OrderIsTheLimit == Spec => []NeverOverspends
<1> QED BY InitIsInv, NextKeepsInv, PTL DEF Spec, IInv

----------------------------------------------------------------------------
(* Where the routes stop: beyond the cutoff.                               *)
LEMMA QuotientSign ==
  ASSUME NEW a \in Int, NEW d \in Nat \ {0}, a <= 0
  PROVE  a \div d <= 0
OBVIOUS

LEMMA AloneStops ==
  ASSUME NEW o, OrderOK(o), NEW first \in RankRecords, first.shift > CutoffThreshold
  PROVE  Alone(o, first) = 0
<1> DEFINE depth  == (CutoffThreshold - first.shift) \div X96
           volume == (depth * first.rate) \div 2
<1>1. first.shift \in Int /\ first.rate \in Nat /\ o.reference \in Nat
  BY DEF RankRecords, OrderOK, Orders
<1>2. depth \in Int /\ depth <= 0
  <2>1. CutoffThreshold - first.shift \in Int /\ CutoffThreshold - first.shift <= 0
    BY <1>1, CutoffIsInt
  <2> QED BY <2>1, FloorIsInt, QuotientSign, PlaceOrderConstants
<1> HIDE DEF depth
<1>3. volume \in Int /\ volume <= 0
  BY <1>1, <1>2, FloorIsInt, QuotientSign
<1> HIDE DEF volume
<1>4. Capacity(CutoffThreshold, first.shift, first.rate, o.reference)
        = IF volume > o.reference THEN o.reference ELSE IF volume < 0 THEN 0 ELSE volume
  BY DEF Capacity, volume, depth
<1>5. Capacity(CutoffThreshold, first.shift, first.rate, o.reference) = 0
  BY <1>1, <1>3, <1>4
<1> QED BY <1>5 DEF Alone

LEMMA SpreadStops ==
  ASSUME NEW o, NEW first, NEW second, NEW third, ~(third.shift <= CutoffThreshold)
  PROVE  Spread(o, first, second, third).shares[3] = 0
BY DEF Spread, Part, NoShares

LEMMA NotionalsStop ==
  ASSUME NEW o, OrderOK(o), NEW shift \in [DOMAIN o.orders -> Int], NEW priced,
         NEW r \in [DOMAIN o.orders -> DOMAIN o.orders],
         ~GreenLit(o, shift, priced),
         NEW k \in DOMAIN o.orders, shift[r[k]] > CutoffThreshold
  PROVE  OrderNotionals(o, shift, priced, r).shares[k] = 0
<1> DEFINE rank(i) == Rank(o, shift, r, i)
<1>1. DOMAIN o.orders = 1..Len(o.orders) /\ Len(o.orders) \in 1..3
  BY DEF OrderOK, Orders, MaxRoutes
<1>2. rank(1) \in RankRecords /\ rank(2) \in RankRecords /\ rank(3) \in RankRecords
  BY RankIsRecord
<1>3. rank(k).shift > CutoffThreshold
  BY DEF Rank
<1> HIDE DEF rank
<1>4. CASE Len(o.orders) = 1
  <2>1. k = 1
    BY <1>1, <1>4
  <2>2. OrderNotionals(o, shift, priced, r) = Shares(Alone(o, rank(1)))
    BY <1>4 DEF OrderNotionals, rank
  <2> QED BY <1>2, <1>3, <2>1, <2>2, AloneStops DEF Shares
<1>5. CASE Len(o.orders) # 1
  <2>1. OrderNotionals(o, shift, priced, r) = SortOrders(o, rank(1), rank(2), rank(3))
    BY <1>5 DEF OrderNotionals, rank
  <2>2. CASE k = 1
    BY <1>3, <2>1, <2>2 DEF SortOrders, Shares
  <2>3. CASE k = 2
    BY <1>3, <2>1, <2>3 DEF SortOrders, Shares
  <2>4. CASE k = 3
    <3>1. ~(rank(3).shift <= CutoffThreshold)
      BY <1>2, <1>3, <2>4, CutoffIsInt DEF RankRecords
    <3>2. Spread(o, rank(1), rank(2), rank(3)).shares[3] = 0
      BY <3>1, SpreadStops
    <3> QED BY <2>1, <2>4, <3>2 DEF SortOrders, Shares
  <2>5. k \in {1, 2, 3}
    <3>1. k \in 1..Len(o.orders) /\ Len(o.orders) \in {1, 2, 3}
      BY <1>1
    <3> QED BY <3>1
  <2> QED BY <2>2, <2>3, <2>4, <2>5
<1> QED BY <1>4, <1>5

(* The first route, taken whole, is within the smaller threshold.          *)
LEMMA GreenIsNear ==
  ASSUME NEW o, OrderOK(o), NEW shift \in [DOMAIN o.orders -> Int], NEW priced,
         GreenLit(o, shift, priced)
  PROVE  shift[1] <= CutoffThreshold
<1> DEFINE slide == SlippageRate(o.orders[1]) * o.reference
<1>1. 1 \in DOMAIN o.orders /\ o.reference \in Nat /\ shift[1] \in Int
  BY DEF OrderOK, Orders, MaxRoutes
<1>2. o.orders[1] \in [hops : Seq(Pools), slip : Nat \ {0}]
  <2>1. o.orders \in Seq([hops : Seq(Pools), slip : Nat \ {0}])
    BY DEF OrderOK, Orders
  <2> QED BY <1>1, <2>1, SeqElement
<1>3. SlippageRate(o.orders[1]) \in Nat
  BY <1>2, Quotient, PlaceOrderConstants DEF SlippageRate
<1>4. slide \in Nat
  BY <1>1, <1>3
<1> HIDE DEF slide
<1>5. shift[1] + slide < GreenThreshold
  BY DEF GreenLit, slide
<1>6. GreenThreshold \in Nat /\ CutoffThreshold \in Nat /\ GreenThreshold <= CutoffThreshold
  BY PlaceOrderConstants DEF GreenThreshold, CutoffThreshold
<1> QED BY <1>1, <1>4, <1>5, <1>6

LEMMA CallStops ==
  ASSUME IInv, NEW paid \in BOOLEAN, placeOrderCall(paid)
  PROVE  BeyondCutoffUntouched'
<1> DEFINE routes == DOMAIN order.orders
           shift  == [i \in routes |-> MarketAdverseShift(order, i, price)]
           priced == [i \in routes |-> SpotPrice(order.orders[i].hops, price) # 0]
           split(r) == OrderNotionals(order, shift, priced, r)
           sold(r)  == [k \in 1..MaxRoutes |-> Sold(order, split(r).shares[k])]
           spent(r) == sold(r)[1] + sold(r)[2] + sold(r)[3]
<1>1. OrderOK(order) /\ price \in PriceMap
  BY DEF placeOrderCall, IInv, TypeOK, PriceMap
<1>2. PICK r \in [routes -> routes] :
        /\ Ranking(order, shift, priced, r)
        /\ call' = [order  |-> order,
                    route  |-> r,
                    shift  |-> [k \in routes |-> shift[r[k]]],
                    priced |-> [k \in routes |-> priced[r[k]]],
                    green  |-> GreenLit(order, shift, priced),
                    shares |-> split(r).shares,
                    spent  |-> spent(r),
                    moved  |-> price # order.quoted,
                    done   |-> IF split(r).panic THEN "reverted"
                               ELSE IF spent(r) = 0 THEN "braked"
                               ELSE IF paid THEN "traded" ELSE "reverted"]
  BY DEF placeOrderCall
<1>3. shift \in [routes -> Int]
  <2>1. \A i \in routes : MarketAdverseShift(order, i, price) \in Int
    BY <1>1, ShiftIsInt
  <2> QED BY <2>1
<1>4. routes = 1..Len(order.orders) /\ Len(order.orders) \in 1..3
  BY <1>1 DEF OrderOK, Orders, MaxRoutes
<1> HIDE DEF shift, priced, spent
<1>5. /\ call'.route = r /\ call'.shift = [k \in routes |-> shift[r[k]]]
      /\ call'.shares = split(r).shares
  BY <1>2
<1> SUFFICES ASSUME NEW k \in routes, shift[r[k]] > CutoffThreshold
             PROVE  split(r).shares[k] = 0
  BY <1>5 DEF BeyondCutoffUntouched
<1>6. CASE GreenLit(order, shift, priced)
  <2>1. r[k] = k
    BY <1>6, <1>2 DEF Ranking
  <2>2. shift[1] <= CutoffThreshold
    BY <1>1, <1>3, <1>6, GreenIsNear
  <2>3. k # 1
    <3>1. shift[k] > CutoffThreshold /\ shift[k] \in Int
      BY <1>3, <2>1
    <3> QED BY <2>2, <3>1, CutoffIsInt
  <2>4. split(r) = Shares(order.reference)
    BY <1>6 DEF OrderNotionals
  <2>5. k \in {2, 3}
    <3>1. k \in 1..Len(order.orders) /\ Len(order.orders) \in {1, 2, 3}
      BY <1>4
    <3> QED BY <2>3, <3>1
  <2> HIDE DEF split
  <2>6. split(r).shares = <<order.reference, 0, 0>>
    BY <2>4 DEF Shares
  <2> QED BY <2>5, <2>6
<1>7. CASE ~GreenLit(order, shift, priced)
  BY <1>1, <1>2, <1>3, <1>7, NotionalsStop
<1> QED BY <1>6, <1>7

LEMMA NextStops ==
  IInv /\ BeyondCutoffUntouched /\ [Next]_vars => BeyondCutoffUntouched'
<1> SUFFICES ASSUME IInv, BeyondCutoffUntouched, [Next]_vars PROVE BeyondCutoffUntouched'
  OBVIOUS
<1>1. ASSUME call' = NoCall PROVE BeyondCutoffUntouched'
  BY <1>1 DEF BeyondCutoffUntouched, Called
<1>2. CASE \E p \in Pools : Move(p)
  BY <1>1, <1>2 DEF Move
<1>3. CASE \E i \in DOMAIN Routes, d \in 0..MaxDiff : Encode(i, d)
  BY <1>1, <1>3 DEF Encode
<1>4. CASE \E paid \in BOOLEAN : placeOrderCall(paid)
  BY <1>4, CallStops
<1>5. CASE UNCHANGED vars
  BY <1>5 DEF vars, BeyondCutoffUntouched, Called
<1> QED BY <1>2, <1>3, <1>4, <1>5 DEF Next

(* A route that has become worse than the cutoff since the quote gets      *)
(* nothing, in any of the ranges, and no leftover.                         *)
THEOREM CutoffRoutesUntouched == Spec => []BeyondCutoffUntouched
<1>1. Init => BeyondCutoffUntouched
  BY DEF Init, BeyondCutoffUntouched, Called
<1> QED BY <1>1, InitIsInv, NextKeepsInv, NextStops, PTL DEF Spec

-----------------------------------------------------------------------------
(* What the divisions lose: never more than a unit each.                   *)
LEMMA Half ==
  ASSUME NEW x \in Int
  PROVE  x \div 2 \in Int /\ 2 * (x \div 2) <= x /\ 2 * (x \div 2) >= x - 1
OBVIOUS

LEMMA FloorBounds ==
  ASSUME NEW x \in Int, NEW d \in Nat \ {0}
  PROVE  x \div d \in Int /\ (x \div d) * d <= x /\ x < (x \div d) * d + d
OBVIOUS

LEMMA FactorLess ==
  ASSUME NEW x \in Int, NEW y \in Int, NEW d \in Nat \ {0}, x * d < y * d
  PROVE  x < y
OBVIOUS

(* The way between two shifts is no longer than its parts, once what the   *)
(* divisions lose is taken off.                                            *)
LEMMA TwoWays ==
  ASSUME NEW a \in Int, NEW b \in Int, NEW c \in Int, NEW d \in Nat \ {0}
  PROVE  (c - d - a) \div d <= (b - a) \div d + (c - b) \div d
<1> DEFINE p == (b - a) \div d
           q == (c - b) \div d
           e == (c - d - a) \div d
<1>1. p \in Int /\ b - a < p * d + d
  BY FloorBounds
<1>2. q \in Int /\ c - b < q * d + d
  BY FloorBounds
<1>3. e \in Int /\ e * d <= c - d - a
  BY FloorBounds
<1> HIDE DEF p, q, e
<1>4. e * d < p * d + q * d + d
  BY <1>1, <1>2, <1>3
<1>5. e * d < (p + q + 1) * d
  BY <1>1, <1>2, <1>4
<1>6. e < p + q + 1
  BY <1>1, <1>2, <1>3, <1>5, FactorLess
<1> QED BY <1>1, <1>2, <1>3, <1>6 DEF p, q, e

LEMMA FloorGrows ==
  ASSUME NEW a \in Int, NEW b \in Int, NEW d \in Nat \ {0}, a <= b
  PROVE  a \div d <= b \div d
<1> DEFINE p == a \div d
           q == b \div d
<1>1. p \in Int /\ q \in Int /\ p * d <= a /\ b < q * d + d
  BY FloorBounds
<1> HIDE DEF p, q
<1>2. p * d < (q + 1) * d
  BY <1>1
<1>3. p < q + 1
  BY <1>1, <1>2, FactorLess
<1> QED BY <1>1, <1>3 DEF p, q

(* What Capacity is, when it is less than what remains.                    *)
LEMMA CapacityIs ==
  ASSUME NEW level \in Int, NEW shift \in Int, NEW rate \in Nat, NEW remaining \in Nat
  PROVE  LET cap   == Capacity(level, shift, rate, remaining)
             depth == (level - shift) \div X96
         IN  /\ cap \in 0..remaining /\ depth \in Int
             /\ cap < remaining => 2 * cap >= depth * rate - 1
             /\ 2 * cap <= depth * rate \/ cap = 0
<1> DEFINE depth == (level - shift) \div X96
           volume == (depth * rate) \div 2
<1>1. depth \in Int
  BY FloorIsInt, PlaceOrderConstants
<1> HIDE DEF depth
<1>2. depth * rate \in Int
  BY <1>1
<1>3. volume \in Int /\ 2 * volume <= depth * rate /\ 2 * volume >= depth * rate - 1
  BY <1>2, Half
<1>4. Capacity(level, shift, rate, remaining)
        = IF volume > remaining THEN remaining ELSE IF volume < 0 THEN 0 ELSE volume
  BY DEF Capacity, depth
<1> HIDE DEF volume
<1> QED BY <1>1, <1>2, <1>3, <1>4 DEF depth

LEMMA CapacityGrows ==
  ASSUME NEW low \in Int, NEW level \in Int, NEW shift \in Int, NEW rate \in Nat,
         NEW remaining \in Nat, low <= level
  PROVE  Capacity(low, shift, rate, remaining) <= Capacity(level, shift, rate, remaining)
<1> DEFINE d == (low - shift) \div X96
           e == (level - shift) \div X96
           v == (d * rate) \div 2
           w == (e * rate) \div 2
<1>1. d \in Int /\ e \in Int /\ d <= e
  BY FloorIsInt, FloorGrows, PlaceOrderConstants
<1> HIDE DEF d, e
<1>2. d * rate \in Int /\ e * rate \in Int /\ d * rate <= e * rate
  BY <1>1
<1>3. v \in Int /\ w \in Int /\ v <= w
  BY <1>2, FloorGrows, Half
<1>4. /\ Capacity(low, shift, rate, remaining)
          = IF v > remaining THEN remaining ELSE IF v < 0 THEN 0 ELSE v
      /\ Capacity(level, shift, rate, remaining)
          = IF w > remaining THEN remaining ELSE IF w < 0 THEN 0 ELSE w
  BY DEF Capacity, d, e
<1> HIDE DEF v, w
<1> QED BY <1>3, <1>4

(* The part of a range that one route sells: not a unit less than its own  *)
(* rate allows.                                                            *)
LEMMA PartOfDepth ==
  ASSUME NEW v \in Nat, NEW d \in Int, NEW r \in Nat, NEW t \in Nat \ {0}, r <= t,
         2 * v >= d * t - 1
  PROVE  2 * ((v * r) \div t) + 2 >= d * r
<1> DEFINE q == (v * r) \div t
<1>1. v * r \in Int
  OBVIOUS
<1>2. q \in Int /\ v * r < q * t + t
  BY <1>1, FloorBounds
<1> HIDE DEF q
<1>3. (2 * v) * r >= (d * t - 1) * r
  <2>1. d * t - 1 \in Int
    OBVIOUS
  <2> DEFINE x == d * t - 1
  <2>2. x \in Int /\ 2 * v >= x
    BY <2>1
  <2> HIDE DEF x
  <2>3. (2 * v) * r >= x * r
    BY <2>2
  <2> QED BY <2>3 DEF x
<1>4. (2 * v) * r = 2 * (v * r)
  OBVIOUS
<1>5. (d * t - 1) * r = (d * r) * t - r
  OBVIOUS
<1>6. (d * r) * t - r < 2 * (q * t) + 2 * t
  <2> DEFINE y == (d * r) * t - r
  <2>1. y \in Int /\ (d * t - 1) * r = y
    BY <1>5
  <2>2. q * t \in Int
    BY <1>2
  <2> HIDE DEF y
  <2> QED BY <1>1, <1>2, <1>3, <1>4, <2>1, <2>2 DEF y
<1>7. (d * r) * t < (2 * q + 3) * t
  <2>1. (2 * q + 3) * t = 2 * (q * t) + 3 * t
    BY <1>2
  <2>2. (d * r) * t \in Int /\ q * t \in Int
    BY <1>2
  <2> QED BY <1>6, <2>1, <2>2
<1>8. d * r \in Int /\ 2 * q + 3 \in Int
  BY <1>2
<1>9. d * r < 2 * q + 3
  BY <1>7, <1>8, FactorLess
<1> QED BY <1>2, <1>8, <1>9 DEF q

(* All the parts of a range are the range, but for a unit each.            *)
LEMMA PartsFill ==
  ASSUME NEW v \in Nat, NEW a \in Nat, NEW b \in Nat, NEW c \in Nat, a + b + c # 0
  PROVE  LET q(x) == (v * x) \div (a + b + c)
         IN  /\ q(a) + q(b) + q(c) >= v - 2
             /\ c = 0 => q(a) + q(b) >= v - 1
<1> DEFINE t == a + b + c
           q(x) == (v * x) \div t
<1>1. t \in Nat \ {0}
  OBVIOUS
<1>2. v * a \in Int /\ v * b \in Int /\ v * c \in Int
  OBVIOUS
<1>3. /\ q(a) \in Int /\ v * a < q(a) * t + t
      /\ q(b) \in Int /\ v * b < q(b) * t + t
      /\ q(c) \in Int /\ v * c < q(c) * t + t
  BY <1>1, <1>2, FloorBounds
<1>4. v * a + v * b + v * c = v * t
  OBVIOUS
<1> SUFFICES /\ q(a) + q(b) + q(c) >= v - 2
             /\ c = 0 => q(a) + q(b) >= v - 1
  OBVIOUS
<1> HIDE DEF t, q
<1>5. v < q(a) + q(b) + q(c) + 3
  <2>1. v * t < (q(a) + q(b) + q(c) + 3) * t
    BY <1>1, <1>2, <1>3, <1>4
  <2> QED BY <1>1, <1>3, <2>1, FactorLess
<1>6. ASSUME c = 0 PROVE v < q(a) + q(b) + 2
  <2>1. v * a + v * b = v * t
    BY <1>4, <1>6
  <2>2. v * t < (q(a) + q(b) + 2) * t
    BY <1>1, <1>2, <1>3, <2>1
  <2> QED BY <1>1, <1>3, <2>2, FactorLess
<1> QED BY <1>3, <1>5, <1>6

-----------------------------------------------------------------------------
(* The three ranges of a split: what the best route sells alone, what two  *)
(* and what three sell.  Either the first range is about the order, or the *)
(* others are what Capacity gives of what remains.                         *)
Ranges(o, first, second, third, alone, volume2, volume3) ==
  LET rate2  == first.rate + second.rate
      three  == third.shift <= CutoffThreshold
      level2 == IF three THEN third.shift ELSE CutoffThreshold
      rest1  == o.reference - alone
  IN  /\ alone = Capacity(second.shift, first.shift, first.rate, o.reference)
      /\ \/ volume2 = 0 /\ volume3 = 0 /\ rest1 <= o.reference \div 10
         \/ /\ rate2 # 0 /\ rest1 > 0
            /\ volume2 = Capacity(level2, second.shift, rate2, rest1)
            /\ IF three /\ rest1 - volume2 > o.reference \div 10
               THEN volume3 = Capacity(CutoffThreshold, third.shift, rate2 + third.rate,
                                       rest1 - volume2)
               ELSE volume3 = 0

(* What the ranks get of the ranges, and the leftover of one of them.      *)
Split(first, second, third, alone, volume2, volume3, left, flatter) ==
  LET rate2 == first.rate + second.rate
      rate3 == rate2 + third.rate
  IN  <<alone + Part(volume2, first, rate2) + Part(volume3, first, rate3)
          + (IF flatter THEN 0 ELSE left),
        Part(volume2, second, rate2) + Part(volume3, second, rate3)
          + (IF flatter THEN left ELSE 0),
        Part(volume3, third, rate3)>>

LEMMA SpreadIsSplit ==
  ASSUME NEW o \in Orders, o.minRate >= 10,
         NEW first \in RankRecords, NEW second \in RankRecords, NEW third \in RankRecords,
         ~Spread(o, first, second, third).panic
  PROVE  \E alone \in Nat, volume2 \in Nat, volume3 \in Nat, left \in Nat, flatter \in BOOLEAN :
           /\ Ranges(o, first, second, third, alone, volume2, volume3)
           /\ Spread(o, first, second, third).shares
                = Split(first, second, third, alone, volume2, volume3, left, flatter)
<1> DEFINE n        == o.reference
           epsilon  == o.reference \div 10
           alone    == Capacity(second.shift, first.shift, first.rate, o.reference)
           finished == Abs(alone - o.reference) < epsilon
           rest1    == IF finished THEN o.reference ELSE o.reference - alone
           both     == ~finished /\ rest1 > epsilon
           rate2    == first.rate + second.rate
           three    == third.shift <= CutoffThreshold
           level2   == IF three THEN third.shift ELSE CutoffThreshold
           volume2  == IF both THEN Capacity(level2, second.shift, rate2, rest1) ELSE 0
           rest2    == IF three THEN rest1 - volume2 ELSE rest1
           all      == both /\ three /\ rest2 > epsilon
           rate3    == rate2 + third.rate
           volume3  == IF all THEN Capacity(CutoffThreshold, third.shift, rate3, rest2) ELSE 0
           left     == IF rest2 < MinOrderSize(o) THEN rest2 ELSE 0
           flatter  == second.slip > 0 /\ second.slip < first.slip
<1>1. n \in Nat /\ o.minRate \in Nat
  BY DEF Orders
<1>2. /\ first.shift \in Int /\ first.rate \in Nat
      /\ second.shift \in Int /\ second.rate \in Nat
      /\ third.shift \in Int /\ third.rate \in Nat
  BY DEF RankRecords
<1>3. MinOrderSize(o) \in Nat /\ epsilon \in Nat /\ epsilon <= n
  BY <1>1, SmallestWithinEpsilon DEF MinOrderSize
<1>4. alone \in 0..n
  BY <1>1, <1>2, CapacityBounds
<1>5. level2 \in Int /\ rate2 \in Nat /\ rate3 \in Nat
  BY <1>2, CutoffIsInt
<1> HIDE DEF level2
<1>6. rest1 \in Nat /\ (~finished => rest1 = n - alone)
  BY <1>1, <1>4
<1>7. both => volume2 \in 0..rest1
  BY <1>2, <1>5, <1>6, CapacityBounds
<1>8. volume2 \in Nat /\ volume2 <= rest1
  BY <1>6, <1>7
<1>9. rest2 \in Nat
  BY <1>6, <1>8
<1>10. all => volume3 \in 0..rest2
  BY <1>2, <1>5, <1>9, CutoffIsInt, CapacityBounds
<1>11. volume3 \in Nat
  BY <1>9, <1>10
<1>12. left \in Nat /\ flatter \in BOOLEAN
  BY <1>9
<1>13. ~(both /\ rate2 = 0)
  BY DEF Spread, level2
<1>14. Spread(o, first, second, third).shares
        = Split(first, second, third, alone, volume2, volume3, left, flatter)
  BY <1>13 DEF Spread, Split, level2
<1>15. Ranges(o, first, second, third, alone, volume2, volume3)
  <2>1. CASE finished
    <3>1. volume2 = 0 /\ volume3 = 0
      BY <2>1
    <3>2. n - alone <= epsilon
      <4>1. Abs(alone - n) = n - alone
        BY <1>1, <1>4 DEF Abs
      <4> QED BY <1>1, <1>3, <1>4, <2>1, <4>1
    <3> QED BY <3>1, <3>2 DEF Ranges
  <2>2. CASE ~finished /\ ~both
    <3>1. volume2 = 0 /\ volume3 = 0 /\ rest1 = n - alone /\ n - alone <= epsilon
      BY <1>1, <1>3, <1>4, <1>6, <2>2
    <3> QED BY <3>1 DEF Ranges
  <2>3. CASE both
    <3>1. rest1 = n - alone /\ rest1 > 0 /\ rate2 # 0
      BY <1>3, <1>6, <1>13, <2>3
    <3>2. volume2 = Capacity(level2, second.shift, rate2, n - alone)
      BY <2>3, <3>1
    <3>3. three => rest2 = n - alone - volume2
      BY <3>1
    <3>4. IF three /\ n - alone - volume2 > epsilon
          THEN volume3 = Capacity(CutoffThreshold, third.shift, rate3, n - alone - volume2)
          ELSE volume3 = 0
      BY <2>3, <3>3
    <3> HIDE DEF volume2, volume3, finished
    <3> QED BY <3>1, <3>2, <3>4 DEF Ranges, level2
  <2> QED BY <2>1, <2>2, <2>3
<1> HIDE DEF alone, volume2, volume3, left, flatter
<1> QED BY <1>4, <1>8, <1>11, <1>12, <1>14, <1>15

LEMMA PartIsNat ==
  ASSUME NEW rank \in RankRecords, NEW v \in Nat, NEW t \in Nat \ {0}
  PROVE  Part(v, rank, t) \in Nat
<1>1. rank.rate \in Nat
  BY DEF RankRecords
<1>2. v * rank.rate \in Nat
  BY <1>1
<1> QED BY <1>2, Quotient DEF Part

(* Each rank's share, from below, and what the shares come to.             *)
Amounts(first, second, third, alone, volume2, volume3, s) ==
  LET rate2 == first.rate + second.rate
      p21   == Part(volume2, first, rate2)
      p22   == Part(volume2, second, rate2)
  IN  /\ s[1] \in Nat /\ s[2] \in Nat /\ s[3] \in Nat
      /\ p21 \in Nat /\ p22 \in Nat
      /\ s[1] >= alone + p21
      /\ s[2] >= p22
      /\ volume3 = 0 => s[3] = 0
      /\ s[1] + s[2] + s[3] >= alone + volume2 + volume3 - 3

LEMMA SplitIsShares ==
  ASSUME NEW first \in RankRecords, NEW second \in RankRecords, NEW third \in RankRecords,
         NEW o \in Orders,
         NEW alone \in Nat, NEW volume2 \in Nat, NEW volume3 \in Nat, NEW left \in Nat,
         NEW flatter \in BOOLEAN,
         Ranges(o, first, second, third, alone, volume2, volume3)
  PROVE  Amounts(first, second, third, alone, volume2, volume3,
                 Split(first, second, third, alone, volume2, volume3, left, flatter))
<1> DEFINE rate2 == first.rate + second.rate
           rate3 == rate2 + third.rate
           p21   == Part(volume2, first, rate2)
           p22   == Part(volume2, second, rate2)
           p31   == Part(volume3, first, rate3)
           p32   == Part(volume3, second, rate3)
           p33   == Part(volume3, third, rate3)
           s     == Split(first, second, third, alone, volume2, volume3, left, flatter)
<1>1. first.rate \in Nat /\ second.rate \in Nat /\ third.rate \in Nat
  BY DEF RankRecords
<1>2. volume2 # 0 \/ volume3 # 0 => rate2 # 0
  BY DEF Ranges
<1>3. rate2 \in Nat /\ rate3 \in Nat /\ (rate2 # 0 => rate3 # 0)
  BY <1>1
<1>4. p21 \in Nat /\ p22 \in Nat /\ p21 + p22 >= volume2 - 1
  <2>1. CASE volume2 = 0
    BY <2>1 DEF Part
  <2>2. CASE volume2 # 0
    <3>1. /\ p21 = (volume2 * first.rate) \div (first.rate + second.rate + 0)
          /\ p22 = (volume2 * second.rate) \div (first.rate + second.rate + 0)
      BY <1>1, <2>2 DEF Part
    <3>2. first.rate + second.rate + 0 # 0
      BY <1>1, <1>2, <2>2
    <3>3. p21 + p22 >= volume2 - 1
      BY <1>1, <3>1, <3>2, PartsFill
    <3>4. p21 \in Nat /\ p22 \in Nat
      BY <1>1, <1>2, <1>3, <2>2, PartIsNat
    <3> QED BY <3>3, <3>4
  <2> QED BY <2>1, <2>2
<1>5. p31 \in Nat /\ p32 \in Nat /\ p33 \in Nat /\ p31 + p32 + p33 >= volume3 - 2
  <2>1. CASE volume3 = 0
    BY <2>1 DEF Part
  <2>2. CASE volume3 # 0
    <3>1. /\ p31 = (volume3 * first.rate) \div (first.rate + second.rate + third.rate)
          /\ p32 = (volume3 * second.rate) \div (first.rate + second.rate + third.rate)
          /\ p33 = (volume3 * third.rate) \div (first.rate + second.rate + third.rate)
      BY <2>2 DEF Part
    <3>2. first.rate + second.rate + third.rate # 0
      BY <1>1, <1>2, <1>3, <2>2
    <3>3. p31 + p32 + p33 >= volume3 - 2
      BY <1>1, <3>1, <3>2, PartsFill
    <3>4. p31 \in Nat /\ p32 \in Nat /\ p33 \in Nat
      BY <1>1, <1>2, <1>3, <2>2, PartIsNat
    <3> QED BY <3>3, <3>4
  <2> QED BY <2>1, <2>2
<1>6. volume3 = 0 => p33 = 0
  BY DEF Part
<1>7. /\ s[1] = alone + p21 + p31 + (IF flatter THEN 0 ELSE left)
      /\ s[2] = p22 + p32 + (IF flatter THEN left ELSE 0)
      /\ s[3] = p33
  BY DEF Split
<1> HIDE DEF s, p21, p22, p31, p32, p33
<1> DEFINE l1 == IF flatter THEN 0 ELSE left
           l2 == IF flatter THEN left ELSE 0
<1>8. l1 \in Nat /\ l2 \in Nat
  OBVIOUS
<1>9. s[1] = alone + p21 + p31 + l1 /\ s[2] = p22 + p32 + l2
  BY <1>7
<1> HIDE DEF l1, l2
<1>10. /\ s[1] \in Nat /\ s[2] \in Nat /\ s[3] \in Nat
       /\ s[1] >= alone + p21 /\ s[2] >= p22
       /\ volume3 = 0 => s[3] = 0
       /\ s[1] + s[2] + s[3] >= alone + volume2 + volume3 - 3
  BY <1>4, <1>5, <1>6, <1>7, <1>8, <1>9
<1> QED BY <1>4, <1>10 DEF Amounts, s, p21, p22

(* The part of a range that a rank sells reaches to the range's depth.     *)
LEMMA PartReaches ==
  ASSUME NEW rank \in RankRecords, NEW v \in Nat, NEW d \in Int, NEW t \in Nat \ {0},
         rank.rate <= t, 2 * v >= d * t - 1
  PROVE  2 * Part(v, rank, t) + 2 >= d * rank.rate
<1>1. rank.rate \in Nat
  BY DEF RankRecords
<1>2. 2 * ((v * rank.rate) \div t) + 2 >= d * rank.rate
  BY <1>1, PartOfDepth
<1>3. Part(v, rank, t) = (v * rank.rate) \div t
  <2>1. CASE v = 0
    <3>1. v * rank.rate = 0
      BY <1>1, <2>1
    <3>2. 0 \div t = 0
      OBVIOUS
    <3> QED BY <2>1, <3>1, <3>2 DEF Part
  <2>2. CASE v # 0
    BY <2>2 DEF Part
  <2> QED BY <2>1, <2>2
<1> QED BY <1>2, <1>3

(* What a worse rank is sold, every better one has sold before it.         *)
InOrder(o, first, second, third, s) ==
  /\ s[1] + 1 >= Capacity(second.shift - X96, first.shift, first.rate, o.reference)
  /\ s[3] > 0 =>
       /\ s[1] + 1 >= Capacity(third.shift - X96, first.shift, first.rate, o.reference)
       /\ s[2] + 1 >= Capacity(third.shift - X96, second.shift, second.rate, o.reference)

LEMMA SplitIsCheapest ==
  ASSUME NEW first \in RankRecords, NEW second \in RankRecords, NEW third \in RankRecords,
         NEW o \in Orders,
         NEW alone \in Nat, NEW volume2 \in Nat, NEW volume3 \in Nat, NEW left \in Nat,
         NEW flatter \in BOOLEAN,
         Ranges(o, first, second, third, alone, volume2, volume3)
  PROVE  InOrder(o, first, second, third,
                 Split(first, second, third, alone, volume2, volume3, left, flatter))
<1> DEFINE s == Split(first, second, third, alone, volume2, volume3, left, flatter)
           n     == o.reference
           rate2 == first.rate + second.rate
           p21   == Part(volume2, first, rate2)
           p22   == Part(volume2, second, rate2)
<1>0. /\ first.shift \in Int /\ first.rate \in Nat
      /\ second.shift \in Int /\ second.rate \in Nat
      /\ third.shift \in Int /\ third.rate \in Nat
      /\ n \in Nat /\ X96 \in Nat \ {0}
  BY PlaceOrderConstants DEF RankRecords, Orders
<1>1. /\ first.shift \in Int /\ first.rate \in Nat
      /\ second.shift \in Int /\ second.rate \in Nat
      /\ third.shift \in Int /\ third.rate \in Nat
      /\ n \in Nat /\ X96 \in Nat \ {0} /\ n \div 10 \in Nat
      /\ second.shift - X96 \in Int /\ second.shift - X96 <= second.shift
      /\ third.shift - X96 \in Int
  BY <1>0
<1>2. /\ s[1] \in Nat /\ s[2] \in Nat /\ s[3] \in Nat
      /\ s[1] >= alone + p21 /\ s[2] >= p22 /\ p21 \in Nat /\ p22 \in Nat
      /\ volume3 = 0 => s[3] = 0
  <2>1. Amounts(first, second, third, alone, volume2, volume3, s)
    BY SplitIsShares
  <2> HIDE DEF s
  <2> QED BY <2>1 DEF Amounts
<1> HIDE DEF s
<1>3. alone = Capacity(second.shift, first.shift, first.rate, n)
  BY DEF Ranges
<1>4. s[1] + 1 >= Capacity(second.shift - X96, first.shift, first.rate, n)
  <2>1. Capacity(second.shift - X96, first.shift, first.rate, n) <= alone
    BY <1>1, <1>3, CapacityGrows
  <2>2. Capacity(second.shift - X96, first.shift, first.rate, n) \in 0..n
    BY <1>1, CapacityBounds
  <2> QED BY <1>2, <2>1, <2>2
<1>5. ASSUME s[3] > 0
      PROVE  /\ s[1] + 1 >= Capacity(third.shift - X96, first.shift, first.rate, n)
             /\ s[2] + 1 >= Capacity(third.shift - X96, second.shift, second.rate, n)
  <2> DEFINE d12 == (second.shift - first.shift) \div X96
             d23 == (third.shift - second.shift) \div X96
             e13 == (third.shift - X96 - first.shift) \div X96
             e23 == (third.shift - X96 - second.shift) \div X96
             c13 == Capacity(third.shift - X96, first.shift, first.rate, n)
             c23 == Capacity(third.shift - X96, second.shift, second.rate, n)
  <2>1. volume3 # 0
    BY <1>2, <1>5
  <2>2. /\ rate2 # 0 /\ n - alone > 0 /\ third.shift <= CutoffThreshold
        /\ n - alone - volume2 > n \div 10
        /\ volume2 = Capacity(third.shift, second.shift, rate2, n - alone)
    BY <2>1 DEF Ranges
  <2>3. rate2 \in Nat \ {0} /\ n - alone \in Nat /\ alone < n /\ volume2 < n - alone
    BY <1>1, <2>2
  <2>4. d12 \in Int /\ 2 * alone >= d12 * first.rate - 1
    BY <1>1, <1>3, <2>3, CapacityIs
  <2>5. d23 \in Int /\ 2 * volume2 >= d23 * rate2 - 1
    BY <1>1, <2>2, <2>3, CapacityIs
  <2>6. e13 \in Int /\ c13 \in Nat /\ (2 * c13 <= e13 * first.rate \/ c13 = 0)
    <3>1. c13 \in 0..n /\ e13 \in Int /\ (2 * c13 <= e13 * first.rate \/ c13 = 0)
      BY <1>1, CapacityIs
    <3> HIDE DEF c13, e13
    <3> QED BY <1>1, <3>1
  <2>7. e23 \in Int /\ c23 \in Nat /\ (2 * c23 <= e23 * second.rate \/ c23 = 0)
    <3>1. c23 \in 0..n /\ e23 \in Int /\ (2 * c23 <= e23 * second.rate \/ c23 = 0)
      BY <1>1, CapacityIs
    <3> HIDE DEF c23, e23
    <3> QED BY <1>1, <3>1
  <2>8. e13 <= d12 + d23
    BY <1>1, TwoWays
  <2>9. e23 <= d23
    <3>1. /\ third.shift - X96 - second.shift \in Int /\ third.shift - second.shift \in Int
          /\ third.shift - X96 - second.shift <= third.shift - second.shift
      BY <1>1
    <3> QED BY <1>1, <3>1, FloorGrows
  <2> HIDE DEF d12, d23, e13, e23, c13, c23
  <2>10. 2 * p21 + 2 >= d23 * first.rate /\ 2 * p22 + 2 >= d23 * second.rate
    BY <1>1, <2>3, <2>5, PartReaches
  <2> HIDE DEF rate2, p21, p22
  <2>11. e13 * first.rate <= d12 * first.rate + d23 * first.rate
    BY <1>1, <2>4, <2>5, <2>6, <2>8
  <2>12. e23 * second.rate <= d23 * second.rate
    BY <1>1, <2>5, <2>7, <2>9
  <2>13. /\ d12 * first.rate \in Int /\ d23 * first.rate \in Int /\ d23 * second.rate \in Int
         /\ e13 * first.rate \in Int /\ e23 * second.rate \in Int
    BY <1>1, <2>4, <2>5, <2>6, <2>7
  <2>14. s[1] + 1 >= c13
    BY <1>2, <2>4, <2>6, <2>10, <2>11, <2>13
  <2>15. s[2] + 1 >= c23
    BY <1>2, <2>7, <2>10, <2>12, <2>13
  <2> QED BY <2>14, <2>15 DEF c13, c23
<1> QED BY <1>4, <1>5 DEF InOrder, s

(* Three summands of at most zero or of a rate's part of a depth.          *)
LEMMA RoomsAdd ==
  ASSUME NEW a \in Nat, NEW b \in Nat, NEW c \in Nat,
         NEW d \in Nat, NEW e \in Nat, NEW f \in Nat,
         NEW x \in Nat, NEW y \in Nat, NEW z \in Nat,
         NEW p \in Nat, NEW q \in Nat, NEW r \in Nat,
         2 * x <= (d + e + f) * a, 2 * y <= (e + f) * b, 2 * z <= f * c,
         2 * p >= d * a - 1, 2 * q >= e * (a + b) - 1, 2 * r >= f * (a + b + c) - 1
  PROVE  x + y + z <= p + q + r + 1
<1>1. (d + e + f) * a = d * a + e * a + f * a
  OBVIOUS
<1>2. (e + f) * b = e * b + f * b
  OBVIOUS
<1>3. e * (a + b) = e * a + e * b
  OBVIOUS
<1>4. f * (a + b + c) = f * a + f * b + f * c
  OBVIOUS
<1>5. /\ d * a \in Int /\ e * a \in Int /\ f * a \in Int
      /\ e * b \in Int /\ f * b \in Int /\ f * c \in Int
  OBVIOUS
<1>6. 2 * (x + y + z) <= 2 * (p + q + r) + 3
  BY <1>1, <1>2, <1>3, <1>4, <1>5
<1> QED BY <1>6

(* A room is no more than the rate's part of any way that is as long.      *)
LEMMA RoomWithin ==
  ASSUME NEW level \in Int, NEW shift \in Int, NEW rate \in Nat, NEW n \in Nat,
         NEW d \in Nat, (level - shift) \div X96 <= d
  PROVE  /\ Capacity(level, shift, rate, n) \in 0..n
         /\ 2 * Capacity(level, shift, rate, n) <= d * rate
<1> DEFINE cap == Capacity(level, shift, rate, n)
           e   == (level - shift) \div X96
<1>1. cap \in 0..n /\ e \in Int /\ (2 * cap <= e * rate \/ cap = 0)
  BY CapacityIs
<1>2. e <= d
  OBVIOUS
<1> HIDE DEF cap, e
<1>3. e * rate <= d * rate /\ 0 <= d * rate
  BY <1>1, <1>2
<1>4. e * rate \in Int /\ d * rate \in Int
  BY <1>1
<1> QED BY <1>1, <1>3, <1>4 DEF cap

LEMMA ThreeWays ==
  ASSUME NEW a \in Int, NEW b \in Int, NEW c \in Int, NEW e \in Int, NEW d \in Nat \ {0}
  PROVE  (e - 2 * d - a) \div d <= (b - a) \div d + (c - b) \div d + (e - c) \div d
<1>1. (c - d - a) \div d <= (b - a) \div d + (c - b) \div d
  BY TwoWays
<1>2. (e - d - d - a) \div d <= (c - d - a) \div d + (e - d - (c - d)) \div d
  <2>1. c - d \in Int /\ e - d \in Int
    OBVIOUS
  <2> QED BY <2>1, TwoWays
<1>3. e - d - d - a = e - 2 * d - a /\ e - d - (c - d) = e - c
  OBVIOUS
<1>4. /\ (c - d - a) \div d \in Int /\ (b - a) \div d \in Int /\ (c - b) \div d \in Int
      /\ (e - c) \div d \in Int /\ (e - 2 * d - a) \div d \in Int
  BY FloorIsInt
<1> QED BY <1>1, <1>2, <1>3, <1>4

FillsOrder(o, s) == s[1] + s[2] + s[3] >= o.reference - o.reference \div 10 - 5

(* What the ranges sell when the routes, a little short of the cutoff,     *)
(* have room for the order.                                                *)
LEMMA SplitPlaces ==
  ASSUME NEW first \in RankRecords, NEW second \in RankRecords, NEW third \in RankRecords,
         NEW o \in Orders,
         NEW alone \in Nat, NEW volume2 \in Nat, NEW volume3 \in Nat, NEW left \in Nat,
         NEW flatter \in BOOLEAN,
         Ranges(o, first, second, third, alone, volume2, volume3),
         first.shift <= second.shift, second.shift <= CutoffThreshold,
         NEW level, level = CutoffThreshold - 2 * X96,
         Capacity(level, first.shift, first.rate, o.reference)
           + Capacity(level, second.shift, second.rate, o.reference)
           + Capacity(level, third.shift, third.rate, o.reference) >= o.reference
  PROVE  FillsOrder(o, Split(first, second, third, alone, volume2, volume3, left, flatter))
<1> DEFINE s == Split(first, second, third, alone, volume2, volume3, left, flatter)
           n     == o.reference
           eps   == o.reference \div 10
           rate2 == first.rate + second.rate
           rate3 == rate2 + third.rate
           three == third.shift <= CutoffThreshold
           level2 == IF three THEN third.shift ELSE CutoffThreshold
           room1 == Capacity(level, first.shift, first.rate, n)
           room2 == Capacity(level, second.shift, second.rate, n)
           room3 == Capacity(level, third.shift, third.rate, n)
           d12 == (second.shift - first.shift) \div X96
           d2  == (level2 - second.shift) \div X96
           d3  == (CutoffThreshold - third.shift) \div X96
<1>0. /\ first.shift \in Int /\ first.rate \in Nat
      /\ second.shift \in Int /\ second.rate \in Nat
      /\ third.shift \in Int /\ third.rate \in Nat
      /\ n \in Nat /\ X96 \in Nat \ {0} /\ CutoffThreshold \in Int
  BY PlaceOrderConstants, CutoffIsInt DEF RankRecords, Orders
<1>1. /\ eps \in Nat /\ eps <= n /\ level \in Int /\ level2 \in Int
      /\ rate2 \in Nat /\ rate3 \in Nat
  BY <1>0
<1>2. /\ s[1] \in Nat /\ s[2] \in Nat /\ s[3] \in Nat
      /\ s[1] + s[2] + s[3] >= alone + volume2 + volume3 - 3
  <2>1. Amounts(first, second, third, alone, volume2, volume3, s)
    BY SplitIsShares
  <2> HIDE DEF s
  <2> QED BY <2>1 DEF Amounts
<1> HIDE DEF s
<1>3. alone + volume2 + volume3 >= n - eps - 2 =>
        s[1] + s[2] + s[3] >= n - eps - 5
  BY <1>0, <1>1, <1>2
<1>4. alone = Capacity(second.shift, first.shift, first.rate, n)
  BY DEF Ranges
<1>5. CASE volume2 = 0 /\ volume3 = 0 /\ n - alone <= eps
  <2>1. alone + volume2 + volume3 >= n - eps - 2
    BY <1>0, <1>1, <1>5
  <2> QED BY <1>3, <2>1 DEF FillsOrder, s
<1>6. CASE /\ rate2 # 0 /\ n - alone > 0
           /\ volume2 = Capacity(level2, second.shift, rate2, n - alone)
           /\ IF three /\ n - alone - volume2 > eps
              THEN volume3 = Capacity(CutoffThreshold, third.shift, rate3,
                                      n - alone - volume2)
              ELSE volume3 = 0
  <2>1. n - alone \in Nat /\ alone < n
    BY <1>0, <1>6
  <2>2. d12 \in Int /\ 2 * alone >= d12 * first.rate - 1
    BY <1>0, <1>4, <2>1, CapacityIs
  <2>3. d12 >= 0
    <3>1. second.shift - first.shift \in Nat
      BY <1>0
    <3> QED BY <1>0, <3>1, Quotient
  <2>4. volume2 \in 0..(n - alone)
    BY <1>0, <1>1, <1>6, <2>1, CapacityBounds
  <2>5. CASE volume2 = n - alone
    <3>1. alone + volume2 + volume3 >= n - eps - 2
      BY <1>0, <1>1, <2>5
    <3> QED BY <1>3, <3>1 DEF FillsOrder, s
  <2>6. CASE volume2 < n - alone
    <3>1. d2 \in Int /\ 2 * volume2 >= d2 * rate2 - 1
      BY <1>0, <1>1, <1>6, <2>1, <2>6, CapacityIs
    <3>2. CASE ~three
      <4>1. level2 = CutoffThreshold /\ CutoffThreshold - second.shift \in Nat
        BY <1>0, <3>2
      <4>2. d2 \in Nat
        BY <1>0, <4>1, Quotient
      <4>3. (level - first.shift) \div X96 <= d12 + d2
        <5>1. (CutoffThreshold - X96 - first.shift) \div X96 <= d12 + d2
          BY <1>0, <4>1, TwoWays
        <5>2. /\ level - first.shift \in Int
              /\ CutoffThreshold - X96 - first.shift \in Int
              /\ level - first.shift <= CutoffThreshold - X96 - first.shift
          BY <1>0
        <5>3. (level - first.shift) \div X96 <= (CutoffThreshold - X96 - first.shift) \div X96
          BY <1>0, <5>2, FloorGrows
        <5>4. /\ (level - first.shift) \div X96 \in Int
              /\ (CutoffThreshold - X96 - first.shift) \div X96 \in Int
          BY <1>0, <5>2, FloorIsInt
        <5> HIDE DEF d12, d2
        <5> QED BY <2>2, <4>2, <5>1, <5>3, <5>4
      <4>4. (level - second.shift) \div X96 <= d2
        <5>1. /\ level - second.shift \in Int /\ CutoffThreshold - second.shift \in Int
              /\ level - second.shift <= CutoffThreshold - second.shift
          BY <1>0
        <5> QED BY <1>0, <4>1, <5>1, FloorGrows
      <4>5. (level - third.shift) \div X96 <= 0
        <5>1. level - third.shift \in Int /\ level - third.shift <= 0
          BY <1>0, <3>2
        <5> QED BY <1>0, <5>1, QuotientSign
      <4> HIDE DEF d12, d2
      <4>6. d12 + d2 + 0 \in Nat /\ d12 + d2 + 0 = d12 + d2 /\ d2 + 0 = d2
        BY <2>2, <2>3, <4>2
      <4>7. room1 \in 0..n /\ 2 * room1 <= (d12 + d2 + 0) * first.rate
        BY <1>0, <1>1, <4>3, <4>6, RoomWithin
      <4>8. room2 \in 0..n /\ 2 * room2 <= (d2 + 0) * second.rate
        BY <1>0, <1>1, <4>2, <4>4, <4>6, RoomWithin
      <4>9. room3 \in 0..n /\ 2 * room3 <= 0 * third.rate
        BY <1>0, <1>1, <4>5, RoomWithin
      <4>10. 0 * (first.rate + second.rate + third.rate) = 0 /\ 2 * 0 >= 0 - 1
        BY <1>0
      <4> HIDE DEF room1, room2, room3
      <4>11. room1 + room2 + room3 <= alone + volume2 + 0 + 1
        <5>1. room1 \in Nat /\ room2 \in Nat /\ room3 \in Nat /\ d12 \in Nat
          BY <1>0, <2>2, <2>3, <4>7, <4>8, <4>9
        <5>2. 2 * 0 >= 0 * (first.rate + second.rate + third.rate) - 1
          BY <4>10
        <5> QED BY <1>0, <2>2, <3>1, <4>2, <4>7, <4>8, <4>9, <5>1, <5>2, RoomsAdd
      <4>12. room1 + room2 + room3 >= n
        BY DEF room1, room2, room3
      <4>13. alone + volume2 + volume3 >= n - eps - 2
        <5>1. room1 \in Nat /\ room2 \in Nat /\ room3 \in Nat
          BY <1>0, <4>7, <4>8, <4>9
        <5> QED BY <1>0, <1>1, <4>11, <4>12, <5>1
      <4> QED BY <1>3, <4>13 DEF FillsOrder, s
    <3>3. CASE three /\ n - alone - volume2 <= eps
      <4>1. alone + volume2 + volume3 >= n - eps - 2
        BY <1>0, <1>1, <3>3
      <4> QED BY <1>3, <4>1 DEF FillsOrder, s
    <3>4. CASE three /\ n - alone - volume2 > eps
      <4>1. n - alone - volume2 \in Nat
        BY <1>0, <1>1, <3>4
      <4>2. volume3 = Capacity(CutoffThreshold, third.shift, rate3, n - alone - volume2)
        BY <1>6, <3>4
      <4>3. volume3 \in 0..(n - alone - volume2)
        BY <1>0, <1>1, <4>1, <4>2, CapacityBounds
      <4>4. CASE volume3 = n - alone - volume2
        <5>1. alone + volume2 + volume3 >= n - eps - 2
          BY <1>0, <1>1, <4>4
        <5> QED BY <1>3, <5>1 DEF FillsOrder, s
      <4>5. CASE volume3 < n - alone - volume2
        <5>1. d3 \in Int /\ 2 * volume3 >= d3 * rate3 - 1
          BY <1>0, <1>1, <4>1, <4>2, <4>5, CapacityIs
        <5>2. d3 \in Nat
          <6>1. CutoffThreshold - third.shift \in Nat
            BY <1>0, <3>4
          <6> QED BY <1>0, <6>1, Quotient
        <5>3. level2 = third.shift
          BY <3>4
        <5>4. (level - first.shift) \div X96 <= d12 + d2 + d3
          BY <1>0, <5>3, ThreeWays
        <5>5. (level - second.shift) \div X96 <= d2 + d3
          <6>1. (CutoffThreshold - X96 - second.shift) \div X96 <= d2 + d3
            BY <1>0, <5>3, TwoWays
          <6>2. /\ level - second.shift \in Int
                /\ CutoffThreshold - X96 - second.shift \in Int
                /\ level - second.shift <= CutoffThreshold - X96 - second.shift
            BY <1>0
          <6>3. (level - second.shift) \div X96 <= (CutoffThreshold - X96 - second.shift) \div X96
            BY <1>0, <6>2, FloorGrows
          <6>4. /\ (level - second.shift) \div X96 \in Int
                /\ (CutoffThreshold - X96 - second.shift) \div X96 \in Int
            BY <1>0, <6>2, FloorIsInt
          <6> HIDE DEF d2, d3
          <6> QED BY <3>1, <5>1, <6>1, <6>3, <6>4
        <5>6. (level - third.shift) \div X96 <= d3
          <6>1. /\ level - third.shift \in Int /\ CutoffThreshold - third.shift \in Int
                /\ level - third.shift <= CutoffThreshold - third.shift
            BY <1>0
          <6> QED BY <1>0, <6>1, FloorGrows
        <5> HIDE DEF d12, d2, d3
        <5> DEFINE e == IF d2 < 0 THEN 0 ELSE d2
        <5>7. e \in Nat /\ d2 <= e /\ 2 * volume2 >= e * (first.rate + second.rate) - 1
          <6>1. CASE d2 < 0
            <7>1. e = 0 /\ 0 * rate2 = 0
              BY <1>1, <6>1
            <7> QED BY <3>1, <6>1, <7>1
          <6>2. CASE ~(d2 < 0)
            BY <3>1, <6>2
          <6> QED BY <6>1, <6>2
        <5> HIDE DEF e
        <5>8. room1 \in 0..n /\ 2 * room1 <= (d12 + e + d3) * first.rate
          <6>1. (level - first.shift) \div X96 \in Int
            BY <1>0, <1>1, FloorIsInt
          <6>2. d12 + e + d3 \in Nat /\ (level - first.shift) \div X96 <= d12 + e + d3
            BY <2>2, <2>3, <3>1, <5>2, <5>4, <5>7, <6>1
          <6> QED BY <1>0, <1>1, <6>2, RoomWithin
        <5>9. room2 \in 0..n /\ 2 * room2 <= (e + d3) * second.rate
          <6>1. (level - second.shift) \div X96 \in Int
            BY <1>0, <1>1, FloorIsInt
          <6>2. e + d3 \in Nat /\ (level - second.shift) \div X96 <= e + d3
            BY <3>1, <5>2, <5>5, <5>7, <6>1
          <6> QED BY <1>0, <1>1, <6>2, RoomWithin
        <5>10. room3 \in 0..n /\ 2 * room3 <= d3 * third.rate
          BY <1>0, <1>1, <5>2, <5>6, RoomWithin
        <5>11. room1 + room2 + room3 >= n
          OBVIOUS
        <5> HIDE DEF room1, room2, room3
        <5>12. room1 + room2 + room3 <= alone + volume2 + volume3 + 1
          <6>1. room1 \in Nat /\ room2 \in Nat /\ room3 \in Nat /\ d12 \in Nat
            BY <1>0, <2>2, <2>3, <5>8, <5>9, <5>10
          <6> QED BY <1>0, <2>2, <5>1, <5>2, <5>7, <5>8, <5>9, <5>10, <6>1, RoomsAdd
        <5>13. alone + volume2 + volume3 >= n - eps - 2
          <6>1. room1 \in Nat /\ room2 \in Nat /\ room3 \in Nat
            BY <1>0, <5>8, <5>9, <5>10
          <6> QED BY <1>0, <1>1, <5>11, <5>12, <6>1
        <5> QED BY <1>3, <5>13 DEF FillsOrder, s
      <4> QED BY <4>1, <4>3, <4>4, <4>5
    <3> QED BY <1>0, <1>1, <2>4, <3>2, <3>3, <3>4
  <2> QED BY <2>1, <2>4, <2>5, <2>6
<1> QED BY <1>5, <1>6 DEF Ranges

(* The ranks of an order, read off its routes.                             *)
LEMMA RankOfRoute ==
  ASSUME NEW o, OrderOK(o), NEW shift \in [DOMAIN o.orders -> Int],
         NEW r \in [DOMAIN o.orders -> DOMAIN o.orders], NEW k \in DOMAIN o.orders
  PROVE  /\ Rank(o, shift, r, k).shift = shift[r[k]]
         /\ Rank(o, shift, r, k).rate = ReverseSlippageRate(o.orders[r[k]])
BY DEF Rank

LEMMA NotionalsAreCheapest ==
  ASSUME NEW o, OrderOK(o), NEW shift \in [DOMAIN o.orders -> Int], NEW priced,
         NEW r \in [DOMAIN o.orders -> DOMAIN o.orders],
         Ranks(r, shift), ~GreenLit(o, shift, priced),
         NEW i \in DOMAIN o.orders, NEW j \in DOMAIN o.orders,
         shift[r[i]] < shift[r[j]],
         OrderNotionals(o, shift, priced, r).shares[j] > 0
  PROVE  OrderNotionals(o, shift, priced, r).shares[i] + 1
           >= Capacity(shift[r[j]] - X96, shift[r[i]],
                       ReverseSlippageRate(o.orders[r[i]]), o.reference)
<1> DEFINE rank(k) == Rank(o, shift, r, k)
           S == Spread(o, rank(1), rank(2), rank(3))
<1>1. DOMAIN o.orders = 1..Len(o.orders) /\ Len(o.orders) \in 1..3 /\ o \in Orders
      /\ o.minRate >= 10
  BY DEF OrderOK, Orders, MaxRoutes
<1>2. i < j
  <2>1. i \in Int /\ j \in Int
    BY <1>1
  <2>2. ~(j < i) /\ i # j
    <3>1. shift[r[i]] \in Int /\ shift[r[j]] \in Int /\ DOMAIN r = DOMAIN o.orders
      OBVIOUS
    <3> QED BY <3>1 DEF Ranks
  <2> QED BY <2>1, <2>2
<1>3. (i = 1 /\ j = 2) \/ (i = 1 /\ j = 3) \/ (i = 2 /\ j = 3)
  <2>1. i \in 1..Len(o.orders) /\ j \in 1..Len(o.orders) /\ Len(o.orders) \in {1, 2, 3}
    BY <1>1
  <2> QED BY <1>2, <2>1
<1>4. Len(o.orders) # 1
  <2>1. i \in 1..Len(o.orders) /\ j \in 1..Len(o.orders)
    BY <1>1
  <2> QED BY <1>2, <2>1
<1>5. rank(1) \in RankRecords /\ rank(2) \in RankRecords /\ rank(3) \in RankRecords
  BY RankIsRecord
<1>6. /\ rank(i).shift = shift[r[i]] /\ rank(j).shift = shift[r[j]]
      /\ rank(i).rate = ReverseSlippageRate(o.orders[r[i]])
  BY RankOfRoute
<1>7. OrderNotionals(o, shift, priced, r) = SortOrders(o, rank(1), rank(2), rank(3))
  BY <1>4 DEF OrderNotionals
<1> HIDE DEF rank
<1>8. ASSUME NEW x, OrderNotionals(o, shift, priced, r) = Shares(x) PROVE FALSE
  <2>1. OrderNotionals(o, shift, priced, r).shares[j] = 0
    BY <1>3, <1>8 DEF Shares
  <2> QED BY <2>1
<1>9. OrderNotionals(o, shift, priced, r) = S
  BY <1>7, <1>8 DEF SortOrders
<1>10. ~S.panic
  <2>1. S.panic => S.shares = <<0, 0, 0>>
    BY DEF Spread, NoShares
  <2>2. S.shares[j] > 0
    BY <1>9
  <2> QED BY <1>3, <2>1, <2>2
<1>11. PICK alone \in Nat, volume2 \in Nat, volume3 \in Nat, left \in Nat, flatter \in BOOLEAN :
         /\ Ranges(o, rank(1), rank(2), rank(3), alone, volume2, volume3)
         /\ S.shares = Split(rank(1), rank(2), rank(3), alone, volume2, volume3, left, flatter)
  BY <1>1, <1>5, <1>10, SpreadIsSplit
<1>12. InOrder(o, rank(1), rank(2), rank(3), S.shares)
  <2> HIDE DEF S
  <2>1. InOrder(o, rank(1), rank(2), rank(3),
                Split(rank(1), rank(2), rank(3), alone, volume2, volume3, left, flatter))
    <3> DEFINE a == rank(1)
               b == rank(2)
               c == rank(3)
    <3>1. a \in RankRecords /\ b \in RankRecords /\ c \in RankRecords /\ o \in Orders
          /\ Ranges(o, a, b, c, alone, volume2, volume3)
      BY <1>1, <1>5, <1>11
    <3> HIDE DEF a, b, c
    <3>2. InOrder(o, a, b, c, Split(a, b, c, alone, volume2, volume3, left, flatter))
      BY <3>1, SplitIsCheapest
    <3> QED BY <3>2 DEF a, b, c
  <2> QED BY <1>11, <2>1
<1> HIDE DEF S
<1> QED BY <1>3, <1>6, <1>9, <1>12 DEF InOrder

LEMMA RoomBeyond ==
  ASSUME NEW level \in Int, NEW shift \in Int, NEW rate \in Nat, NEW n \in Nat,
         level <= shift
  PROVE  Capacity(level, shift, rate, n) = 0
<1>1. (level - shift) \div X96 <= 0
  <2>1. level - shift \in Int /\ level - shift <= 0
    OBVIOUS
  <2> QED BY <2>1, QuotientSign, PlaceOrderConstants
<1>2. /\ Capacity(level, shift, rate, n) \in 0..n
      /\ 2 * Capacity(level, shift, rate, n) <= 0 * rate
  BY <1>1, RoomWithin
<1> QED BY <1>2

(* One route alone takes the order when it has room for it.                *)
LEMMA AlonePlaces ==
  ASSUME NEW o, OrderOK(o), NEW first \in RankRecords, NEW level \in Int,
         level <= CutoffThreshold,
         Capacity(level, first.shift, first.rate, o.reference) >= o.reference
  PROVE  Alone(o, first) = o.reference
<1> DEFINE n   == o.reference
           low == Capacity(level, first.shift, first.rate, n)
           top == Capacity(CutoffThreshold, first.shift, first.rate, n)
<1>1. n \in Nat /\ o.minRate \in Nat /\ o.minRate >= 10 /\ first.shift \in Int /\ first.rate \in Nat
  BY DEF OrderOK, Orders, RankRecords
<1>2. low \in 0..n /\ top \in 0..n /\ low <= top
  BY <1>1, CutoffIsInt, CapacityBounds, CapacityGrows
<1>3. low >= n
  OBVIOUS
<1>4. MinOrderSize(o) \in Nat /\ MinOrderSize(o) <= n \div 10 /\ n \div 10 <= n
  <2>1. n \div 10 <= n
    BY <1>1
  <2> QED BY <1>1, <2>1, SmallestWithinEpsilon DEF MinOrderSize
<1>5. top = n /\ top >= MinOrderSize(o)
  <2> HIDE DEF low, top
  <2>1. n \div 10 \in Int
    BY <1>1
  <2> QED BY <1>1, <1>2, <1>3, <1>4, <2>1
<1> QED BY <1>5 DEF Alone

LEMMA NotionalsPlace ==
  ASSUME NEW o, OrderOK(o), NEW shift \in [DOMAIN o.orders -> Int], NEW priced,
         NEW r \in [DOMAIN o.orders -> DOMAIN o.orders],
         Ranking(o, shift, priced, r),
         \A k \in DOMAIN o.orders : ReverseSlippageRate(o.orders[r[k]]) > 0,
         NEW level, level = CutoffThreshold - 2 * X96,
         Capacity(level, Rank(o, shift, r, 1).shift, Rank(o, shift, r, 1).rate, o.reference)
           + Capacity(level, Rank(o, shift, r, 2).shift, Rank(o, shift, r, 2).rate, o.reference)
           + Capacity(level, Rank(o, shift, r, 3).shift, Rank(o, shift, r, 3).rate, o.reference)
           >= o.reference
  PROVE  FillsOrder(o, OrderNotionals(o, shift, priced, r).shares)
<1> DEFINE rank(k) == Rank(o, shift, r, k)
           room(k) == Capacity(level, rank(k).shift, rank(k).rate, o.reference)
           n == o.reference
           N == OrderNotionals(o, shift, priced, r)
<1>1. /\ DOMAIN o.orders = 1..Len(o.orders) /\ Len(o.orders) \in {1, 2, 3} /\ o \in Orders
      /\ o.minRate >= 10 /\ n \in Nat
  BY DEF OrderOK, Orders, MaxRoutes
<1>2. rank(1) \in RankRecords /\ rank(2) \in RankRecords /\ rank(3) \in RankRecords
  BY RankIsRecord
<1>3. level \in Int /\ CutoffThreshold \in Nat /\ level <= CutoffThreshold
  BY PlaceOrderConstants DEF CutoffThreshold
<1>4. \A k \in 1..3 : rank(k) \in RankRecords /\ rank(k).shift \in Int /\ rank(k).rate \in Nat
  BY <1>2 DEF RankRecords
<1>5. \A k \in 1..3 : k \notin DOMAIN o.orders => rank(k).shift = 0 /\ rank(k).rate = 0
  BY DEF Rank, NoRank
<1>6. \A k \in DOMAIN o.orders :
        rank(k).shift = shift[r[k]] /\ rank(k).rate > 0
  BY RankOfRoute
<1>7. room(1) + room(2) + room(3) >= n
  OBVIOUS
<1> HIDE DEF rank
<1>8. ASSUME NEW x, N = Shares(x), x = n
      PROVE  FillsOrder(o, N.shares)
  <2>1. N.shares = <<n, 0, 0>>
    BY <1>8 DEF Shares
  <2> HIDE DEF N
  <2> QED BY <1>1, <2>1 DEF FillsOrder
<1>9. ASSUME NEW k \in 1..3, rank(k).rate = 0 \/ level <= rank(k).shift
      PROVE  room(k) = 0
  <2>1. CASE rank(k).rate = 0
    <3> DEFINE depth == (level - rank(k).shift) \div X96
    <3>1. depth \in Int
      BY <1>3, <1>4, FloorIsInt, PlaceOrderConstants
    <3> HIDE DEF depth
    <3>2. depth * rank(k).rate = 0 /\ 0 \div 2 = 0
      BY <2>1, <3>1
    <3> QED BY <1>1, <3>2 DEF Capacity, depth
  <2>2. CASE level <= rank(k).shift
    BY <1>1, <1>3, <1>4, <2>2, RoomBeyond
  <2> QED BY <1>9, <2>1, <2>2
<1>10. room(1) \in 0..n /\ room(2) \in 0..n /\ room(3) \in 0..n
  <2>1. \A k \in 1..3 : room(k) \in 0..n
    BY <1>1, <1>3, <1>4, CapacityBounds
  <2> HIDE DEF room
  <2> QED BY <2>1
<1>11. CASE GreenLit(o, shift, priced)
  <2>1. N = Shares(n)
    BY <1>11 DEF OrderNotionals
  <2> QED BY <1>8, <2>1
<1>12. ASSUME room(2) = 0, room(3) = 0, N = Shares(Alone(o, rank(1)))
       PROVE  FillsOrder(o, N.shares)
  <2>1. room(1) >= n
    <3> HIDE DEF room
    <3> QED BY <1>1, <1>7, <1>10, <1>12
  <2>2. Alone(o, rank(1)) = n
    BY <1>2, <1>3, <2>1, AlonePlaces
  <2> QED BY <1>8, <1>12, <2>2
<1>13. CASE ~GreenLit(o, shift, priced) /\ Len(o.orders) = 1
  <2>1. room(2) = 0 /\ room(3) = 0
    BY <1>1, <1>5, <1>9, <1>13
  <2>2. N = Shares(Alone(o, rank(1)))
    BY <1>13 DEF OrderNotionals, rank
  <2> QED BY <1>12, <2>1, <2>2
<1>14. CASE ~GreenLit(o, shift, priced) /\ Len(o.orders) # 1
  <2>1. N = SortOrders(o, rank(1), rank(2), rank(3))
    BY <1>14 DEF OrderNotionals, rank
  <2>2. Ranks(r, shift) /\ 1 \in DOMAIN o.orders /\ 2 \in DOMAIN o.orders
    <3>1. 1 \in 1..Len(o.orders) /\ 2 \in 1..Len(o.orders)
      <4> DEFINE len == Len(o.orders)
      <4>1. len \in {2, 3}
        BY <1>1, <1>14
      <4> HIDE DEF len
      <4>2. 1 \in 1..len /\ 2 \in 1..len
        BY <4>1
      <4> QED BY <4>2 DEF len
    <3> QED BY <1>1, <1>14, <3>1 DEF Ranking
  <2>3. rank(1).shift <= rank(2).shift
    <3>1. shift[r[1]] \in Int /\ shift[r[2]] \in Int /\ DOMAIN r = DOMAIN o.orders
      BY <2>2
    <3>2. shift[r[1]] <= shift[r[2]]
      BY <2>2, <3>1 DEF Ranks
    <3> QED BY <1>6, <2>2, <3>2
  <2>4. 3 \in DOMAIN o.orders => rank(2).shift <= rank(3).shift
    <3> SUFFICES ASSUME 3 \in DOMAIN o.orders PROVE rank(2).shift <= rank(3).shift
      OBVIOUS
    <3>1. shift[r[3]] \in Int /\ shift[r[2]] \in Int /\ DOMAIN r = DOMAIN o.orders
      BY <2>2
    <3>2. shift[r[2]] <= shift[r[3]]
      BY <2>2, <3>1 DEF Ranks
    <3> QED BY <1>6, <2>2, <3>2
  <2>5. ASSUME rank(2).shift > CutoffThreshold
        PROVE  room(2) = 0 /\ room(3) = 0
    <3>1. level <= rank(2).shift
      BY <1>3, <1>4, <2>5
    <3>2. 3 \in DOMAIN o.orders => level <= rank(3).shift
      BY <1>3, <1>4, <2>4, <3>1
    <3> QED BY <1>5, <1>9, <3>1, <3>2
  <2>6. CASE rank(1).shift > CutoffThreshold
    <3>1. rank(2).shift > CutoffThreshold /\ level <= rank(1).shift
      BY <1>3, <1>4, <2>3, <2>6
    <3>2. room(1) = 0 /\ room(2) = 0 /\ room(3) = 0
      BY <1>9, <2>5, <3>1
    <3>3. n = 0
      <4> HIDE DEF room
      <4> QED BY <1>1, <1>7, <3>2
    <3>4. N = Shares(0)
      BY <2>1, <2>6 DEF SortOrders
    <3> QED BY <1>8, <3>3, <3>4
  <2>7. CASE ~(rank(1).shift > CutoffThreshold) /\ rank(2).shift > CutoffThreshold
    <3>1. N = Shares(Alone(o, rank(1)))
      BY <2>1, <2>7 DEF SortOrders
    <3> QED BY <1>12, <2>5, <2>7, <3>1
  <2>8. CASE ~(rank(1).shift > CutoffThreshold) /\ ~(rank(2).shift > CutoffThreshold)
    <3> DEFINE S == Spread(o, rank(1), rank(2), rank(3))
    <3>1. N = S
      BY <2>1, <2>8 DEF SortOrders
    <3>2. rank(1).rate + rank(2).rate # 0
      <4>1. rank(1).rate \in Nat /\ rank(2).rate \in Nat /\ rank(1).rate > 0
        BY <1>4, <1>6, <2>2
      <4> QED BY <4>1
    <3>3. ~S.panic
      BY <3>2 DEF Spread
    <3>4. PICK alone \in Nat, volume2 \in Nat, volume3 \in Nat, left \in Nat,
               flatter \in BOOLEAN :
            /\ Ranges(o, rank(1), rank(2), rank(3), alone, volume2, volume3)
            /\ S.shares
                 = Split(rank(1), rank(2), rank(3), alone, volume2, volume3, left, flatter)
      BY <1>1, <1>2, <3>3, SpreadIsSplit
    <3>5. rank(2).shift <= CutoffThreshold
      BY <1>3, <1>4, <2>8
    <3>6. FillsOrder(o, S.shares)
      <4> DEFINE a == rank(1)
                 b == rank(2)
                 c == rank(3)
      <4>1. a \in RankRecords /\ b \in RankRecords /\ c \in RankRecords /\ o \in Orders
            /\ Ranges(o, a, b, c, alone, volume2, volume3)
            /\ a.shift <= b.shift /\ b.shift <= CutoffThreshold
            /\ Capacity(level, a.shift, a.rate, o.reference)
                + Capacity(level, b.shift, b.rate, o.reference)
                + Capacity(level, c.shift, c.rate, o.reference) >= o.reference
        BY <1>1, <1>2, <1>7, <2>3, <3>4, <3>5
      <4> HIDE DEF a, b, c
      <4>2. FillsOrder(o, Split(a, b, c, alone, volume2, volume3, left, flatter))
        BY <4>1, SplitPlaces
      <4> QED BY <3>4, <4>2 DEF a, b, c
    <3> QED BY <3>1, <3>6
  <2> QED BY <2>6, <2>7, <2>8
<1> QED BY <1>11, <1>13, <1>14

-----------------------------------------------------------------------------
(* What a call leaves behind: the order, its ranking and the notionals of  *)
(* the ranks.                                                              *)
LEMMA CallIsRanked ==
  ASSUME IInv, NEW paid \in BOOLEAN, placeOrderCall(paid)
  PROVE  \E shift \in [DOMAIN order.orders -> Int],
            priced \in [DOMAIN order.orders -> BOOLEAN],
            r \in [DOMAIN order.orders -> DOMAIN order.orders] :
           /\ Ranking(order, shift, priced, r)
           /\ call'.order = order
           /\ call'.route = r
           /\ call'.shift = [k \in DOMAIN order.orders |-> shift[r[k]]]
           /\ call'.green = GreenLit(order, shift, priced)
           /\ call'.shares = OrderNotionals(order, shift, priced, r).shares
<1> DEFINE routes == DOMAIN order.orders
           shift  == [i \in routes |-> MarketAdverseShift(order, i, price)]
           priced == [i \in routes |-> SpotPrice(order.orders[i].hops, price) # 0]
           split(r) == OrderNotionals(order, shift, priced, r)
           sold(r)  == [k \in 1..MaxRoutes |-> Sold(order, split(r).shares[k])]
           spent(r) == sold(r)[1] + sold(r)[2] + sold(r)[3]
<1>1. OrderOK(order) /\ price \in PriceMap
  BY DEF placeOrderCall, IInv, TypeOK, PriceMap
<1>2. PICK r \in [routes -> routes] :
        /\ Ranking(order, shift, priced, r)
        /\ call' = [order  |-> order,
                    route  |-> r,
                    shift  |-> [k \in routes |-> shift[r[k]]],
                    priced |-> [k \in routes |-> priced[r[k]]],
                    green  |-> GreenLit(order, shift, priced),
                    shares |-> split(r).shares,
                    spent  |-> spent(r),
                    moved  |-> price # order.quoted,
                    done   |-> IF split(r).panic THEN "reverted"
                               ELSE IF spent(r) = 0 THEN "braked"
                               ELSE IF paid THEN "traded" ELSE "reverted"]
  BY DEF placeOrderCall
<1>3. shift \in [routes -> Int]
  <2>1. \A i \in routes : MarketAdverseShift(order, i, price) \in Int
    BY <1>1, ShiftIsInt
  <2> QED BY <2>1
<1>4. priced \in [routes -> BOOLEAN]
  OBVIOUS
<1> HIDE DEF shift, priced, spent
<1>5. /\ call'.order = order /\ call'.route = r
      /\ call'.shift = [k \in routes |-> shift[r[k]]]
      /\ call'.green = GreenLit(order, shift, priced)
      /\ call'.shares = split(r).shares
  BY <1>2
<1> HIDE DEF split
<1> QED BY <1>2, <1>3, <1>4, <1>5 DEF split

LEMMA CallIsCheapest ==
  ASSUME IInv, NEW paid \in BOOLEAN, placeOrderCall(paid)
  PROVE  CheapestFirst'
<1>1. PICK shift \in [DOMAIN order.orders -> Int],
           priced \in [DOMAIN order.orders -> BOOLEAN],
           r \in [DOMAIN order.orders -> DOMAIN order.orders] :
        /\ Ranking(order, shift, priced, r)
        /\ call'.order = order
        /\ call'.route = r
        /\ call'.shift = [k \in DOMAIN order.orders |-> shift[r[k]]]
        /\ call'.green = GreenLit(order, shift, priced)
        /\ call'.shares = OrderNotionals(order, shift, priced, r).shares
  BY CallIsRanked
<1>2. OrderOK(order)
  BY DEF placeOrderCall, IInv, TypeOK
<1> SUFFICES ASSUME ~call'.green,
                    NEW i \in DOMAIN call'.route, NEW j \in DOMAIN call'.route,
                    call'.shift[i] < call'.shift[j], call'.shares[j] > 0
             PROVE  call'.shares[i] + 1
                      >= Capacity(call'.shift[j] - X96, call'.shift[i], RateOf(i)',
                                  call'.order.reference)
  BY DEF CheapestFirst
<1>3. i \in DOMAIN order.orders /\ j \in DOMAIN order.orders
  BY <1>1
<1>4. call'.shift[i] = shift[r[i]] /\ call'.shift[j] = shift[r[j]]
  BY <1>1, <1>3
<1>5. Ranks(r, shift) /\ ~GreenLit(order, shift, priced)
  BY <1>1 DEF Ranking
<1>6. RateOf(i)' = ReverseSlippageRate(order.orders[r[i]])
  BY <1>1 DEF RateOf
<1>7. OrderNotionals(order, shift, priced, r).shares[i] + 1
        >= Capacity(shift[r[j]] - X96, shift[r[i]],
                    ReverseSlippageRate(order.orders[r[i]]), order.reference)
  BY <1>1, <1>2, <1>3, <1>4, <1>5, NotionalsAreCheapest
<1> QED BY <1>1, <1>4, <1>6, <1>7

LEMMA CallPlaces ==
  ASSUME IInv, NEW paid \in BOOLEAN, placeOrderCall(paid)
  PROVE  PlacesWhatFits'
<1> DEFINE level == CutoffThreshold - 2 * X96
<1>1. PICK shift \in [DOMAIN order.orders -> Int],
           priced \in [DOMAIN order.orders -> BOOLEAN],
           r \in [DOMAIN order.orders -> DOMAIN order.orders] :
        /\ Ranking(order, shift, priced, r)
        /\ call'.order = order
        /\ call'.route = r
        /\ call'.shift = [k \in DOMAIN order.orders |-> shift[r[k]]]
        /\ call'.green = GreenLit(order, shift, priced)
        /\ call'.shares = OrderNotionals(order, shift, priced, r).shares
  BY CallIsRanked
<1>2. OrderOK(order) /\ order.reference \in Nat
  BY DEF placeOrderCall, IInv, TypeOK, OrderOK, Orders
<1> SUFFICES ASSUME Regular',
                    RoomTo(level, 1)' + RoomTo(level, 2)' + RoomTo(level, 3)'
                      >= order.reference
             PROVE  Total' >= order.reference - order.reference \div 10 - 5
  BY <1>1 DEF PlacesWhatFits
<1> DEFINE rank(k) == Rank(order, shift, r, k)
<1>3. \A k \in DOMAIN order.orders : RateOf(k)' = ReverseSlippageRate(order.orders[r[k]])
  BY <1>1 DEF RateOf
<1>4. \A k \in DOMAIN order.orders : ReverseSlippageRate(order.orders[r[k]]) > 0
  BY <1>1, <1>3 DEF Regular
<1>5. level \in Int
  BY PlaceOrderConstants, CutoffIsInt
<1>6. ASSUME NEW k \in 1..3
      PROVE  RoomTo(level, k)' = Capacity(level, rank(k).shift, rank(k).rate, order.reference)
  <2>1. CASE k \in DOMAIN order.orders
    <3>1. k \in DOMAIN call'.route /\ call'.shift[k] = shift[r[k]]
      BY <1>1, <2>1
    <3>2. rank(k).shift = shift[r[k]] /\ rank(k).rate = ReverseSlippageRate(order.orders[r[k]])
      BY <1>2, <2>1, RankOfRoute
    <3>3. RoomTo(level, k)'
            = Capacity(level, call'.shift[k], RateOf(k)', call'.order.reference)
      BY <3>1 DEF RoomTo, Capacity
    <3> QED BY <1>1, <1>3, <2>1, <3>1, <3>2, <3>3
  <2>2. CASE k \notin DOMAIN order.orders
    <3>1. RoomTo(level, k)' = 0
      BY <1>1, <2>2 DEF RoomTo
    <3>2. rank(k).shift = 0 /\ rank(k).rate = 0
      BY <2>2 DEF Rank, NoRank
    <3>3. Capacity(level, 0, 0, order.reference) = 0
      <4> DEFINE depth == (level - 0) \div X96
      <4>1. depth \in Int
        <5>1. level - 0 \in Int
          BY <1>5
        <5> QED BY <5>1, FloorIsInt, PlaceOrderConstants
      <4> HIDE DEF depth
      <4>2. depth * 0 = 0 /\ 0 \div 2 = 0
        BY <4>1
      <4> QED BY <1>2, <4>2 DEF Capacity, depth
    <3> QED BY <3>1, <3>2, <3>3
  <2> QED BY <2>1, <2>2
<1>7. Capacity(level, rank(1).shift, rank(1).rate, order.reference)
        + Capacity(level, rank(2).shift, rank(2).rate, order.reference)
        + Capacity(level, rank(3).shift, rank(3).rate, order.reference) >= order.reference
  BY <1>6
<1>8. FillsOrder(order, OrderNotionals(order, shift, priced, r).shares)
  BY <1>1, <1>2, <1>4, <1>7, NotionalsPlace
<1> QED BY <1>1, <1>8 DEF FillsOrder, Total

LEMMA NextIsCheapest ==
  IInv /\ CheapestFirst /\ PlacesWhatFits /\ [Next]_vars => CheapestFirst' /\ PlacesWhatFits'
<1> SUFFICES ASSUME IInv, CheapestFirst, PlacesWhatFits, [Next]_vars
             PROVE  CheapestFirst' /\ PlacesWhatFits'
  OBVIOUS
<1>1. ASSUME call' = NoCall PROVE CheapestFirst' /\ PlacesWhatFits'
  BY <1>1 DEF CheapestFirst, PlacesWhatFits, Called
<1>2. CASE \E p \in Pools : Move(p)
  BY <1>1, <1>2 DEF Move
<1>3. CASE \E i \in DOMAIN Routes, d \in 0..MaxDiff : Encode(i, d)
  BY <1>1, <1>3 DEF Encode
<1>4. CASE \E paid \in BOOLEAN : placeOrderCall(paid)
  BY <1>4, CallIsCheapest, CallPlaces
<1>5. CASE UNCHANGED vars
  BY <1>5 DEF vars, CheapestFirst, PlacesWhatFits, Called, RateOf, RoomTo, Regular, Total
<1> QED BY <1>2, <1>3, <1>4, <1>5 DEF Next

LEMMA StartIsCheapest == Init => CheapestFirst /\ PlacesWhatFits
BY DEF Init, CheapestFirst, PlacesWhatFits, Called

(* For any pools and prices, a route is sold to only after every better    *)
(* one has sold down to its price (sortOrders, PlaceOrder.sol:308-367).    *)
THEOREM RoutesAreCheapestFirst == Spec => []CheapestFirst
<1> QED BY InitIsInv, NextKeepsInv, StartIsCheapest, NextIsCheapest, PTL DEF Spec

(* An order that the routes have room for is placed, but for a tenth and   *)
(* what the divisions lose.                                                *)
THEOREM OrderIsPlaced == Spec => []PlacesWhatFits
<1> QED BY InitIsInv, NextKeepsInv, StartIsCheapest, NextIsCheapest, PTL DEF Spec

(* What each rank gets at least of the three ranges.                       *)
Parts(first, second, third, alone, volume2, volume3, s) ==
  LET rate2 == first.rate + second.rate
      rate3 == rate2 + third.rate
      p21   == Part(volume2, first, rate2)
      p22   == Part(volume2, second, rate2)
      p31   == Part(volume3, first, rate3)
      p32   == Part(volume3, second, rate3)
      p33   == Part(volume3, third, rate3)
  IN  /\ s[1] >= alone + p21 + p31 /\ s[2] >= p22 + p32 /\ s[3] = p33
      /\ p21 \in Nat /\ p22 \in Nat /\ p31 \in Nat /\ p32 \in Nat /\ p33 \in Nat

LEMMA SplitParts ==
  ASSUME NEW first \in RankRecords, NEW second \in RankRecords, NEW third \in RankRecords,
         NEW o \in Orders,
         NEW alone \in Nat, NEW volume2 \in Nat, NEW volume3 \in Nat, NEW left \in Nat,
         NEW flatter \in BOOLEAN,
         Ranges(o, first, second, third, alone, volume2, volume3)
  PROVE  Parts(first, second, third, alone, volume2, volume3,
               Split(first, second, third, alone, volume2, volume3, left, flatter))
<1> DEFINE rate2 == first.rate + second.rate
           rate3 == rate2 + third.rate
           p21   == Part(volume2, first, rate2)
           p22   == Part(volume2, second, rate2)
           p31   == Part(volume3, first, rate3)
           p32   == Part(volume3, second, rate3)
           p33   == Part(volume3, third, rate3)
           s     == Split(first, second, third, alone, volume2, volume3, left, flatter)
           l1    == IF flatter THEN 0 ELSE left
           l2    == IF flatter THEN left ELSE 0
<1>1. /\ first.rate \in Nat /\ second.rate \in Nat /\ third.rate \in Nat
      /\ rate2 \in Nat /\ rate3 \in Nat
  BY DEF RankRecords
<1>2. volume2 # 0 \/ volume3 # 0 => rate2 # 0
  BY DEF Ranges
<1>3. p21 \in Nat /\ p22 \in Nat
  <2>1. CASE volume2 = 0
    BY <2>1 DEF Part
  <2>2. CASE volume2 # 0
    BY <1>1, <1>2, <2>2, PartIsNat
  <2> QED BY <2>1, <2>2
<1>4. p31 \in Nat /\ p32 \in Nat /\ p33 \in Nat
  <2>1. CASE volume3 = 0
    BY <2>1 DEF Part
  <2>2. CASE volume3 # 0
    <3>1. rate3 \in Nat \ {0}
      BY <1>1, <1>2, <2>2
    <3> QED BY <1>1, <3>1, PartIsNat
  <2> QED BY <2>1, <2>2
<1>5. /\ s[1] = alone + p21 + p31 + l1
      /\ s[2] = p22 + p32 + l2
      /\ s[3] = p33
  BY DEF Split
<1>6. l1 \in Nat /\ l2 \in Nat
  OBVIOUS
<1> HIDE DEF s, p21, p22, p31, p32, p33, l1, l2
<1>7. s[1] >= alone + p21 + p31 /\ s[2] >= p22 + p32
  BY <1>3, <1>4, <1>5, <1>6
<1> QED BY <1>3, <1>4, <1>5, <1>7 DEF Parts, s, p21, p22, p31, p32, p33

(* Two or three parts of a way make up the room of the whole way.          *)
LEMMA RoomReached ==
  ASSUME NEW a \in Nat, NEW d \in Nat, NEW e \in Nat, NEW f \in Nat,
         NEW p \in Nat, NEW q \in Nat, NEW r \in Nat, NEW s \in Nat, NEW x \in Nat,
         2 * x <= (d + e + f) * a, s >= p + q + r,
         2 * p >= d * a - 1, 2 * q + 2 >= e * a, 2 * r + 2 >= f * a
  PROVE  s + 2 >= x
<1>1. (d + e + f) * a = d * a + e * a + f * a
  OBVIOUS
<1>2. d * a \in Int /\ e * a \in Int /\ f * a \in Int
  OBVIOUS
<1>3. 2 * x <= 2 * s + 5
  BY <1>1, <1>2
<1> QED BY <1>3

(* An order that is sold but for a tenth, or to what every route has room  *)
(* for.                                                                    *)
UsesRoom(o, s, room) ==
  \/ s[1] + s[2] + s[3] >= o.reference - o.reference \div 10 - 3
  \/ \A k \in 1..3 : s[k] + 2 >= room[k]

LEMMA SplitReaches ==
  ASSUME NEW first \in RankRecords, NEW second \in RankRecords, NEW third \in RankRecords,
         NEW o \in Orders,
         NEW alone \in Nat, NEW volume2 \in Nat, NEW volume3 \in Nat, NEW left \in Nat,
         NEW flatter \in BOOLEAN,
         Ranges(o, first, second, third, alone, volume2, volume3),
         first.shift <= second.shift, second.shift <= CutoffThreshold,
         NEW level, level = CutoffThreshold - 2 * X96
  PROVE  UsesRoom(o, Split(first, second, third, alone, volume2, volume3, left, flatter),
                  <<Capacity(level, first.shift, first.rate, o.reference),
                    Capacity(level, second.shift, second.rate, o.reference),
                    Capacity(level, third.shift, third.rate, o.reference)>>)
<1> DEFINE s == Split(first, second, third, alone, volume2, volume3, left, flatter)
           n     == o.reference
           eps   == o.reference \div 10
           rate2 == first.rate + second.rate
           rate3 == rate2 + third.rate
           three == third.shift <= CutoffThreshold
           level2 == IF three THEN third.shift ELSE CutoffThreshold
           room1 == Capacity(level, first.shift, first.rate, n)
           room2 == Capacity(level, second.shift, second.rate, n)
           room3 == Capacity(level, third.shift, third.rate, n)
           d12 == (second.shift - first.shift) \div X96
           d2  == (level2 - second.shift) \div X96
           d3  == (CutoffThreshold - third.shift) \div X96
           p21 == Part(volume2, first, rate2)
           p22 == Part(volume2, second, rate2)
           p31 == Part(volume3, first, rate3)
           p32 == Part(volume3, second, rate3)
           p33 == Part(volume3, third, rate3)
<1> SUFFICES UsesRoom(o, s, <<room1, room2, room3>>)
  OBVIOUS
<1>0. /\ first.shift \in Int /\ first.rate \in Nat
      /\ second.shift \in Int /\ second.rate \in Nat
      /\ third.shift \in Int /\ third.rate \in Nat
      /\ n \in Nat /\ X96 \in Nat \ {0} /\ CutoffThreshold \in Int
  BY PlaceOrderConstants, CutoffIsInt DEF RankRecords, Orders
<1>1. /\ eps \in Nat /\ eps <= n /\ level \in Int /\ level2 \in Int
      /\ rate2 \in Nat /\ rate3 \in Nat
  BY <1>0
<1>2. /\ s[1] \in Nat /\ s[2] \in Nat /\ s[3] \in Nat
      /\ s[1] + s[2] + s[3] >= alone + volume2 + volume3 - 3
  <2>1. Amounts(first, second, third, alone, volume2, volume3, s)
    BY SplitIsShares
  <2> HIDE DEF s
  <2> QED BY <2>1 DEF Amounts
<1>3. /\ s[1] >= alone + p21 + p31 /\ s[2] >= p22 + p32 /\ s[3] = p33
      /\ p21 \in Nat /\ p22 \in Nat /\ p31 \in Nat /\ p32 \in Nat /\ p33 \in Nat
  <2>1. Parts(first, second, third, alone, volume2, volume3, s)
    BY SplitParts
  <2> HIDE DEF s
  <2> QED BY <2>1 DEF Parts
<1>4. room1 \in Nat /\ room2 \in Nat /\ room3 \in Nat
  <2>1. room1 \in 0..n /\ room2 \in 0..n /\ room3 \in 0..n
    BY <1>0, <1>1, CapacityBounds
  <2> HIDE DEF room1, room2, room3
  <2> QED BY <1>0, <2>1
<1> HIDE DEF s, p21, p22, p31, p32, p33
<1>5. ASSUME alone + volume2 + volume3 >= n - eps
      PROVE  UsesRoom(o, s, <<room1, room2, room3>>)
  <2>1. s[1] + s[2] + s[3] >= n - eps - 3
    BY <1>0, <1>1, <1>2, <1>5
  <2> QED BY <2>1 DEF UsesRoom
<1>6. ASSUME s[1] + 2 >= room1, s[2] + 2 >= room2, s[3] + 2 >= room3
      PROVE  UsesRoom(o, s, <<room1, room2, room3>>)
  <2> DEFINE room == <<room1, room2, room3>>
  <2>1. room[1] = room1 /\ room[2] = room2 /\ room[3] = room3
    OBVIOUS
  <2> HIDE DEF room, room1, room2, room3
  <2>2. \A k \in 1..3 : s[k] + 2 >= room[k]
    <3> SUFFICES ASSUME NEW k \in 1..3 PROVE s[k] + 2 >= room[k]
      OBVIOUS
    <3>1. k = 1 \/ k = 2 \/ k = 3
      OBVIOUS
    <3> QED BY <1>6, <2>1, <3>1
  <2>3. UsesRoom(o, s, room)
    BY <2>2 DEF UsesRoom
  <2> QED BY <2>3 DEF room
<1>7. alone = Capacity(second.shift, first.shift, first.rate, n)
  BY DEF Ranges
<1>8. CASE volume2 = 0 /\ volume3 = 0 /\ n - alone <= eps
  <2>1. alone + volume2 + volume3 >= n - eps
    BY <1>0, <1>1, <1>8
  <2> QED BY <1>5, <2>1
<1>9. CASE /\ rate2 # 0 /\ n - alone > 0
           /\ volume2 = Capacity(level2, second.shift, rate2, n - alone)
           /\ IF three /\ n - alone - volume2 > eps
              THEN volume3 = Capacity(CutoffThreshold, third.shift, rate3,
                                      n - alone - volume2)
              ELSE volume3 = 0
  <2>1. n - alone \in Nat /\ alone < n /\ rate2 \in Nat \ {0} /\ rate3 \in Nat \ {0}
    BY <1>0, <1>1, <1>9
  <2>2. d12 \in Int /\ 2 * alone >= d12 * first.rate - 1
    BY <1>0, <1>7, <2>1, CapacityIs
  <2>3. d12 \in Nat
    <3>1. second.shift - first.shift \in Nat
      BY <1>0
    <3> QED BY <1>0, <3>1, Quotient
  <2>4. volume2 \in 0..(n - alone)
    BY <1>0, <1>1, <1>9, <2>1, CapacityBounds
  <2>5. CASE volume2 = n - alone
    <3>1. alone + volume2 + volume3 >= n - eps
      BY <1>0, <1>1, <2>5
    <3> QED BY <1>5, <3>1
  <2>6. CASE volume2 < n - alone
    <3>1. d2 \in Int /\ 2 * volume2 >= d2 * rate2 - 1
      BY <1>0, <1>1, <1>9, <2>1, <2>6, CapacityIs
    <3> DEFINE e == IF d2 < 0 THEN 0 ELSE d2
    <3>2. e \in Nat /\ d2 <= e /\ 2 * volume2 >= e * rate2 - 1
      <4> HIDE DEF d2
      <4>1. CASE d2 < 0
        <5>1. e = 0 /\ 0 * rate2 = 0
          BY <1>1, <4>1
        <5> QED BY <3>1, <4>1, <5>1
      <4>2. CASE ~(d2 < 0)
        BY <3>1, <4>2
      <4> QED BY <4>1, <4>2
    <3> HIDE DEF e
    <3>3. 2 * p21 + 2 >= e * first.rate /\ 2 * p22 + 2 >= e * second.rate
      <4>1. first.rate <= rate2 /\ second.rate <= rate2 /\ e \in Int
        BY <1>0, <3>2
      <4> QED BY <2>1, <3>2, <4>1, PartReaches DEF p21, p22
    <3>4. CASE ~three
      <4>1. level2 = CutoffThreshold
        BY <1>0, <3>4
      <4>2. (level - first.shift) \div X96 <= d12 + e
        <5>1. (CutoffThreshold - X96 - first.shift) \div X96 <= d12 + d2
          BY <1>0, <4>1, TwoWays
        <5>2. /\ level - first.shift \in Int
              /\ CutoffThreshold - X96 - first.shift \in Int
              /\ level - first.shift <= CutoffThreshold - X96 - first.shift
          BY <1>0
        <5>3. (level - first.shift) \div X96 <= (CutoffThreshold - X96 - first.shift) \div X96
          BY <1>0, <5>2, FloorGrows
        <5>4. /\ (level - first.shift) \div X96 \in Int
              /\ (CutoffThreshold - X96 - first.shift) \div X96 \in Int
          BY <1>0, <5>2, FloorIsInt
        <5> HIDE DEF d12, d2
        <5> QED BY <2>3, <3>1, <3>2, <5>1, <5>3, <5>4
      <4>3. (level - second.shift) \div X96 <= e
        <5>1. /\ level - second.shift \in Int /\ CutoffThreshold - second.shift \in Int
              /\ level - second.shift <= CutoffThreshold - second.shift
          BY <1>0
        <5>2. (level - second.shift) \div X96 <= d2
          BY <1>0, <4>1, <5>1, FloorGrows
        <5>3. (level - second.shift) \div X96 \in Int
          BY <1>0, <5>1, FloorIsInt
        <5> HIDE DEF d2
        <5> QED BY <3>1, <3>2, <5>2, <5>3
      <4>4. (level - third.shift) \div X96 <= 0
        <5>1. level - third.shift \in Int /\ level - third.shift <= 0
          BY <1>0, <3>4
        <5> QED BY <1>0, <5>1, QuotientSign
      <4> HIDE DEF d12, d2
      <4>5. d12 + e + 0 \in Nat /\ d12 + e + 0 = d12 + e /\ e + 0 = e
        BY <2>3, <3>2
      <4>6. 2 * room1 <= (d12 + e + 0) * first.rate
        BY <1>0, <1>1, <4>2, <4>5, RoomWithin
      <4>7. 2 * room2 <= (0 + e + 0) * second.rate
        <5>1. 0 + e + 0 = e
          BY <3>2
        <5> QED BY <1>0, <1>1, <3>2, <4>3, <5>1, RoomWithin
      <4>8. room3 = 0
        <5>1. 2 * room3 <= 0 * third.rate
          BY <1>0, <1>1, <4>4, RoomWithin
        <5>2. 0 * third.rate = 0
          BY <1>0
        <5> HIDE DEF room3
        <5> QED BY <1>4, <5>1, <5>2
      <4> HIDE DEF room1, room2, room3
      <4>9. 2 * p31 + 2 >= 0 * first.rate /\ 2 * p32 + 2 >= 0 * second.rate
        <5>1. 0 * first.rate = 0 /\ 0 * second.rate = 0
          BY <1>0
        <5> QED BY <1>3, <5>1
      <4>10. s[1] + 2 >= room1
        BY <1>0, <1>2, <1>3, <1>4, <2>2, <2>3, <3>2, <3>3, <4>6, <4>9, RoomReached
      <4>11. s[2] + 2 >= room2
        <5>1. 0 \in Nat /\ s[2] >= 0 + p22 + p32 /\ 0 * second.rate = 0
          BY <1>0, <1>3
        <5>2. 2 * 0 >= 0 * second.rate - 1
          BY <5>1
        <5> QED BY <1>0, <1>2, <1>3, <1>4, <3>2, <3>3, <4>7, <4>9, <5>1, <5>2, RoomReached
      <4>12. s[3] + 2 >= room3
        BY <1>2, <4>8
      <4> QED BY <1>6, <4>10, <4>11, <4>12
    <3>5. CASE three /\ n - alone - volume2 <= eps
      <4>1. alone + volume2 + volume3 >= n - eps
        BY <1>0, <1>1, <3>5
      <4> QED BY <1>5, <4>1
    <3>6. CASE three /\ n - alone - volume2 > eps
      <4>1. n - alone - volume2 \in Nat
        BY <1>0, <1>1, <3>6
      <4>2. volume3 = Capacity(CutoffThreshold, third.shift, rate3, n - alone - volume2)
        BY <1>9, <3>6
      <4>3. volume3 \in 0..(n - alone - volume2)
        BY <1>0, <1>1, <4>1, <4>2, CapacityBounds
      <4>4. CASE volume3 = n - alone - volume2
        <5>1. alone + volume2 + volume3 >= n - eps
          BY <1>0, <1>1, <4>4
        <5> QED BY <1>5, <5>1
      <4>5. CASE volume3 < n - alone - volume2
        <5>1. d3 \in Int /\ 2 * volume3 >= d3 * rate3 - 1
          BY <1>0, <1>1, <4>1, <4>2, <4>5, CapacityIs
        <5>2. d3 \in Nat
          <6>1. CutoffThreshold - third.shift \in Nat
            BY <1>0, <3>6
          <6> QED BY <1>0, <6>1, Quotient
        <5>3. level2 = third.shift
          BY <3>6
        <5>4. (level - first.shift) \div X96 <= d12 + e + d3
          <6>1. (level - first.shift) \div X96 <= d12 + d2 + d3
            BY <1>0, <5>3, ThreeWays
          <6>2. (level - first.shift) \div X96 \in Int
            BY <1>0, <1>1, FloorIsInt
          <6> HIDE DEF d12, d2, d3
          <6> QED BY <2>3, <3>1, <3>2, <5>2, <6>1, <6>2
        <5>5. (level - second.shift) \div X96 <= e + d3
          <6>1. (CutoffThreshold - X96 - second.shift) \div X96 <= d2 + d3
            BY <1>0, <5>3, TwoWays
          <6>2. /\ level - second.shift \in Int
                /\ CutoffThreshold - X96 - second.shift \in Int
                /\ level - second.shift <= CutoffThreshold - X96 - second.shift
            BY <1>0
          <6>3. (level - second.shift) \div X96 <= (CutoffThreshold - X96 - second.shift) \div X96
            BY <1>0, <6>2, FloorGrows
          <6>4. /\ (level - second.shift) \div X96 \in Int
                /\ (CutoffThreshold - X96 - second.shift) \div X96 \in Int
            BY <1>0, <6>2, FloorIsInt
          <6> HIDE DEF d2, d3
          <6> QED BY <3>1, <3>2, <5>2, <6>1, <6>3, <6>4
        <5>6. (level - third.shift) \div X96 <= d3
          <6>1. /\ level - third.shift \in Int /\ CutoffThreshold - third.shift \in Int
                /\ level - third.shift <= CutoffThreshold - third.shift
            BY <1>0
          <6> QED BY <1>0, <6>1, FloorGrows
        <5> HIDE DEF d12, d2, d3
        <5>7. /\ 2 * p31 + 2 >= d3 * first.rate /\ 2 * p32 + 2 >= d3 * second.rate
              /\ 2 * p33 + 2 >= d3 * third.rate
          <6>1. first.rate <= rate3 /\ second.rate <= rate3 /\ third.rate <= rate3
            BY <1>0
          <6> QED BY <2>1, <5>1, <6>1, PartReaches DEF p31, p32, p33
        <5>8. 2 * room1 <= (d12 + e + d3) * first.rate
          <6>1. d12 + e + d3 \in Nat
            BY <2>3, <3>2, <5>2
          <6> QED BY <1>0, <1>1, <5>4, <6>1, RoomWithin
        <5>9. 2 * room2 <= (0 + e + d3) * second.rate
          <6>1. 0 + e + d3 \in Nat /\ 0 + e + d3 = e + d3
            BY <3>2, <5>2
          <6> QED BY <1>0, <1>1, <5>5, <6>1, RoomWithin
        <5>10. 2 * room3 <= d3 * third.rate
          BY <1>0, <1>1, <5>2, <5>6, RoomWithin
        <5> HIDE DEF room1, room2, room3
        <5>11. s[1] + 2 >= room1
          BY <1>0, <1>2, <1>3, <1>4, <2>2, <2>3, <3>2, <3>3, <5>2, <5>7, <5>8, RoomReached
        <5>12. s[2] + 2 >= room2
          <6>1. 0 \in Nat /\ s[2] >= 0 + p22 + p32 /\ 0 * second.rate = 0
            BY <1>0, <1>3
          <6>2. 2 * 0 >= 0 * second.rate - 1
            BY <6>1
          <6> QED BY <1>0, <1>2, <1>3, <1>4, <3>2, <3>3, <5>2, <5>7, <5>9, <6>1, <6>2, RoomReached
        <5>13. s[3] + 2 >= room3
          <6>1. d3 * third.rate \in Int
            BY <1>0, <5>2
          <6> QED BY <1>2, <1>3, <1>4, <5>7, <5>10, <6>1
        <5> QED BY <1>6, <5>11, <5>12, <5>13
      <4> QED BY <4>1, <4>3, <4>4, <4>5
    <3> QED BY <1>0, <1>1, <2>4, <3>4, <3>5, <3>6
  <2> QED BY <2>1, <2>4, <2>5, <2>6
<1> QED BY <1>8, <1>9 DEF Ranges

(* Something is sold: a share that is not below the smallest order.        *)
Sells(o, s) == \E j \in 1..3 : s[j] >= MinOrderSize(o) /\ s[j] > 0

LEMMA UsedRoomSells ==
  ASSUME NEW o, OrderOK(o), NEW s, s[1] \in Nat, s[2] \in Nat, s[3] \in Nat,
         NEW room, NEW k \in 1..3, room[k] \in 0..o.reference,
         UsesRoom(o, s, room), room[k] >= MinOrderSize(o) + 4
  PROVE  Sells(o, s)
<1> DEFINE n   == o.reference
           eps == o.reference \div 10
           min == MinOrderSize(o)
<1>1. n \in Nat /\ o.minRate \in Nat /\ o.minRate >= 10
  BY DEF OrderOK, Orders
<1>2. min \in Nat /\ min <= eps /\ eps \in Nat /\ 10 * eps <= n
  <2>1. eps \in Nat /\ 10 * eps <= n
    BY <1>1
  <2> QED BY <1>1, <2>1, SmallestWithinEpsilon DEF MinOrderSize
<1>3. n >= min + 4 /\ room[k] \in Nat
  BY <1>1, <1>2
<1> HIDE DEF n, eps, min
<1> SUFFICES ASSUME \A j \in 1..3 : ~(s[j] >= min /\ s[j] > 0) PROVE FALSE
  BY DEF Sells, min
<1>4. /\ ~(s[1] >= min /\ s[1] > 0) /\ ~(s[2] >= min /\ s[2] > 0)
      /\ ~(s[3] >= min /\ s[3] > 0)
  OBVIOUS
<1>5. CASE s[1] + s[2] + s[3] >= n - eps - 3
  BY <1>1, <1>2, <1>3, <1>4, <1>5
<1>6. CASE \A j \in 1..3 : s[j] + 2 >= room[j]
  <2>1. s[k] \in Nat /\ ~(s[k] >= min /\ s[k] > 0)
    <3>1. k = 1 \/ k = 2 \/ k = 3
      OBVIOUS
    <3> QED BY <1>4, <3>1
  <2>2. s[k] + 2 >= room[k] /\ room[k] >= min + 4
    BY <1>6 DEF min
  <2> QED BY <1>2, <1>3, <2>1, <2>2
<1> QED BY <1>5, <1>6 DEF UsesRoom, n, eps

(* One route alone sells what it has room for.                             *)
LEMMA AloneSells ==
  ASSUME NEW o, OrderOK(o), NEW first \in RankRecords, NEW level \in Int,
         level <= CutoffThreshold,
         Capacity(level, first.shift, first.rate, o.reference) >= MinOrderSize(o) + 4
  PROVE  Sells(o, Shares(Alone(o, first)).shares)
<1> DEFINE n   == o.reference
           low == Capacity(level, first.shift, first.rate, n)
           top == Capacity(CutoffThreshold, first.shift, first.rate, n)
<1>1. n \in Nat /\ o.minRate \in Nat /\ o.minRate >= 10 /\ first.shift \in Int /\ first.rate \in Nat
  BY DEF OrderOK, Orders, RankRecords
<1>2. low \in 0..n /\ top \in 0..n /\ low <= top
  BY <1>1, CutoffIsInt, CapacityBounds, CapacityGrows
<1>3. low >= MinOrderSize(o) + 4
  OBVIOUS
<1>4. MinOrderSize(o) \in Nat
  <2>1. n \div 10 <= n
    BY <1>1
  <2> QED BY <1>1, <2>1, SmallestWithinEpsilon DEF MinOrderSize
<1> HIDE DEF low
<1>5. top >= MinOrderSize(o) /\ top > 0
  <2> HIDE DEF top
  <2> QED BY <1>1, <1>2, <1>3, <1>4
<1>6. Alone(o, first) = top
  BY <1>5 DEF Alone
<1> HIDE DEF top
<1>7. Shares(top).shares[1] = top
  BY DEF Shares
<1> QED BY <1>5, <1>6, <1>7 DEF Sells

(* A route with room for the smallest order, wherever it ranks: something  *)
(* is sold.                                                                *)
LEMMA NotionalsSell ==
  ASSUME NEW o, OrderOK(o), NEW shift \in [DOMAIN o.orders -> Int], NEW priced,
         NEW r \in [DOMAIN o.orders -> DOMAIN o.orders],
         Ranking(o, shift, priced, r),
         \A k \in DOMAIN o.orders : ReverseSlippageRate(o.orders[r[k]]) > 0,
         NEW level, level = CutoffThreshold - 2 * X96,
         NEW w \in DOMAIN o.orders,
         Capacity(level, Rank(o, shift, r, w).shift, Rank(o, shift, r, w).rate, o.reference)
           >= MinOrderSize(o) + 4
  PROVE  Sells(o, OrderNotionals(o, shift, priced, r).shares)
<1> DEFINE rank(k) == Rank(o, shift, r, k)
           room(k) == Capacity(level, rank(k).shift, rank(k).rate, o.reference)
           n == o.reference
           N == OrderNotionals(o, shift, priced, r)
<1>1. /\ DOMAIN o.orders = 1..Len(o.orders) /\ Len(o.orders) \in {1, 2, 3} /\ o \in Orders
      /\ o.minRate >= 10 /\ o.minRate \in Nat /\ n \in Nat
  BY DEF OrderOK, Orders, MaxRoutes
<1>2. rank(1) \in RankRecords /\ rank(2) \in RankRecords /\ rank(3) \in RankRecords
  BY RankIsRecord
<1>3. level \in Int /\ CutoffThreshold \in Nat /\ level <= CutoffThreshold
  BY PlaceOrderConstants DEF CutoffThreshold
<1>4. \A k \in 1..3 : rank(k) \in RankRecords /\ rank(k).shift \in Int /\ rank(k).rate \in Nat
  BY <1>2 DEF RankRecords
<1>5. \A k \in DOMAIN o.orders :
        rank(k).shift = shift[r[k]] /\ rank(k).rate > 0
  BY RankOfRoute
<1>6. w \in 1..3 /\ (w = 1 \/ w = 2 \/ w = 3) /\ (Len(o.orders) = 1 => w = 1)
  <2> DEFINE len == Len(o.orders)
  <2>1. w \in 1..len /\ len \in {1, 2, 3}
    BY <1>1
  <2> HIDE DEF len
  <2>2. w \in 1..3 /\ (len = 1 => w = 1)
    BY <2>1
  <2> QED BY <2>2 DEF len
<1>7. MinOrderSize(o) \in Nat /\ MinOrderSize(o) <= n
  <2> DEFINE e == n \div 10
             m == MinOrderSize(o)
  <2>1. e <= n /\ e \in Nat
    BY <1>1
  <2>2. m \in Nat /\ m <= e
    BY <1>1, SmallestWithinEpsilon DEF MinOrderSize
  <2> HIDE DEF e, m
  <2>3. m \in Nat /\ m <= n
    BY <1>1, <2>1, <2>2
  <2> QED BY <2>3 DEF m
<1>8. room(w) \in 0..n /\ room(w) >= MinOrderSize(o) + 4
  <2>1. room(w) \in 0..n
    BY <1>1, <1>3, <1>4, <1>6, CapacityBounds
  <2> QED BY <2>1
<1> HIDE DEF rank
<1>9. ASSUME level <= rank(w).shift PROVE FALSE
  <2>1. room(w) = 0
    BY <1>1, <1>3, <1>4, <1>6, <1>9, RoomBeyond
  <2> HIDE DEF room
  <2> QED BY <1>7, <1>8, <2>1
<1>10. CASE GreenLit(o, shift, priced)
  <2>1. N = Shares(n)
    BY <1>10 DEF OrderNotionals
  <2>2. Shares(n).shares[1] = n
    BY DEF Shares
  <2>3. n >= MinOrderSize(o) /\ n > 0
    <3> HIDE DEF room
    <3> QED BY <1>1, <1>7, <1>8
  <2> HIDE DEF N, n
  <2>4. N.shares[1] >= MinOrderSize(o) /\ N.shares[1] > 0
    BY <2>1, <2>2, <2>3
  <2>5. Sells(o, N.shares)
    BY <2>4 DEF Sells
  <2> QED BY <2>5 DEF N
<1>11. CASE ~GreenLit(o, shift, priced) /\ Len(o.orders) = 1
  <2>1. N = Shares(Alone(o, rank(1))) /\ w = 1
    BY <1>6, <1>11 DEF OrderNotionals, rank
  <2>2. Capacity(level, rank(1).shift, rank(1).rate, o.reference) >= MinOrderSize(o) + 4
    BY <1>8, <2>1
  <2> QED BY <1>2, <1>3, <2>1, <2>2, AloneSells
<1>12. CASE ~GreenLit(o, shift, priced) /\ Len(o.orders) # 1
  <2>1. N = SortOrders(o, rank(1), rank(2), rank(3))
    BY <1>12 DEF OrderNotionals, rank
  <2>2. Ranks(r, shift) /\ 1 \in DOMAIN o.orders /\ 2 \in DOMAIN o.orders
    <3>1. 1 \in 1..Len(o.orders) /\ 2 \in 1..Len(o.orders)
      <4> DEFINE len == Len(o.orders)
      <4>1. len \in {2, 3}
        BY <1>1, <1>12
      <4> HIDE DEF len
      <4>2. 1 \in 1..len /\ 2 \in 1..len
        BY <4>1
      <4> QED BY <4>2 DEF len
    <3> QED BY <1>1, <1>12, <3>1 DEF Ranking
  <2>3. \A i, j \in DOMAIN o.orders : i < j => rank(i).shift <= rank(j).shift
    <3> SUFFICES ASSUME NEW i \in DOMAIN o.orders, NEW j \in DOMAIN o.orders, i < j
                 PROVE  rank(i).shift <= rank(j).shift
      OBVIOUS
    <3>1. shift[r[i]] \in Int /\ shift[r[j]] \in Int /\ DOMAIN r = DOMAIN o.orders
      OBVIOUS
    <3>2. shift[r[i]] <= shift[r[j]]
      BY <3>1, <2>2 DEF Ranks
    <3> QED BY <1>5, <3>2
  <2>4. ASSUME NEW i \in DOMAIN o.orders, i <= w, rank(i).shift > CutoffThreshold
        PROVE  FALSE
    <3>1. i \in Int /\ w \in Int
      BY <1>1, <1>6
    <3>2. rank(i).shift <= rank(w).shift
      <4>1. CASE i = w
        <5>1. rank(w).shift \in Int
          BY <1>4, <1>6
        <5> QED BY <4>1, <5>1
      <4>2. CASE i # w
        <5>1. i < w
          BY <2>4, <3>1, <4>2
        <5> QED BY <2>3, <5>1
      <4> QED BY <4>1, <4>2
    <3>3. rank(i).shift \in Int /\ rank(w).shift \in Int
      <4>1. i \in 1..3
        <5> DEFINE len == Len(o.orders)
        <5>1. i \in 1..len /\ len \in {1, 2, 3}
          BY <1>1
        <5> HIDE DEF len
        <5> QED BY <5>1
      <4> QED BY <1>4, <1>6, <4>1
    <3>4. level <= rank(w).shift
      BY <1>3, <2>4, <3>2, <3>3
    <3> QED BY <1>9, <3>4
  <2>5. ~(rank(1).shift > CutoffThreshold)
    BY <1>6, <2>2, <2>4
  <2>6. CASE rank(2).shift > CutoffThreshold
    <3>1. N = Shares(Alone(o, rank(1)))
      BY <2>1, <2>5, <2>6 DEF SortOrders
    <3>2. w = 1
      BY <1>6, <2>2, <2>4, <2>6
    <3>3. Capacity(level, rank(1).shift, rank(1).rate, o.reference) >= MinOrderSize(o) + 4
      BY <1>8, <3>2
    <3> QED BY <1>2, <1>3, <3>1, <3>3, AloneSells
  <2>7. CASE ~(rank(2).shift > CutoffThreshold)
    <3> DEFINE S == Spread(o, rank(1), rank(2), rank(3))
    <3>1. N = S
      BY <2>1, <2>5, <2>7 DEF SortOrders
    <3>2. rank(1).rate + rank(2).rate # 0
      <4>1. rank(1).rate \in Nat /\ rank(2).rate \in Nat /\ rank(1).rate > 0
        BY <1>4, <1>5, <2>2
      <4> QED BY <4>1
    <3>3. ~S.panic
      BY <3>2 DEF Spread
    <3>4. PICK alone \in Nat, volume2 \in Nat, volume3 \in Nat, left \in Nat,
               flatter \in BOOLEAN :
            /\ Ranges(o, rank(1), rank(2), rank(3), alone, volume2, volume3)
            /\ S.shares
                 = Split(rank(1), rank(2), rank(3), alone, volume2, volume3, left, flatter)
      BY <1>1, <1>2, <3>3, SpreadIsSplit
    <3>5. rank(2).shift <= CutoffThreshold /\ rank(1).shift <= rank(2).shift
      BY <1>3, <1>4, <2>2, <2>3, <2>7
    <3>6. UsesRoom(o, S.shares, <<room(1), room(2), room(3)>>)
      <4> DEFINE a == rank(1)
                 b == rank(2)
                 c == rank(3)
      <4>1. a \in RankRecords /\ b \in RankRecords /\ c \in RankRecords /\ o \in Orders
            /\ Ranges(o, a, b, c, alone, volume2, volume3)
            /\ a.shift <= b.shift /\ b.shift <= CutoffThreshold
        BY <1>1, <1>2, <3>4, <3>5
      <4> HIDE DEF a, b, c
      <4>2. UsesRoom(o, Split(a, b, c, alone, volume2, volume3, left, flatter),
                     <<Capacity(level, a.shift, a.rate, o.reference),
                       Capacity(level, b.shift, b.rate, o.reference),
                       Capacity(level, c.shift, c.rate, o.reference)>>)
        BY <4>1, SplitReaches
      <4> QED BY <3>4, <4>2 DEF a, b, c
    <3>7. S.shares[1] \in Nat /\ S.shares[2] \in Nat /\ S.shares[3] \in Nat
      <4>1. Amounts(rank(1), rank(2), rank(3), alone, volume2, volume3,
                    Split(rank(1), rank(2), rank(3), alone, volume2, volume3, left, flatter))
        <5> DEFINE a == rank(1)
                   b == rank(2)
                   c == rank(3)
        <5>1. a \in RankRecords /\ b \in RankRecords /\ c \in RankRecords /\ o \in Orders
              /\ Ranges(o, a, b, c, alone, volume2, volume3)
          BY <1>1, <1>2, <3>4
        <5> HIDE DEF a, b, c
        <5>2. Amounts(a, b, c, alone, volume2, volume3,
                      Split(a, b, c, alone, volume2, volume3, left, flatter))
          BY <5>1, SplitIsShares
        <5> QED BY <5>2 DEF a, b, c
      <4>2. Amounts(rank(1), rank(2), rank(3), alone, volume2, volume3, S.shares)
        <5> HIDE DEF S
        <5> QED BY <3>4, <4>1
      <4> HIDE DEF S
      <4> QED BY <4>2 DEF Amounts
    <3>8. <<room(1), room(2), room(3)>>[w] = room(w)
      BY <1>6
    <3> HIDE DEF S, room
    <3>9. Sells(o, S.shares)
      BY <1>1, <1>6, <1>8, <3>6, <3>7, <3>8, UsedRoomSells
    <3> QED BY <3>1, <3>9
  <2> QED BY <2>6, <2>7
<1> QED BY <1>10, <1>11, <1>12

LEMMA FactorCancels ==
  ASSUME NEW x \in Int, NEW y \in Int, NEW d \in Nat \ {0}, x * d <= y * d
  PROVE  x <= y
OBVIOUS

LEMMA FactorKeeps ==
  ASSUME NEW x \in Int, NEW y \in Int, NEW d \in Nat, x <= y
  PROVE  x * d <= y * d
OBVIOUS

LEMMA FactorKeepsLess ==
  ASSUME NEW x \in Int, NEW y \in Int, NEW d \in Nat \ {0}, x < y
  PROVE  x * d < y * d
OBVIOUS

(* A route that is not too shallow for the bot, as the contract measures   *)
(* its depth: the way to the cutoff, in steps of 1/Wei, times the slippage *)
(* of a step is a fifth of the order, but for three steps.                 *)
LEMMA DeepForContract ==
  ASSUME NEW spot \in Nat \ {0}, NEW base \in Nat, NEW slip \in Nat \ {0}, NEW n \in Nat,
         2 * slip * n * spot <= 10 * SlipUnit * ((Cutoff + Wei) * spot - base * Wei),
         NEW shift, shift = ((base * X96) \div spot - X96) * Wei
  PROVE  LET depth == (CutoffThreshold - 2 * X96 - shift) \div X96
         IN  shift \in Int /\ depth \in Int /\ slip * n < 5 * SlipUnit * (depth + 3)
<1> DEFINE q     == (base * X96) \div spot
           way   == CutoffThreshold - 2 * X96 - shift
           depth == way \div X96
           reach == Cutoff + Wei
           y     == reach * spot - base * Wei
<1>1. /\ X96 \in Nat \ {0} /\ Wei \in Nat \ {0} /\ SlipUnit \in Nat \ {0} /\ Cutoff \in Nat
      /\ reach \in Nat
  BY PlaceOrderConstants
<1>2. q \in Int /\ q * spot <= base * X96
  <2>1. base * X96 \in Int
    BY <1>1
  <2> QED BY <2>1, FloorBounds
<1> HIDE DEF q
<1>3. shift \in Int /\ shift = (q - X96) * Wei
  BY <1>1, <1>2 DEF q
<1>4. way \in Int /\ way = (reach - 2) * X96 - q * Wei
  <2>1. (q - X96) * Wei = q * Wei - X96 * Wei
    BY <1>1, <1>2
  <2>2. (reach - 2) * X96 = Cutoff * X96 + X96 * Wei - 2 * X96
    BY <1>1
  <2>3. q * Wei \in Int /\ X96 * Wei \in Int /\ Cutoff * X96 \in Int
    BY <1>1, <1>2
  <2> QED BY <1>1, <1>3, <2>1, <2>2, <2>3 DEF CutoffThreshold
<1> HIDE DEF way, reach
<1>5. depth \in Int /\ way < (depth + 1) * X96
  <2>1. depth \in Int /\ way < depth * X96 + X96
    BY <1>1, <1>4, FloorBounds
  <2> HIDE DEF depth
  <2> QED BY <1>1, <2>1
<1> HIDE DEF depth
<1>6. y \in Int
  BY <1>1
<1>7. (y - 2 * spot) * X96 <= way * spot
  <2>1. (q * spot) * Wei <= (base * X96) * Wei
    BY <1>1, <1>2
  <2>2. way * spot = (reach - 2) * X96 * spot - (q * spot) * Wei
    BY <1>1, <1>2, <1>4
  <2>3. (y - 2 * spot) * X96 = (reach - 2) * X96 * spot - (base * X96) * Wei
    BY <1>1
  <2>4. /\ (q * spot) * Wei \in Int /\ (base * X96) * Wei \in Int
        /\ (reach - 2) * X96 * spot \in Int
    BY <1>1, <1>2
  <2> HIDE DEF y
  <2> QED BY <2>1, <2>2, <2>3, <2>4
<1> HIDE DEF y
<1>8. y - 2 * spot < (depth + 1) * spot
  <2>1. way * spot < ((depth + 1) * X96) * spot
    <3>1. (depth + 1) * X96 \in Int
      BY <1>1, <1>5
    <3> QED BY <1>4, <1>5, <3>1, FactorKeepsLess
  <2>2. ((depth + 1) * X96) * spot = ((depth + 1) * spot) * X96
    BY <1>1, <1>5
  <2>3. /\ (depth + 1) * spot \in Int /\ y - 2 * spot \in Int /\ way * spot \in Int
        /\ ((depth + 1) * spot) * X96 \in Int /\ (y - 2 * spot) * X96 \in Int
    BY <1>1, <1>4, <1>5, <1>6
  <2>4. (y - 2 * spot) * X96 < ((depth + 1) * spot) * X96
    BY <1>7, <2>1, <2>2, <2>3
  <2> QED BY <1>1, <2>3, <2>4, FactorLess
<1>9. y < (depth + 3) * spot
  <2>1. (depth + 3) * spot = (depth + 1) * spot + 2 * spot
    BY <1>5
  <2>2. (depth + 1) * spot \in Int
    BY <1>5
  <2> QED BY <1>6, <1>8, <2>1, <2>2
<1>10. (slip * n) * spot <= y * (5 * SlipUnit)
  <2>1. 2 * slip * n * spot = 2 * ((slip * n) * spot)
    OBVIOUS
  <2>2. 10 * SlipUnit * y = 2 * (y * (5 * SlipUnit))
    BY <1>1, <1>6
  <2>3. (slip * n) * spot \in Int /\ y * (5 * SlipUnit) \in Int
    BY <1>1, <1>6
  <2>4. 2 * slip * n * spot <= 10 * SlipUnit * y
    BY DEF y, reach
  <2> QED BY <2>1, <2>2, <2>3, <2>4
<1>11. y * (5 * SlipUnit) < ((depth + 3) * spot) * (5 * SlipUnit)
  <2>1. (depth + 3) * spot \in Int /\ 5 * SlipUnit \in Nat \ {0}
    BY <1>1, <1>5
  <2> QED BY <1>6, <1>9, <2>1, FactorKeepsLess
<1>12. ((depth + 3) * spot) * (5 * SlipUnit) = (5 * SlipUnit * (depth + 3)) * spot
  BY <1>1, <1>5
<1>13. slip * n < 5 * SlipUnit * (depth + 3)
  <2>1. /\ slip * n \in Int /\ 5 * SlipUnit * (depth + 3) \in Int
        /\ (slip * n) * spot \in Int /\ y * (5 * SlipUnit) \in Int
        /\ (5 * SlipUnit * (depth + 3)) * spot \in Int
    BY <1>1, <1>5, <1>6
  <2>2. (slip * n) * spot < (5 * SlipUnit * (depth + 3)) * spot
    BY <1>10, <1>11, <1>12, <2>1
  <2> QED BY <2>1, <2>2, FactorLess
<1> QED BY <1>3, <1>5, <1>13 DEF depth, way

(* Clear of the smallest order: the contract finds room for it.            *)
LEMMA ClearHasRoom ==
  ASSUME NEW level \in Int, NEW shift \in Int, NEW slip \in Nat \ {0}, NEW n \in Nat,
         NEW m \in Nat, NEW rate, rate = SlipUnit \div slip, rate > 0,
         slip * n < 5 * SlipUnit * ((level - shift) \div X96 + 3),
         rate * n >= 5 * (rate + 1) * (2 * m + 3 * rate + 8)
  PROVE  Capacity(level, shift, rate, n) >= m + 4
<1> DEFINE depth == (level - shift) \div X96
           need  == 2 * m + 3 * rate + 8
           cap   == Capacity(level, shift, rate, n)
<1>1. SlipUnit \in Nat \ {0} /\ X96 \in Nat \ {0}
  BY PlaceOrderConstants
<1>2. rate \in Nat \ {0} /\ SlipUnit < (rate + 1) * slip
  <2>1. rate \in Int /\ SlipUnit < rate * slip + slip
    BY <1>1, FloorBounds
  <2> QED BY <2>1
<1>3. depth \in Int
  BY <1>1, FloorIsInt
<1> HIDE DEF depth
<1>4. need \in Nat /\ rate * n >= 5 * (rate + 1) * need
  BY <1>2
<1>5. slip * n < 5 * SlipUnit * (depth + 3)
  BY DEF depth
<1>6. depth + 3 \in Nat \ {0}
  <2>1. slip * n \in Nat /\ 5 * SlipUnit \in Nat
    BY <1>1
  <2> SUFFICES ASSUME depth + 3 <= 0 PROVE FALSE
    BY <1>3
  <2>2. 5 * SlipUnit * (depth + 3) <= 0
    BY <1>1, <1>3
  <2>3. 5 * SlipUnit * (depth + 3) \in Int
    BY <1>1, <1>3
  <2> QED BY <1>5, <2>1, <2>2, <2>3
<1>7. n < 5 * (rate + 1) * (depth + 3)
  <2>1. 5 * SlipUnit * (depth + 3) <= 5 * ((rate + 1) * slip) * (depth + 3)
    <3>1. SlipUnit * (5 * (depth + 3)) <= ((rate + 1) * slip) * (5 * (depth + 3))
      <4>1. SlipUnit \in Int /\ (rate + 1) * slip \in Int /\ 5 * (depth + 3) \in Nat
        BY <1>1, <1>2, <1>6
      <4>2. SlipUnit <= (rate + 1) * slip
        BY <1>2, <4>1
      <4> QED BY <4>1, <4>2, FactorKeeps
    <3>2. SlipUnit * (5 * (depth + 3)) = 5 * SlipUnit * (depth + 3)
      BY <1>1, <1>3
    <3>3. ((rate + 1) * slip) * (5 * (depth + 3)) = 5 * ((rate + 1) * slip) * (depth + 3)
      BY <1>2, <1>3
    <3> QED BY <3>1, <3>2, <3>3
  <2>2. 5 * ((rate + 1) * slip) * (depth + 3) = (5 * (rate + 1) * (depth + 3)) * slip
    BY <1>2, <1>3
  <2>3. /\ 5 * (rate + 1) * (depth + 3) \in Int /\ slip * n = n * slip /\ n * slip \in Int
        /\ 5 * SlipUnit * (depth + 3) \in Int
        /\ (5 * (rate + 1) * (depth + 3)) * slip \in Int
    BY <1>1, <1>2, <1>3
  <2>4. n * slip < (5 * (rate + 1) * (depth + 3)) * slip
    BY <1>5, <2>1, <2>2, <2>3
  <2> QED BY <2>3, <2>4, FactorLess
<1> HIDE DEF need
<1>8. need < (depth + 3) * rate
  <2>1. n * rate < (5 * (rate + 1) * (depth + 3)) * rate
    <3>1. 5 * (rate + 1) * (depth + 3) \in Int
      BY <1>2, <1>3
    <3> QED BY <1>2, <1>7, <3>1, FactorKeepsLess
  <2>2. (5 * (rate + 1) * (depth + 3)) * rate = ((depth + 3) * rate) * (5 * (rate + 1))
    BY <1>2, <1>3
  <2>3. 5 * (rate + 1) * need = need * (5 * (rate + 1)) /\ n * rate = rate * n
    BY <1>2, <1>4
  <2>4. /\ (depth + 3) * rate \in Int /\ 5 * (rate + 1) \in Nat \ {0} /\ n * rate \in Int
        /\ need * (5 * (rate + 1)) \in Int
        /\ ((depth + 3) * rate) * (5 * (rate + 1)) \in Int
    BY <1>2, <1>3, <1>4
  <2>5. need * (5 * (rate + 1)) < ((depth + 3) * rate) * (5 * (rate + 1))
    BY <1>4, <2>1, <2>2, <2>3, <2>4
  <2> QED BY <1>4, <2>4, <2>5, FactorLess
<1>9. 2 * m + 8 < depth * rate /\ depth * rate \in Int
  <2>1. (depth + 3) * rate = depth * rate + 3 * rate /\ depth * rate \in Int
    BY <1>2, <1>3
  <2> QED BY <1>2, <1>8, <2>1 DEF need
<1>10. n >= m + 4
  <2>1. (m + 4) * rate <= 5 * (rate + 1) * need
    <3>1. m + 4 <= need /\ rate <= 5 * (rate + 1)
      BY <1>2 DEF need
    <3>2. (m + 4) * rate <= need * rate
      BY <1>2, <1>4, <3>1, FactorKeeps
    <3>3. rate * need <= (5 * (rate + 1)) * need
      BY <1>2, <1>4, <3>1, FactorKeeps
    <3>4. /\ (m + 4) * rate \in Int /\ need * rate \in Int /\ need * rate = rate * need
          /\ (5 * (rate + 1)) * need \in Int
      BY <1>2, <1>4
    <3> QED BY <3>2, <3>3, <3>4
  <2>2. (m + 4) * rate <= n * rate
    <3>1. (m + 4) * rate \in Int /\ n * rate \in Int /\ n * rate = rate * n
          /\ 5 * (rate + 1) * need \in Int
      BY <1>2, <1>4
    <3> QED BY <1>4, <2>1, <3>1
  <2> QED BY <1>2, <2>2, FactorCancels
<1>11. cap \in 0..n /\ (cap < n => 2 * cap >= depth * rate - 1)
  BY <1>2, CapacityIs DEF depth
<1> HIDE DEF cap
<1> QED BY <1>9, <1>10, <1>11 DEF cap

(* What a pair of prices makes of a route, through Balancer or not.        *)
PriceOf(hops, prices) ==
  IF Len(hops) = 1 THEN prices[hops[1]] ELSE (prices[hops[1]] * prices[hops[2]]) \div X96

(* An order in flight has only routes that were deep enough when it was    *)
(* quoted.                                                                 *)
QuotedDeep ==
  order # NoOrder =>
    \A i \in DOMAIN order.orders :
      2 * order.orders[i].slip * order.reference * PriceOf(order.orders[i].hops, order.quoted)
        <= 10 * SlipUnit
             * ((Cutoff + Wei) * PriceOf(order.orders[i].hops, order.quoted)
                  - order.price * Wei)

LEMMA EncodeIsDeep ==
  ASSUME IInv, NEW i \in DOMAIN Routes, NEW d \in 0..MaxDiff, Encode(i, d)
  PROVE  QuotedDeep'
<1> DEFINE passing == Passing(i, d * Notional)
           base    == QuotedPrice(Routes[i])
           quote(n, kept) ==
             [reference |-> d * Notional,
              minRate   |-> MinOrderSizeRate(d),
              price     |-> base,
              orders    |-> [k \in 1..n |-> [hops |-> Routes[kept[k]],
                                             slip |-> RouteSlip(Routes[kept[k]])]],
              quoted    |-> price]
<1>0. PICK n \in 1..MaxRoutes : \E kept \in [1..n -> passing] : order' = quote(n, kept)
  BY DEF Encode
<1>1. PICK kept \in [1..n -> passing] : order' = quote(n, kept)
  BY <1>0
<1>2. price \in PriceMap
  BY DEF IInv, TypeOK, PriceMap
<1>3. \A k \in 1..n : /\ kept[k] \in DOMAIN Routes
                       /\ ~TooShallow(Routes[kept[k]], base, d * Notional)
  BY DEF Passing
<1> HIDE DEF passing
<1>4. /\ order'.reference = d * Notional /\ order'.price = base /\ order'.quoted = price
      /\ order'.orders = [k \in 1..n |-> [hops |-> Routes[kept[k]],
                                          slip |-> RouteSlip(Routes[kept[k]])]]
  BY <1>1
<1>5. d \in Nat /\ Notional \in Nat /\ d * Notional \in Nat
  BY RoutedOrderConstants
<1>6. base \in Nat
  BY <1>2, QuoteIsNat
<1> HIDE DEF base
<1> SUFFICES ASSUME NEW k \in 1..n
             PROVE  2 * RouteSlip(Routes[kept[k]]) * (d * Notional)
                        * PriceOf(Routes[kept[k]], price)
                      <= 10 * SlipUnit * ((Cutoff + Wei) * PriceOf(Routes[kept[k]], price)
                                            - base * Wei)
  BY <1>4 DEF QuotedDeep
<1> DEFINE slip == RouteSlip(Routes[kept[k]])
           spot == QuotedPrice(Routes[kept[k]])
<1>7. spot \in Nat /\ slip \in Nat \ {0}
  BY <1>2, <1>3, QuoteIsNat
<1>8. PriceOf(Routes[kept[k]], price) = spot
  BY DEF PriceOf, QuotedPrice
<1>9. ~(10 * SlipUnit * ((Cutoff + Wei) * spot - base * Wei) < 2 * slip * (d * Notional) * spot)
  BY <1>3 DEF TooShallow
<1> HIDE DEF slip, spot
<1>10. 10 * SlipUnit * ((Cutoff + Wei) * spot - base * Wei) \in Int
  <2>1. SlipUnit \in Int /\ Cutoff \in Int /\ Wei \in Int
    BY PlaceOrderConstants
  <2>2. (Cutoff + Wei) * spot \in Int /\ base * Wei \in Int
    BY <1>6, <1>7, <2>1
  <2> QED BY <2>1, <2>2
<1>11. 2 * slip * (d * Notional) * spot \in Int
  BY <1>5, <1>7
<1> QED BY <1>8, <1>9, <1>10, <1>11 DEF slip

LEMMA DeepStays ==
  IInv /\ QuotedDeep /\ [Next]_vars => QuotedDeep'
<1> SUFFICES ASSUME IInv, QuotedDeep, [Next]_vars PROVE QuotedDeep'
  OBVIOUS
<1>1. ASSUME order' = order PROVE QuotedDeep'
  BY <1>1 DEF QuotedDeep
<1>2. CASE \E p \in Pools : Move(p)
  BY <1>1, <1>2 DEF Move
<1>3. CASE \E i \in DOMAIN Routes, d \in 0..MaxDiff : Encode(i, d)
  BY <1>3, EncodeIsDeep
<1>4. CASE \E paid \in BOOLEAN : placeOrderCall(paid)
  BY <1>4 DEF placeOrderCall, QuotedDeep
<1>5. CASE UNCHANGED vars
  BY <1>1, <1>5 DEF vars
<1> QED BY <1>2, <1>3, <1>4, <1>5 DEF Next

LEMMA SpotIsQuote ==
  ASSUME price \in PriceMap, NEW hops, IsHops(hops), SpotPrice(hops, price) # 0
  PROVE  SpotPrice(hops, price) = PriceOf(hops, price) /\ PriceOf(hops, price) \in Nat \ {0}
<1>1. X96 \in Nat \ {0}
  BY PlaceOrderConstants
<1>2. 0 \div X96 = 0
  BY <1>1
<1>3. SpotPrice(hops, price) \in Nat
  BY PricesAreNat
<1>4. CASE Len(hops) = 1
  BY <1>3, <1>4 DEF SpotPrice, PriceOf
<1>5. CASE Len(hops) # 1
  <2>1. hops[1] \in Pools /\ hops[2] \in Pools
    BY <1>5, HopsInPools DEF IsHops
  <2>2. price[hops[1]] \in Nat /\ price[hops[2]] \in Nat
    BY <2>1 DEF PriceMap
  <2>3. hops[1] \notin Balancer /\ hops[2] \notin Balancer
    <3>1. 0 * price[hops[2]] = 0 /\ price[hops[1]] * 0 = 0 /\ 0 * 0 = 0
      BY <2>2
    <3> QED BY <1>2, <1>5, <3>1 DEF SpotPrice
  <2> QED BY <1>3, <1>5, <2>3 DEF SpotPrice, PriceOf
<1> QED BY <1>4, <1>5

-----------------------------------------------------------------------------
(* A call brakes only when it sells nothing.                               *)
LEMMA BrakesWithoutSale ==
  ASSUME IInv, NEW paid \in BOOLEAN, placeOrderCall(paid), call'.done = "braked"
  PROVE  ~Sells(order, call'.shares)
<1> DEFINE routes == DOMAIN order.orders
           shift  == [i \in routes |-> MarketAdverseShift(order, i, price)]
           priced == [i \in routes |-> SpotPrice(order.orders[i].hops, price) # 0]
           split(r) == OrderNotionals(order, shift, priced, r)
           sold(r)  == [k \in 1..MaxRoutes |-> Sold(order, split(r).shares[k])]
           spent(r) == sold(r)[1] + sold(r)[2] + sold(r)[3]
<1>1. PICK r \in [routes -> routes] :
        call' = [order  |-> order,
                 route  |-> r,
                 shift  |-> [k \in routes |-> shift[r[k]]],
                 priced |-> [k \in routes |-> priced[r[k]]],
                 green  |-> GreenLit(order, shift, priced),
                 shares |-> split(r).shares,
                 spent  |-> spent(r),
                 moved  |-> price # order.quoted,
                 done   |-> IF split(r).panic THEN "reverted"
                            ELSE IF spent(r) = 0 THEN "braked"
                            ELSE IF paid THEN "traded" ELSE "reverted"]
  BY DEF placeOrderCall
<1>2. call' \in Calls
  <2>1. IInv' /\ call' # NoCall
    <3>1. IInv'
      BY CallKeepsInv
    <3>2. call' # NoCall
      <4> HIDE DEF shift, priced, split, spent
      <4>1. call'.order = order /\ DOMAIN call' # DOMAIN NoCall
        BY <1>1 DEF NoCall
      <4> QED BY <4>1
    <3> QED BY <3>1, <3>2
  <2> QED BY <2>1 DEF IInv, TypeOK
<1> HIDE DEF shift, priced
<1>3. call'.shares = split(r).shares /\ spent(r) = 0
  <2> HIDE DEF split, spent
  <2>1. call'.done = IF split(r).panic THEN "reverted"
                     ELSE IF spent(r) = 0 THEN "braked"
                     ELSE IF paid THEN "traded" ELSE "reverted"
    BY <1>1
  <2> QED BY <1>1, <2>1
<1>4. call'.shares \in [1..MaxRoutes -> Nat]
  BY <1>2 DEF Calls
<1> HIDE DEF split
<1>5. \A k \in 1..3 : sold(r)[k] \in Nat /\ sold(r)[k] = Sold(order, call'.shares[k])
  <2>1. \A k \in 1..3 : split(r).shares[k] \in Nat
    BY <1>3, <1>4 DEF MaxRoutes
  <2> QED BY <1>3, <2>1, SoldFits DEF MaxRoutes
<1>6. \A k \in 1..3 : sold(r)[k] = 0
  <2>0. sold(r)[1] + sold(r)[2] + sold(r)[3] = 0
    BY <1>3
  <2> HIDE DEF sold
  <2>1. sold(r)[1] = 0 /\ sold(r)[2] = 0 /\ sold(r)[3] = 0
    <3> DEFINE x == sold(r)[1]
               y == sold(r)[2]
               z == sold(r)[3]
    <3>1. x \in Nat /\ y \in Nat /\ z \in Nat /\ x + y + z = 0
      BY <1>5, <2>0
    <3> HIDE DEF x, y, z
    <3>2. x = 0 /\ y = 0 /\ z = 0
      BY <3>1
    <3> QED BY <3>2 DEF x, y, z
  <2> SUFFICES ASSUME NEW k \in 1..3 PROVE sold(r)[k] = 0
    OBVIOUS
  <2>2. k = 1 \/ k = 2 \/ k = 3
    OBVIOUS
  <2> QED BY <2>1, <2>2
<1> HIDE DEF sold
<1>7. \A k \in 1..3 : Sold(order, call'.shares[k]) = 0
  BY <1>5, <1>6
<1>8. \A k \in 1..3 : call'.shares[k] \in Nat
  BY <1>4 DEF MaxRoutes
<1> QED BY <1>7, <1>8 DEF Sold, Sells

LEMMA CallUsesRoom ==
  ASSUME IInv, NEW paid \in BOOLEAN, placeOrderCall(paid)
  PROVE  RoomIsUsed'
<1> DEFINE level == CutoffThreshold - 2 * X96
<1>1. PICK shift \in [DOMAIN order.orders -> Int],
           priced \in [DOMAIN order.orders -> BOOLEAN],
           r \in [DOMAIN order.orders -> DOMAIN order.orders] :
        /\ Ranking(order, shift, priced, r)
        /\ call'.order = order
        /\ call'.route = r
        /\ call'.shift = [k \in DOMAIN order.orders |-> shift[r[k]]]
        /\ call'.green = GreenLit(order, shift, priced)
        /\ call'.shares = OrderNotionals(order, shift, priced, r).shares
  BY CallIsRanked
<1>2. OrderOK(order) /\ order.reference \in Nat
  BY DEF placeOrderCall, IInv, TypeOK, OrderOK, Orders
<1> SUFFICES ASSUME Regular', NEW k \in DOMAIN call'.route,
                    RoomTo(level, k)' >= MinOrderSize(order) + 4, call'.done = "braked"
             PROVE  FALSE
  BY <1>1 DEF RoomIsUsed, Worthwhile, MinOrderSize
<1> DEFINE rank == Rank(order, shift, r, k)
<1>3. \A i \in DOMAIN order.orders : RateOf(i)' = ReverseSlippageRate(order.orders[r[i]])
  BY <1>1 DEF RateOf
<1>4. \A i \in DOMAIN order.orders : ReverseSlippageRate(order.orders[r[i]]) > 0
  BY <1>1, <1>3 DEF Regular
<1>5. k \in DOMAIN order.orders /\ call'.shift[k] = shift[r[k]]
  BY <1>1
<1>6. RoomTo(level, k)' = Capacity(level, rank.shift, rank.rate, order.reference)
  <2>1. rank.shift = shift[r[k]] /\ rank.rate = ReverseSlippageRate(order.orders[r[k]])
    BY <1>2, <1>5, RankOfRoute
  <2>2. RoomTo(level, k)'
          = Capacity(level, call'.shift[k], RateOf(k)', call'.order.reference)
    BY <1>1, <1>5 DEF RoomTo, Capacity
  <2> QED BY <1>1, <1>3, <1>5, <2>1, <2>2
<1>7. Capacity(level, rank.shift, rank.rate, order.reference) >= MinOrderSize(order) + 4
  BY <1>6
<1>8. Sells(order, OrderNotionals(order, shift, priced, r).shares)
  BY <1>1, <1>2, <1>4, <1>5, <1>7, NotionalsSell
<1> QED BY <1>1, <1>8, BrakesWithoutSale

(* A route that is clear at the prices it was quoted at has room in the    *)
(* contract's measure.                                                     *)
LEMMA ClearIsWorthwhile ==
  ASSUME IInv, QuotedDeep, NEW paid \in BOOLEAN, placeOrderCall(paid),
         ~call'.moved, Regular', NEW k \in DOMAIN call'.route, Clear(k)'
  PROVE  Worthwhile(k)'
<1> DEFINE routes == DOMAIN order.orders
           shift  == [i \in routes |-> MarketAdverseShift(order, i, price)]
           priced == [i \in routes |-> SpotPrice(order.orders[i].hops, price) # 0]
           split(r) == OrderNotionals(order, shift, priced, r)
           sold(r)  == [j \in 1..MaxRoutes |-> Sold(order, split(r).shares[j])]
           spent(r) == sold(r)[1] + sold(r)[2] + sold(r)[3]
<1>1. PICK r \in [routes -> routes] :
        call' = [order  |-> order,
                 route  |-> r,
                 shift  |-> [j \in routes |-> shift[r[j]]],
                 priced |-> [j \in routes |-> priced[r[j]]],
                 green  |-> GreenLit(order, shift, priced),
                 shares |-> split(r).shares,
                 spent  |-> spent(r),
                 moved  |-> price # order.quoted,
                 done   |-> IF split(r).panic THEN "reverted"
                            ELSE IF spent(r) = 0 THEN "braked"
                            ELSE IF paid THEN "traded" ELSE "reverted"]
  BY DEF placeOrderCall
<1>2. order # NoOrder /\ OrderOK(order) /\ price \in PriceMap
  BY DEF placeOrderCall, IInv, TypeOK, PriceMap
<1>3. /\ call'.order = order /\ call'.route = r /\ call'.moved = (price # order.quoted)
      /\ call'.shift = [j \in routes |-> shift[r[j]]]
      /\ call'.priced = [j \in routes |-> priced[r[j]]]
  <2> HIDE DEF shift, priced, split, spent
  <2> QED BY <1>1
<1> DEFINE leg == order.orders[r[k]]
<1>4. k \in routes /\ r[k] \in routes /\ price = order.quoted
  BY <1>3
<1>5. call'.shift[k] = MarketAdverseShift(order, r[k], price)
  BY <1>3, <1>4
<1>6. SpotPrice(leg.hops, price) # 0
  <2>1. call'.priced[k]
    BY <1>3, <1>4 DEF Regular
  <2> QED BY <1>3, <1>4, <2>1
<1> HIDE DEF shift, priced, split, spent
<1>7. /\ order.reference \in Nat /\ order.price \in Nat
      /\ leg.slip \in Nat \ {0} /\ IsHops(leg.hops)
  <2>1. order \in Orders /\ \A i \in routes : Len(order.orders[i].hops) \in {1, 2}
    BY <1>2 DEF OrderOK
  <2>2. order.reference \in Nat /\ order.price \in Nat
        /\ order.orders \in Seq([hops : Seq(Pools), slip : Nat \ {0}])
    BY <2>1 DEF Orders
  <2>3. leg \in [hops : Seq(Pools), slip : Nat \ {0}]
    BY <1>4, <2>2, SeqElement
  <2> QED BY <1>4, <2>1, <2>2, <2>3 DEF IsHops
<1> DEFINE spot == PriceOf(leg.hops, price)
<1>8. SpotPrice(leg.hops, price) = spot /\ spot \in Nat \ {0}
  BY <1>2, <1>6, <1>7, SpotIsQuote
<1>9. 2 * leg.slip * order.reference * spot
        <= 10 * SlipUnit * ((Cutoff + Wei) * spot - order.price * Wei)
  BY <1>2, <1>4 DEF QuotedDeep
<1>10. call'.shift[k] = ((order.price * X96) \div spot - X96) * Wei
  BY <1>5, <1>6, <1>8 DEF MarketAdverseShift
<1> DEFINE level == CutoffThreshold - 2 * X96
           s     == call'.shift[k]
           rate  == RateOf(k)'
           m     == MinOrderSize(order)
<1> HIDE DEF spot
<1>11. s \in Int /\ leg.slip * order.reference < 5 * SlipUnit * ((level - s) \div X96 + 3)
  <2> DEFINE slip == leg.slip
             n    == order.reference
             base == order.price
  <2>1. /\ slip \in Nat \ {0} /\ n \in Nat /\ base \in Nat
        /\ 2 * slip * n * spot <= 10 * SlipUnit * ((Cutoff + Wei) * spot - base * Wei)
        /\ s = ((base * X96) \div spot - X96) * Wei
    BY <1>7, <1>9, <1>10
  <2> HIDE DEF slip, n, base, s
  <2>2. s \in Int /\ slip * n < 5 * SlipUnit * ((CutoffThreshold - 2 * X96 - s) \div X96 + 3)
    BY <1>8, <2>1, DeepForContract
  <2> QED BY <2>2 DEF slip, n
<1>12. rate = SlipUnit \div leg.slip /\ rate > 0
  <2>1. rate = ReverseSlippageRate(order.orders[r[k]])
    BY <1>3 DEF RateOf
  <2>2. rate > 0
    BY DEF Regular
  <2> QED BY <2>1, <2>2 DEF ReverseSlippageRate
<1>13. m \in Nat
  <2>1. order.minRate \in Nat /\ order.minRate >= 10
    BY <1>2 DEF OrderOK, Orders
  <2> QED BY <1>7, <2>1, SmallestWithinEpsilon DEF MinOrderSize
<1>14. rate * order.reference >= 5 * (rate + 1) * (2 * m + 3 * rate + 8)
  <2>2. MinOrderSize(call'.order) = m
    BY <1>3
  <2>3. rate * call'.order.reference >= 5 * (rate + 1) * (2 * MinOrderSize(call'.order) + 3 * rate + 8)
    BY DEF Clear, MinOrderSize
  <2> HIDE DEF rate, m
  <2> QED BY <1>3, <2>2, <2>3
<1>15. level \in Int
  BY PlaceOrderConstants, CutoffIsInt
<1>16. Capacity(level, s, rate, order.reference) >= m + 4
  <2> DEFINE slip == leg.slip
             n    == order.reference
  <2>1. /\ slip \in Nat \ {0} /\ n \in Nat /\ s \in Int /\ m \in Nat /\ level \in Int
        /\ rate = SlipUnit \div slip /\ rate > 0
        /\ slip * n < 5 * SlipUnit * ((level - s) \div X96 + 3)
        /\ rate * n >= 5 * (rate + 1) * (2 * m + 3 * rate + 8)
    BY <1>7, <1>11, <1>12, <1>13, <1>14, <1>15
  <2> HIDE DEF slip, n, s, m, rate, level
  <2>2. Capacity(level, s, rate, n) >= m + 4
    BY <2>1, ClearHasRoom
  <2> QED BY <2>2 DEF n
<1>17. RoomTo(level, k)' = Capacity(level, s, rate, order.reference)
  BY <1>3, <1>4 DEF RoomTo, Capacity
<1> HIDE DEF m, s, rate
<1>18. RoomTo(level, k)' >= m + 4
  BY <1>16, <1>17
<1> QED BY <1>3, <1>18 DEF Worthwhile, MinOrderSize, m

LEMMA NextUsesRoom ==
  IInv /\ QuotedDeep /\ RoomIsUsed /\ UnmovedTrades /\ [Next]_vars =>
    RoomIsUsed' /\ UnmovedTrades'
<1> SUFFICES ASSUME IInv, QuotedDeep, RoomIsUsed, UnmovedTrades, [Next]_vars
             PROVE  RoomIsUsed' /\ UnmovedTrades'
  OBVIOUS
<1>1. ASSUME call' = NoCall PROVE RoomIsUsed' /\ UnmovedTrades'
  BY <1>1 DEF RoomIsUsed, UnmovedTrades, Called
<1>2. CASE \E p \in Pools : Move(p)
  <2>1. call' = NoCall
    BY <1>2 DEF Move
  <2> QED BY <1>1, <2>1
<1>3. CASE \E i \in DOMAIN Routes, d \in 0..MaxDiff : Encode(i, d)
  <2>1. call' = NoCall
    BY <1>3 DEF Encode
  <2> QED BY <1>1, <2>1
<1>4. ASSUME NEW paid \in BOOLEAN, placeOrderCall(paid)
      PROVE  RoomIsUsed' /\ UnmovedTrades'
  <2>1. RoomIsUsed'
    BY <1>4, CallUsesRoom
  <2>2. UnmovedTrades'
    <3> SUFFICES ASSUME Called', Regular', ~call'.moved, NEW k \in DOMAIN call'.route, Clear(k)'
                 PROVE  call'.done # "braked"
      BY DEF UnmovedTrades
    <3>1. Worthwhile(k)'
      BY <1>4, ClearIsWorthwhile
    <3> QED BY <2>1, <3>1 DEF RoomIsUsed
  <2> QED BY <2>1, <2>2
<1>5. CASE UNCHANGED vars
  BY <1>5 DEF vars, RoomIsUsed, UnmovedTrades, Called, Regular, RateOf, RoomTo, Worthwhile,
              Clear, MinOrderSize
<1> QED BY <1>2, <1>3, <1>4, <1>5 DEF Next

LEMMA StartUsesRoom == Init => QuotedDeep /\ RoomIsUsed /\ UnmovedTrades
BY DEF Init, QuotedDeep, RoomIsUsed, UnmovedTrades, Called

(* For any pools and prices, an order is braked only when no route has     *)
(* room for the smallest order (sortOrders, PlaceOrder.sol:278-367).       *)
THEOREM RoomIsSold == Spec => []RoomIsUsed
<1> QED BY InitIsInv, NextKeepsInv, StartUsesRoom, DeepStays, NextUsesRoom, PTL DEF Spec

(* An order that runs at the prices of its quote is not braked, if one of  *)
(* its routes is clear of the smallest order: what getEncodeData sends,    *)
(* the contract sells (TokenPath.ts:2134, PlaceOrder.sol:278-367).         *)
THEOREM UnmovedIsTraded == Spec => []UnmovedTrades
<1> QED BY InitIsInv, NextKeepsInv, StartUsesRoom, DeepStays, NextUsesRoom, PTL DEF Spec
=============================================================================
