---------------------------- MODULE PlaceOrder ----------------------------
(***************************************************************************)
(* contracts/PlaceOrder.sol: how much of an order each of its routes gets, *)
(* from the prices the pools have when the transaction runs.  An order is  *)
(*   [reference, minRate, price, orders]                                   *)
(* the volume to sell, the divisor that gives the smallest order worth     *)
(* placing, the price of the route it was planned on, and up to three      *)
(* routes, each                                                            *)
(*   [hops, slip]    its pools, and its slippage per token sold            *)
(* in units of 1/SlipUnit.  Prices are fixed point with X96 for one and    *)
(* are net of the fees; shifts and thresholds are X96 per unit of volume.  *)
(***************************************************************************)
EXTENDS Integers, Sequences

CONSTANTS
  Pools,           \* the addresses of the list _poolList
  Balancer,        \* those whose dxType is 60 or 61
  X96,             \* MAX_UINT96, one in fixed point
  Wei,             \* header.startTokenWei
  SlipUnit,        \* one in the unit of the slippage (1e7 in the source)
  GreenLight,      \* GreenLightSlippageThreshold, a part of Wei
  Cutoff           \* CutoffSlippageThreshold, a part of Wei

ASSUME PlaceOrderConstants ==
  /\ Balancer \subseteq Pools
  /\ X96 \in Nat \ {0} /\ Wei \in Nat \ {0} /\ SlipUnit \in Nat \ {0}
  /\ GreenLight \in Nat /\ Cutoff \in Nat /\ GreenLight <= Cutoff

MaxRoutes == 3     \* what sortOrders can rank, and what getEncodeData sends

Abs(n) == IF n < 0 THEN -n ELSE n

MinOrderSize(o) == o.reference \div o.minRate

(* decodePlaceOrderInput and calculateSpotPrice.  A pool of Balancer is    *)
(* decoded only for dxType % 10 = 6, which neither 60 nor 61 is: its price *)
(* stays 0, and so does the price of a route through it.  Routes have one  *)
(* hop or two.                                                             *)
SpotPrice(hops, price) ==
  LET hop(p) == IF p \in Balancer THEN 0 ELSE price[p]
  IN  IF Len(hops) = 1 THEN hop(hops[1]) ELSE (hop(hops[1]) * hop(hops[2])) \div X96

(* getInputData: how much worse than planned the route has become.  A      *)
(* route without a price is passed over and keeps the shift 0.             *)
MarketAdverseShift(o, i, price) ==
  LET spot == SpotPrice(o.orders[i].hops, price)
  IN  IF spot = 0 THEN 0 ELSE ((o.price * X96) \div spot - X96) * Wei

ReverseSlippageRate(route) == SlipUnit \div route.slip
SlippageRate(route) == (route.slip * X96) \div SlipUnit

GreenThreshold  == GreenLight * X96
CutoffThreshold == Cutoff * X96

(* The first route alone takes the whole order while its price after the   *)
(* order stays below the first threshold.                                  *)
GreenLit(o, shift, priced) ==
  /\ priced[1]
  /\ shift[1] + SlippageRate(o.orders[1]) * o.reference < GreenThreshold

(* min: what routes of total reverse slippage rate can sell while the      *)
(* price falls from one shift to a higher one, within what remains.        *)
Capacity(level, shift, rate, remaining) ==
  LET volume == (((level - shift) \div X96) * rate) \div 2
  IN  IF volume > remaining THEN remaining ELSE IF volume < 0 THEN 0 ELSE volume

(* Mutant: the route with the largest shift is taken for the best.         *)
RanksBackward(r, shift) ==
  \A i, j \in DOMAIN r :
    i < j => \/ shift[r[i]] > shift[r[j]]
             \/ shift[r[i]] = shift[r[j]] /\ r[i] > r[j]

(* The three-place sort of sortOrders: by shift, the later of two equals   *)
(* first.                                                                  *)
Ranks(r, shift) ==
  \A i, j \in DOMAIN r :
    i < j => \/ shift[r[i]] < shift[r[j]]
             \/ shift[r[i]] = shift[r[j]] /\ r[i] > r[j]

(* An empty PlaceOrderData stands for a rank that no route holds.          *)
NoRank == [shift |-> 0, rate |-> 0, slip |-> 0]

Rank(o, shift, r, k) ==
  IF k \notin DOMAIN r THEN NoRank
  ELSE [shift |-> shift[r[k]],
        rate  |-> ReverseSlippageRate(o.orders[r[k]]),
        slip  |-> SlippageRate(o.orders[r[k]])]

(* One route within reach, alone or because the second is out of it: it    *)
(* takes what it can up to the cutoff.                                     *)
Alone(o, first) ==
  LET volume == Capacity(CutoffThreshold, first.shift, first.rate, o.reference)
  IN  IF volume >= MinOrderSize(o) THEN volume ELSE 0

(* The part of a volume that a rank sells.                                 *)
Part(volume, rank, rate) == IF volume = 0 THEN 0 ELSE (volume * rank.rate) \div rate

NoShares == <<0, 0, 0>>
Shares(a) == [panic |-> FALSE, shares |-> <<a, 0, 0>>]

(* Two routes within reach, and the third when its shift is: the first     *)
(* sells alone down to the price of the second, both down to the price of  *)
(* the third, all of them down to the cutoff, and what is too small to be  *)
(* an order of its own goes to the flatter of the two best.  What remains  *)
(* is not reduced where the code leaves it alone, and the place of a third *)
(* route that does not exist has shift 0.  shares[k] is what rank k gets;  *)
(* panic is the division by a total rate of zero, which voids the call.    *)
Spread(o, first, second, third) ==
  LET epsilon  == o.reference \div 10
      alone    == Capacity(second.shift, first.shift, first.rate, o.reference)
      finished == Abs(alone - o.reference) < epsilon
      rest1    == IF finished THEN o.reference ELSE o.reference - alone
      both     == ~finished /\ rest1 > epsilon
      rate2    == first.rate + second.rate
      three    == third.shift <= CutoffThreshold
      level2   == IF three THEN third.shift ELSE CutoffThreshold
      volume2  == IF both THEN Capacity(level2, second.shift, rate2, rest1) ELSE 0
      rest2    == IF three THEN rest1 - volume2 ELSE rest1
      all      == both /\ three /\ rest2 > epsilon
      rate3    == rate2 + third.rate
      volume3  == IF all THEN Capacity(CutoffThreshold, third.shift, rate3, rest2) ELSE 0
      left     == IF rest2 < MinOrderSize(o) THEN rest2 ELSE 0
      flatter  == second.slip > 0 /\ second.slip < first.slip
  IN  IF both /\ rate2 = 0 THEN [panic |-> TRUE, shares |-> NoShares]
      ELSE [panic  |-> FALSE,
            shares |-> <<alone + Part(volume2, first, rate2) + Part(volume3, first, rate3)
                           + (IF flatter THEN 0 ELSE left),
                         Part(volume2, second, rate2) + Part(volume3, second, rate3)
                           + (IF flatter THEN left ELSE 0),
                         Part(volume3, third, rate3)>>]

(* Mutant: the second route is taken to be within reach.                   *)
SortTwo(o, first, second, third) ==
  IF first.shift > CutoffThreshold THEN Shares(0)
  ELSE Spread(o, first, second, third)

(* sortOrders: nothing at all when even the best route is out of reach.    *)
SortOrders(o, first, second, third) ==
  IF first.shift > CutoffThreshold THEN Shares(0)
  ELSE IF second.shift > CutoffThreshold THEN Shares(Alone(o, first))
  ELSE Spread(o, first, second, third)

(* getInputData: what each rank of the order gets, for the ranking r.      *)
OrderNotionals(o, shift, priced, r) ==
  IF GreenLit(o, shift, priced) THEN Shares(o.reference)
  ELSE IF Len(o.orders) = 1 THEN Shares(Alone(o, Rank(o, shift, r, 1)))
  ELSE SortOrders(o, Rank(o, shift, r, 1), Rank(o, shift, r, 2), Rank(o, shift, r, 3))

(* The ranking the order is sold by; when the light is green the first     *)
(* route stands first and nothing else is sold.                            *)
Ranking(o, shift, priced, r) ==
  /\ r \in [DOMAIN o.orders -> DOMAIN o.orders]
  /\ IF GreenLit(o, shift, priced) THEN r = [k \in DOMAIN o.orders |-> k]
     ELSE Ranks(r, shift)

(* trade: the shares that are large enough are sold, the others are not.   *)
Sold(o, share) == IF share >= MinOrderSize(o) THEN share ELSE 0
=============================================================================
