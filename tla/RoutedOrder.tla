---------------------------- MODULE RoutedOrder ----------------------------
(***************************************************************************)
(* An order from its quote to its execution.  getEncodeData (TokenPath.ts) *)
(* chooses the routes of an order at the prices the bot has seen; by the   *)
(* time the transaction runs the pools have moved, and PlaceOrder.sol      *)
(* divides the order among the routes at the prices of then.  What the     *)
(* pools pay out is theirs to say: enough, or too little for the check     *)
(* require(..., "N"), which takes the whole transaction back.              *)
(***************************************************************************)
EXTENDS PlaceOrder

CONSTANTS
  Prices,     \* the prices each pool may have
  Routes,     \* poolPathInfos: the routes of the pair, pools in order
  Slip,       \* the slippage of each pool, as getEncodeData knows it
  Notional,   \* the volume of one notional
  MaxDiff     \* bound on the notionals of one order

ASSUME RoutedOrderConstants ==
  /\ Prices \in [Pools -> SUBSET (Nat \ {0})]
  /\ Routes \in Seq(Seq(Pools))
  /\ \A i \in DOMAIN Routes : Len(Routes[i]) \in {1, 2}
  /\ Slip \in [Pools -> Nat \ {0}]
  /\ Notional \in Nat \ {0} /\ MaxDiff \in Nat

VARIABLES
  price,   \* the price of every pool now
  order,   \* the order in flight, with the prices of its quote
  call     \* what the last placeOrderCall made of its order

vars == <<price, order, call>>

NoOrder == [orders |-> <<>>]
NoCall  == [done |-> "none"]

Init ==
  /\ price \in [Pools -> UNION {Prices[p] : p \in Pools}]
  /\ \A p \in Pools : price[p] \in Prices[p]
  /\ order = NoOrder
  /\ call = NoCall

(* A block, or somebody else's trade.                                      *)
Move(p) ==
  /\ \E x \in Prices[p] : price' = [price EXCEPT ![p] = x]
  /\ call' = NoCall
  /\ UNCHANGED order

----------------------------------------------------------------------------
(* The bot knows the price of a pool of Balancer from elsewhere.           *)
QuotedPrice(hops) ==
  IF Len(hops) = 1 THEN price[hops[1]] ELSE (price[hops[1]] * price[hops[2]]) \div X96

RouteSlip(hops) == IF Len(hops) = 1 THEN Slip[hops[1]] ELSE Slip[hops[1]] + Slip[hops[2]]

(* Priced worse than the cutoff against the route of the plan: not sent.   *)
TooDear(hops, base) == QuotedPrice(hops) * Wei < base * (Wei - Cutoff)

(* Mutant: every route is deep enough.                                     *)
NeverShallow(hops, base, reference) == FALSE

(* Room for less than a tenth of the order before the cutoff: not sent.    *)
TooShallow(hops, base, reference) ==
  10 * SlipUnit * ((Cutoff + Wei) * QuotedPrice(hops) - base * Wei)
    < 2 * RouteSlip(hops) * reference * QuotedPrice(hops)

(* The routes worth sending; the route of the plan is never too dear.      *)
Passing(chosen, reference) ==
  LET base == QuotedPrice(Routes[chosen])
  IN  {i \in DOMAIN Routes : /\ i = chosen \/ ~TooDear(Routes[i], base)
                             /\ ~TooShallow(Routes[i], base, reference)}

(* kept lists the first MaxRoutes of them, in the order of poolPathInfos.  *)
FirstOf(kept, passing) ==
  /\ \A k, l \in DOMAIN kept : k < l => kept[k] < kept[l]
  /\ \A i \in passing :
       \/ \E k \in DOMAIN kept : kept[k] = i
       \/ Len(kept) = MaxRoutes /\ kept[MaxRoutes] < i

(* Mutant: the smallest order is one notional.                             *)
RateOfOne(diff) == diff

(* The smallest order is a tenth of one notional.                          *)
MinOrderSizeRate(diff) == 10 * diff

(* The rate is sent as one byte, or encoding throws; and by a rate of 0,   *)
(* that of a top-up, the contract cannot divide: getInputData, which the   *)
(* bot asks about every order before it sends it, throws.                  *)
Askable(rate) == rate \in 1..255

(* getEncodeData.  Without a route nothing is sent.                        *)
Encode(chosen, diff) ==
  /\ order = NoOrder
  /\ Askable(MinOrderSizeRate(diff))
  /\ LET passing == Passing(chosen, diff * Notional)
     IN  \E n \in 1..MaxRoutes : \E kept \in [1..n -> passing] :
           /\ FirstOf(kept, passing)
           /\ order' = [reference |-> diff * Notional,
                        minRate   |-> MinOrderSizeRate(diff),
                        price     |-> QuotedPrice(Routes[chosen]),
                        orders    |-> [k \in 1..n |-> [hops |-> Routes[kept[k]],
                                                       slip |-> RouteSlip(Routes[kept[k]])]],
                        quoted    |-> price]
  /\ call' = NoCall
  /\ UNCHANGED price

(* placeOrderCall and trade: nothing to sell is no error; what is sold     *)
(* must bring volumeMinTo, or the transaction is void.                     *)
placeOrderCall(paid) ==
  LET routes == DOMAIN order.orders
      shift  == [i \in routes |-> MarketAdverseShift(order, i, price)]
      priced == [i \in routes |-> SpotPrice(order.orders[i].hops, price) # 0]
  IN  /\ order # NoOrder
      /\ \E r \in [routes -> routes] :
           LET split == OrderNotionals(order, shift, priced, r)
               sold  == [k \in 1..MaxRoutes |-> Sold(order, split.shares[k])]
               spent == sold[1] + sold[2] + sold[3]
           IN  /\ Ranking(order, shift, priced, r)
               /\ call' = [order  |-> order,
                           route  |-> r,
                           shift  |-> [k \in routes |-> shift[r[k]]],
                           priced |-> [k \in routes |-> priced[r[k]]],
                           green  |-> GreenLit(order, shift, priced),
                           shares |-> split.shares,
                           spent  |-> spent,
                           moved  |-> price # order.quoted,
                           done   |-> IF split.panic THEN "reverted"
                                      ELSE IF spent = 0 THEN "braked"
                                      ELSE IF paid THEN "traded" ELSE "reverted"]
      /\ order' = NoOrder
      /\ UNCHANGED price

Next ==
  \/ \E p \in Pools : Move(p)
  \/ \E i \in DOMAIN Routes, d \in 0..MaxDiff : Encode(i, d)
  \/ \E paid \in BOOLEAN : placeOrderCall(paid)

Spec == Init /\ [][Next]_vars

----------------------------------------------------------------------------
Orders == [reference : Nat, minRate : Nat, price : Nat, quoted : [Pools -> Nat],
           orders : Seq([hops : Seq(Pools), slip : Nat \ {0}])]

Calls == [order : Orders, green : BOOLEAN, moved : BOOLEAN,
          route : Seq(1..MaxRoutes), shift : Seq(Int), priced : Seq(BOOLEAN),
          shares : [1..MaxRoutes -> Nat], spent : Nat,
          done : {"traded", "braked", "reverted"}]

OrderOK(o) ==
  /\ o \in Orders
  /\ o.minRate >= 10
  /\ Len(o.orders) \in 1..MaxRoutes
  /\ \A i \in DOMAIN o.orders : Len(o.orders[i].hops) \in {1, 2}

(* An order in flight is at most ten parts to the notional: on that the    *)
(* contract relies when it gives the leftovers away.                       *)
TypeOK ==
  /\ price \in [Pools -> Nat]
  /\ order # NoOrder => OrderOK(order)
  /\ call # NoCall => call \in Calls

Called == call # NoCall

Total == call.shares[1] + call.shares[2] + call.shares[3]

(* Whatever the pools did since the quote, and whatever the rounding and   *)
(* the leftovers of the three ranges come to, the contract never sells     *)
(* more than the order.                                                    *)
NeverOverspends ==
  Called => Total <= call.order.reference /\ call.spent <= Total

(* A route that has become worse than the cutoff gets nothing, not even a  *)
(* leftover.                                                               *)
BeyondCutoffUntouched ==
  Called => \A k \in DOMAIN call.route :
    call.priced[k] /\ call.shift[k] > CutoffThreshold => call.shares[k] = 0

RateOf(k) == ReverseSlippageRate(call.order.orders[call.route[k]])

(* What the route at rank k can sell before its price is at a level.       *)
RoomTo(level, k) ==
  IF k \in DOMAIN call.route
  THEN Capacity(level, call.shift[k], RateOf(k), call.order.reference)
  ELSE 0

Room(k) == RoomTo(CutoffThreshold, k)

(* Every route has a price and a rate: none is through Balancer, or so     *)
(* steep that the inverse of its slippage is rounded to zero.              *)
Regular == \A k \in DOMAIN call.route : call.priced[k] /\ RateOf(k) > 0

WithinRoom ==
  \A k \in DOMAIN call.route :
    call.priced[k] => call.shares[k] <= Room(k) + MinOrderSize(call.order)

(* No route is sold beyond the price at which it reaches the cutoff, by    *)
(* more than a leftover: "滑点大于这个值的部分就不下了" (IStructs.sol:124).*)
StopsAtCutoff == Called /\ Regular => WithinRoom

(* Better prices first, unless the light was green: a route sells only     *)
(* what every better one cannot sell before it is as dear.  For the        *)
(* divisions, one unit of volume and the X96 that is 1/Wei of a price.     *)
CheapestFirst ==
  Called /\ ~call.green =>
    \A i, j \in DOMAIN call.route :
      call.shift[i] < call.shift[j] /\ call.shares[j] > 0 =>
        call.shares[i] + 1 >=
          Capacity(call.shift[j] - X96, call.shift[i], RateOf(i), call.order.reference)

(* When the routes have room for the order, all of it is placed, up to a   *)
(* tenth and the rounding of the divisions: five units of volume, and two  *)
(* X96 of the way to the cutoff, which has two thresholds in between.      *)
PlacesWhatFits ==
  LET room(k) == RoomTo(CutoffThreshold - 2 * X96, k)
  IN  Called /\ Regular /\ room(1) + room(2) + room(3) >= call.order.reference =>
        Total >= call.order.reference - call.order.reference \div 10 - 5

(* What the contract's divisions take off a room before it is an order.    *)
Worthwhile(k) == RoomTo(CutoffThreshold - 2 * X96, k) >= MinOrderSize(call.order) + 4

(* An order is braked only when no route has room for the smallest order:  *)
(* what is split among routes is not split so fine that nothing is sold.   *)
RoomIsUsed ==
  Called /\ Regular /\ (\E k \in DOMAIN call.route : Worthwhile(k)) => call.done # "braked"

(* A tenth of the order is more than the smallest order, by what rounding  *)
(* the inverse of the slippage down and three steps of the price cost.     *)
Clear(k) ==
  RateOf(k) * call.order.reference
    >= 5 * (RateOf(k) + 1) * (2 * MinOrderSize(call.order) + 3 * RateOf(k) + 8)

(* The bot and the contract judge routes alike: an order that runs at the  *)
(* prices it was quoted at is not braked, if one route is clear of the     *)
(* smallest order.  An order of a single notional never is: at the edge of *)
(* TooShallow the divisions may leave it nothing.                          *)
UnmovedTrades ==
  Called /\ Regular /\ ~call.moved /\ (\E k \in DOMAIN call.route : Clear(k)) =>
    call.done # "braked"
=============================================================================
