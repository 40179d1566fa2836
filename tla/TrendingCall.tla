---------------------------- MODULE TrendingCall ----------------------------
(***************************************************************************)
(* The on-chain half: contracts/TrendingCall.sol.  The contract holds one  *)
(* record per trading pair with the last order number it has seen (nonce)  *)
(* and the position its orders have added up to.  A transaction names a    *)
(* pair, an order number and a deadline; one that is late or whose number  *)
(* is not above the pair's nonce returns without doing anything.           *)
(*                                                                         *)
(* Every entry point carries onlyWhitelist, tested after its body: a call  *)
(* by anyone else reverts, which is no step.  The ...Chi variants add a    *)
(* gas refund and are the same calls.  What the pools make of the order    *)
(* (PlaceOrder.placeOrderCall, called for the trade itself) is one of      *)
(*   [done |-> "traded", ...]   it sold amount0 or amount1, both non-zero  *)
(*   [done |-> "braked"]        the price limit left nothing: (0, 0)       *)
(*   [done |-> "reverted"]      require(..., "N"): the transaction is void *)
(***************************************************************************)
EXTENDS Integers

CONSTANTS
  MaxPairs,        \* bound on the length of _pairList
  InitialPairs,    \* pairs the constructor creates (10 in the source)
  MaxNonce,        \* the largest value of the field nonce (uint32)
  PositionLimit,   \* positions are in -PositionLimit..PositionLimit (int112)
  Amounts,         \* what one order may add to position0
  MaxBlock,        \* bound on block.number
  MaxTime          \* bound on block.timestamp

ASSUME ContractConstants ==
  /\ MaxPairs \in Nat /\ InitialPairs \in Nat /\ InitialPairs <= MaxPairs
  /\ MaxNonce \in Nat /\ PositionLimit \in Nat
  /\ MaxBlock \in Nat /\ MaxTime \in Nat
  /\ Amounts \subseteq Int \ {0}

VARIABLES
  pairList,   \* _pairList: a function on 0 .. length - 1
  now,        \* [block, time] of the block being built
  fills       \* history: how often each number traded since the pair's record was written

vars == <<pairList, now, fills>>

PairIds   == 0..(MaxPairs - 1)
Numbers   == 1..MaxNonce
Positions == -PositionLimit..PositionLimit
PairBaseData == [nonce : 0..MaxNonce, position0 : Positions, position1 : Positions]

Listed  == DOMAIN pairList
NoFills == [n \in Numbers |-> 0]

Results ==
  {[done |-> "braked", amount0 |-> 0], [done |-> "reverted", amount0 |-> 0]}
    \cup {[done |-> "traded", amount0 |-> a] : a \in Amounts}

Init ==
  /\ pairList = [i \in 0..(InitialPairs - 1) |-> [nonce |-> 0, position0 |-> 0, position1 |-> 0]]
  /\ now = [block |-> 0, time |-> 0]
  /\ fills = [p \in PairIds |-> NoFills]

----------------------------------------------------------------------------
(* Mutant: the record keeps its old nonce.                                 *)
BookedUnspent(pair, inputNonce, amount0) ==
  [nonce |-> pair.nonce, position0 |-> pair.position0 + amount0, position1 |-> pair.position1 - amount0]

(* placeOrderCall.  Token 1 moves against token 0; one for one here.       *)
Booked(pair, inputNonce, amount0) ==
  [nonce     |-> inputNonce,
   position0 |-> pair.position0 + amount0,
   position1 |-> pair.position1 - amount0]

(* Mutant: the last number seen is taken again.                            *)
StaleBelow(pairId, inputNonce) == pairList[pairId].nonce > inputNonce

Stale(pairId, inputNonce) == pairList[pairId].nonce >= inputNonce

(* Checked arithmetic: a position that leaves int112 reverts the call.     *)
GuardedCall(pairId, inputNonce, result) ==
  /\ pairId \in Listed
  /\ ~Stale(pairId, inputNonce)
  /\ result.done # "reverted"
  /\ LET booked == Booked(pairList[pairId], inputNonce, result.amount0)
     IN  /\ booked.position0 \in Positions /\ booked.position1 \in Positions
         /\ pairList' = [pairList EXCEPT ![pairId] = booked]
  /\ fills' = [fills EXCEPT ![pairId][inputNonce] =
                 IF result.done = "traded" THEN @ + 1 ELSE @]

(* With inputNonce 0 the order trades and nothing is recorded; a stale     *)
(* number returns at once.                                                 *)
UnrecordedCall(pairId, inputNonce, result) ==
  /\ inputNonce = 0 \/ (pairId \in Listed /\ Stale(pairId, inputNonce))
  /\ UNCHANGED <<pairList, fills>>

placeOrderCall(pairId, inputNonce, result) ==
  /\ \/ inputNonce > 0 /\ GuardedCall(pairId, inputNonce, result)
     \/ UnrecordedCall(pairId, inputNonce, result)
  /\ UNCHANGED now

placeOrderCallDeadlineBlock(pairId, inputNonce, deadlineBlock, result) ==
  /\ now.block <= deadlineBlock
  /\ placeOrderCall(pairId, inputNonce, result)

placeOrderCallDeadlineTime(pairId, inputNonce, deadlineTime, result) ==
  /\ now.time <= deadlineTime
  /\ placeOrderCall(pairId, inputNonce, result)

(* Either limit still open lets the order through.                         *)
placeOrderCallDeadlineBlockAndTime(pairId, inputNonce, deadlineBlock, deadlineTime, result) ==
  /\ now.block <= deadlineBlock \/ now.time <= deadlineTime
  /\ placeOrderCall(pairId, inputNonce, result)

LastPair == CHOOSE i \in Listed : \A j \in Listed : j <= i

addPairList(pair) ==
  LET length == IF Listed = {} THEN 0 ELSE 1 + LastPair
  IN  /\ length < MaxPairs
      /\ pairList' = [i \in 0..length |-> IF i = length THEN pair ELSE pairList[i]]
      /\ fills' = [fills EXCEPT ![length] = NoFills]
      /\ UNCHANGED now

(* Repairs a pair's record by hand, from the nonce and position the owner  *)
(* believes it has.  Order numbers start again from the new nonce.         *)
updatePairData(pairId, oldNonce, oldPosition0, newPair) ==
  /\ pairId \in Listed
  /\ pairList[pairId].nonce = oldNonce /\ pairList[pairId].position0 = oldPosition0
  /\ pairList' = [pairList EXCEPT ![pairId] = newPair]
  /\ fills' = [fills EXCEPT ![pairId] = NoFills]
  /\ UNCHANGED now

NewBlock ==
  /\ now.block < MaxBlock
  /\ \E t \in now.time..MaxTime : now' = [block |-> now.block + 1, time |-> t]
  /\ UNCHANGED <<pairList, fills>>

Next ==
  \/ NewBlock
  \/ \E p \in PairIds, n \in 0..MaxNonce, r \in Results :
       \/ \E b \in 0..MaxBlock : placeOrderCallDeadlineBlock(p, n, b, r)
       \/ \E t \in 0..MaxTime : placeOrderCallDeadlineTime(p, n, t, r)
       \/ \E b \in 0..MaxBlock, t \in 0..MaxTime : placeOrderCallDeadlineBlockAndTime(p, n, b, t, r)
  \/ \E pair \in PairBaseData : addPairList(pair)
  \/ \E p \in PairIds, n \in 0..MaxNonce, x \in Positions, pair \in PairBaseData :
       updatePairData(p, n, x, pair)

Spec == Init /\ [][Next]_vars

----------------------------------------------------------------------------
TypeOK ==
  /\ \E length \in 0..MaxPairs : pairList \in [0..(length - 1) -> PairBaseData]
  /\ now \in [block : Nat, time : Nat]
  /\ fills \in [PairIds -> [Numbers -> Nat]]

(* Every number that has traded is spent: resending it cannot trade again. *)
(* A number at or below the nonce is thrown away (IStructs.sol:181).       *)
TradedIsSpent ==
  \A p \in PairIds, n \in Numbers :
    fills[p][n] > 0 => p \in Listed /\ n <= pairList[p].nonce

(* One order, one trade: however many transactions carry an order number,  *)
(* in whatever order the blocks take them, it trades at most once until    *)
(* the owner rewrites the pair.                                            *)
NonceTradesOnce == \A p \in PairIds, n \in Numbers : fills[p][n] <= 1

(* A pair's position moves only together with its nonce, so that whoever   *)
(* reads the same nonce twice has read the same position twice; only the   *)
(* owner's repair may set one and leave the other.                         *)
PositionMovesWithNonce ==
  [][\A p \in Listed :
       \/ pairList'[p].nonce # pairList[p].nonce
       \/ pairList'[p] = pairList[p]
       \/ \E x \in PairBaseData :
            updatePairData(p, pairList[p].nonce, pairList[p].position0, x)]_vars

(* What the pair records say became of each order number: the ledger of    *)
(* order numbers that they amount to.                                      *)
Fate == [p \in PairIds |-> [n \in Numbers |->
           IF p \notin Listed \/ n > pairList[p].nonce THEN "open"
           ELSE IF fills[p][n] > 0 THEN "traded" ELSE "dead"]]

Ledger == INSTANCE NonceLedger WITH status <- Fate

(* The contract keeps the ledger's promise.                                *)
KeepsLedger == Ledger!Spec
=============================================================================
