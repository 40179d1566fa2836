------------------------- MODULE TrendingCall_proofs -------------------------
(***************************************************************************)
(* That an order number trades at most once, for any number of pairs,      *)
(* orders and deadlines, and that the contract implements NonceLedger.     *)
(***************************************************************************)
EXTENDS TrendingCall, TLAPS

(* Nothing but the calls that record a trade and the owner's two entries   *)
(* touches a pair or its history.                                          *)
Recorded ==
  \/ \E p \in PairIds, n \in 0..MaxNonce, r \in Results : n > 0 /\ GuardedCall(p, n, r)
  \/ \E pair \in PairBaseData : addPairList(pair)
  \/ \E p \in PairIds, n \in 0..MaxNonce, x \in Positions, pair \in PairBaseData :
       updatePairData(p, n, x, pair)

Unrecorded == UNCHANGED <<pairList, fills>>

LEMMA StepCases ==
  ASSUME [Next]_vars
  PROVE  Recorded \/ Unrecorded
<1>1. CASE NewBlock
  BY <1>1 DEF NewBlock, Unrecorded
<1>2. ASSUME NEW p \in PairIds, NEW n \in 0..MaxNonce, NEW r \in Results, placeOrderCall(p, n, r)
      PROVE  Recorded \/ Unrecorded
  BY <1>2 DEF placeOrderCall, UnrecordedCall, Recorded, Unrecorded
<1>3. CASE \E p \in PairIds, n \in 0..MaxNonce, r \in Results :
             \/ \E b \in 0..MaxBlock : placeOrderCallDeadlineBlock(p, n, b, r)
             \/ \E t \in 0..MaxTime : placeOrderCallDeadlineTime(p, n, t, r)
             \/ \E b \in 0..MaxBlock, t \in 0..MaxTime : placeOrderCallDeadlineBlockAndTime(p, n, b, t, r)
  BY <1>2, <1>3 DEF placeOrderCallDeadlineBlock, placeOrderCallDeadlineTime,
                    placeOrderCallDeadlineBlockAndTime
<1>4. CASE \E pair \in PairBaseData : addPairList(pair)
  BY <1>4 DEF Recorded
<1>5. CASE \E p \in PairIds, n \in 0..MaxNonce, x \in Positions, pair \in PairBaseData :
             updatePairData(p, n, x, pair)
  BY <1>5 DEF Recorded
<1>6. CASE UNCHANGED vars
  BY <1>6 DEF vars, Unrecorded
<1> QED BY <1>1, <1>3, <1>4, <1>5, <1>6 DEF Next

----------------------------------------------------------------------------
(* The pairs are numbered without a gap from 0 on.                         *)
Length(n) == pairList \in [0..(n - 1) -> PairBaseData]

LEMMA LastIndex ==
  ASSUME NEW n \in Nat, Length(n)
  PROVE  n = IF Listed = {} THEN 0 ELSE 1 + LastPair
<1>1. Listed = 0..(n - 1)
  BY DEF Length, Listed
<1>2. CASE n = 0
  <2>1. 0..(n - 1) = {}
    BY <1>2
  <2> QED BY <1>1, <1>2, <2>1
<1>3. CASE n > 0
  <2>1. n - 1 \in Listed /\ \A j \in Listed : j <= n - 1
    BY <1>1, <1>3
  <2>2. LastPair \in Listed /\ \A j \in Listed : j <= LastPair
    BY <2>1 DEF LastPair
  <2>3. LastPair = n - 1
    BY <1>1, <2>1, <2>2
  <2> QED BY <2>1, <2>3
<1> QED BY <1>2, <1>3

LEMMA InitTypeOK == Init => TypeOK
<1> SUFFICES ASSUME Init PROVE TypeOK
  OBVIOUS
<1>1. [nonce |-> 0, position0 |-> 0, position1 |-> 0] \in PairBaseData
  BY ContractConstants DEF PairBaseData, Positions
<1>2. pairList \in [0..(InitialPairs - 1) -> PairBaseData] /\ InitialPairs \in 0..MaxPairs
  BY <1>1, ContractConstants DEF Init
<1>3. fills \in [PairIds -> [Numbers -> Nat]]
  BY DEF Init, NoFills
<1>4. now \in [block : Nat, time : Nat]
  BY DEF Init
<1> QED BY <1>2, <1>3, <1>4 DEF TypeOK

LEMMA TimeIsTyped ==
  ASSUME now \in [block : Nat, time : Nat], [Next]_vars
  PROVE  now' \in [block : Nat, time : Nat]
<1>1. CASE NewBlock
  BY <1>1, ContractConstants DEF NewBlock
<1>2. CASE UNCHANGED now
  BY <1>2
<1>3. [Next]_vars => NewBlock \/ UNCHANGED now
  BY DEF Next, vars, addPairList, updatePairData, placeOrderCall, placeOrderCallDeadlineBlock,
         placeOrderCallDeadlineTime, placeOrderCallDeadlineBlockAndTime
<1> QED BY <1>1, <1>2, <1>3

LEMMA RecordedTypeOK ==
  ASSUME TypeOK, Recorded
  PROVE  /\ \E length \in 0..MaxPairs : pairList' \in [0..(length - 1) -> PairBaseData]
         /\ fills' \in [PairIds -> [Numbers -> Nat]]
<1>1. PICK length \in 0..MaxPairs : pairList \in [0..(length - 1) -> PairBaseData]
  BY DEF TypeOK
<1>2. fills \in [PairIds -> [Numbers -> Nat]] /\ NoFills \in [Numbers -> Nat]
  BY DEF TypeOK, NoFills
<1>3. length \in Nat /\ length <= MaxPairs
  BY <1>1, ContractConstants
<1>4. CASE \E p \in PairIds, n \in 0..MaxNonce, r \in Results : n > 0 /\ GuardedCall(p, n, r)
  <2>1. PICK p \in PairIds, n \in 0..MaxNonce, r \in Results : n > 0 /\ GuardedCall(p, n, r)
    BY <1>4
  <2>2. n \in Numbers
    BY <2>1, ContractConstants DEF Numbers
  <2>3. fills' \in [PairIds -> [Numbers -> Nat]]
    BY <1>2, <2>1, <2>2 DEF GuardedCall
  <2>4. Booked(pairList[p], n, r.amount0) \in PairBaseData
    BY <2>1 DEF GuardedCall, Booked, PairBaseData
  <2>5. pairList' \in [0..(length - 1) -> PairBaseData]
    BY <1>1, <2>1, <2>4 DEF GuardedCall
  <2> QED BY <2>3, <2>5
<1>5. CASE \E pair \in PairBaseData : addPairList(pair)
  <2>1. PICK pair \in PairBaseData : addPairList(pair)
    BY <1>5
  <2>2. /\ length < MaxPairs
        /\ pairList' = [i \in 0..length |-> IF i = length THEN pair ELSE pairList[i]]
        /\ fills' = [fills EXCEPT ![length] = NoFills]
    BY <1>1, <1>3, <2>1, LastIndex DEF addPairList, Length
  <2>3. \A i \in 0..length : i # length => i \in 0..(length - 1)
    BY <1>3
  <2>4. pairList' \in [0..length -> PairBaseData]
    BY <1>1, <2>2, <2>3
  <2>5. length + 1 \in 0..MaxPairs /\ (length + 1) - 1 = length
    BY <1>3, <2>2, ContractConstants
  <2>6. pairList' \in [0..((length + 1) - 1) -> PairBaseData]
    BY <2>4, <2>5
  <2>7. fills' \in [PairIds -> [Numbers -> Nat]]
    BY <1>2, <2>2
  <2> QED BY <2>5, <2>6, <2>7
<1>6. CASE \E p \in PairIds, n \in 0..MaxNonce, x \in Positions, pair \in PairBaseData :
             updatePairData(p, n, x, pair)
  <2>1. PICK p \in PairIds, n \in 0..MaxNonce, x \in Positions, pair \in PairBaseData :
               updatePairData(p, n, x, pair)
    BY <1>6
  <2>2. pairList' \in [0..(length - 1) -> PairBaseData]
    BY <1>1, <2>1 DEF updatePairData
  <2>3. fills' \in [PairIds -> [Numbers -> Nat]]
    BY <1>2, <2>1 DEF updatePairData
  <2> QED BY <2>2, <2>3
<1> QED BY <1>4, <1>5, <1>6 DEF Recorded

LEMMA NextTypeOK == TypeOK /\ [Next]_vars => TypeOK'
<1> SUFFICES ASSUME TypeOK, [Next]_vars PROVE TypeOK'
  OBVIOUS
<1>1. now' \in [block : Nat, time : Nat]
  BY TimeIsTyped DEF TypeOK
<1>2. CASE Recorded
  BY <1>1, <1>2, RecordedTypeOK DEF TypeOK
<1>3. CASE Unrecorded
  BY <1>1, <1>3 DEF TypeOK, Unrecorded
<1> QED BY <1>2, <1>3, StepCases

(* Nonces and positions stay within their fields, and pairs are numbered   *)
(* without a gap.                                                          *)
THEOREM TypeCorrect == Spec => []TypeOK
BY InitTypeOK, NextTypeOK, PTL DEF Spec

----------------------------------------------------------------------------
(* TradedIsSpent is what makes NonceTradesOnce inductive: a number that    *)
(* passes the guard of placeOrderCall has not traded yet.                  *)
IInv == TypeOK /\ TradedIsSpent /\ NonceTradesOnce

LEMMA GuardedKeepsIInv ==
  ASSUME IInv, NEW q \in PairIds, NEW m \in 0..MaxNonce, NEW r \in Results,
         m > 0, GuardedCall(q, m, r)
  PROVE  TradedIsSpent' /\ NonceTradesOnce'
<1>1. m \in Numbers
  BY ContractConstants DEF Numbers
<1>2. PICK length \in 0..MaxPairs : pairList \in [0..(length - 1) -> PairBaseData]
  BY DEF IInv, TypeOK
<1>3. fills \in [PairIds -> [Numbers -> Nat]]
  BY DEF IInv, TypeOK
<1>4. q \in Listed /\ pairList[q] \in PairBaseData /\ pairList[q].nonce \in Nat
  BY <1>2, ContractConstants DEF GuardedCall, Listed, PairBaseData
<1>5. ~(pairList[q].nonce >= m)
  BY DEF GuardedCall, Stale
<1>6. fills[q][m] = 0
  BY <1>1, <1>3, <1>4, <1>5 DEF IInv, TradedIsSpent
<1>7. /\ Listed' = Listed
      /\ pairList'[q].nonce = m
      /\ \A p \in Listed : p # q => pairList'[p] = pairList[p]
  BY <1>2, <1>4 DEF GuardedCall, Listed, Booked
<1>8. \A p \in PairIds, n \in Numbers :
        /\ (p # q \/ n # m) => fills'[p][n] = fills[p][n]
        /\ fills'[q][m] \in 0..1
  BY <1>1, <1>3, <1>6 DEF GuardedCall
<1>9. TradedIsSpent'
  <2> SUFFICES ASSUME NEW p \in PairIds, NEW n \in Numbers, fills'[p][n] > 0
               PROVE  p \in Listed' /\ n <= pairList'[p].nonce
    BY DEF TradedIsSpent
  <2>1. CASE p = q /\ n = m
    BY <2>1, <1>1, <1>4, <1>7 DEF Numbers
  <2>2. CASE p = q /\ n # m
    <3>1. n <= pairList[q].nonce
      BY <2>2, <1>8 DEF IInv, TradedIsSpent
    <3> QED BY <3>1, <2>2, <1>4, <1>5, <1>7, ContractConstants DEF Numbers
  <2>3. CASE p # q
    BY <2>3, <1>7, <1>8 DEF IInv, TradedIsSpent
  <2> QED BY <2>1, <2>2, <2>3
<1>10. NonceTradesOnce'
  <2> SUFFICES ASSUME NEW p \in PairIds, NEW n \in Numbers PROVE fills'[p][n] <= 1
    BY DEF NonceTradesOnce
  <2>1. CASE p = q /\ n = m
    BY <2>1, <1>8
  <2>2. CASE p # q \/ n # m
    BY <2>2, <1>8 DEF IInv, NonceTradesOnce
  <2> QED BY <2>1, <2>2
<1> QED BY <1>9, <1>10

LEMMA OwnerKeepsIInv ==
  ASSUME IInv, NEW q \in PairIds, NEW pair \in PairBaseData,
         DOMAIN pairList \subseteq DOMAIN pairList', pairList'[q] = pair, q \in DOMAIN pairList',
         \A p \in DOMAIN pairList : p # q => pairList'[p] = pairList[p],
         fills' = [fills EXCEPT ![q] = NoFills]
  PROVE  TradedIsSpent' /\ NonceTradesOnce'
<1>1. fills \in [PairIds -> [Numbers -> Nat]]
  BY DEF IInv, TypeOK
<1>2. \A p \in PairIds, n \in Numbers : fills'[p][n] = IF p = q THEN 0 ELSE fills[p][n]
  BY <1>1 DEF NoFills
<1> QED BY <1>2 DEF IInv, TradedIsSpent, NonceTradesOnce, Listed

(* What adding a pair does, with its index.                                *)
LEMMA AddedPair ==
  ASSUME TypeOK, NEW pair \in PairBaseData, addPairList(pair)
  PROVE  \E q \in PairIds :
           /\ q \notin Listed /\ q \in DOMAIN pairList' /\ pairList'[q] = pair
           /\ DOMAIN pairList \subseteq DOMAIN pairList'
           /\ \A p \in DOMAIN pairList' : p = q \/ p \in DOMAIN pairList
           /\ \A p \in DOMAIN pairList : p # q => pairList'[p] = pairList[p]
           /\ fills' = [fills EXCEPT ![q] = NoFills]
<1>1. PICK length \in 0..MaxPairs : pairList \in [0..(length - 1) -> PairBaseData]
  BY DEF TypeOK
<1>2. length \in Nat
  BY <1>1, ContractConstants
<1>3. /\ length < MaxPairs
      /\ pairList' = [i \in 0..length |-> IF i = length THEN pair ELSE pairList[i]]
      /\ fills' = [fills EXCEPT ![length] = NoFills]
  BY <1>1, <1>2, LastIndex DEF addPairList, Length
<1>4. length \in PairIds /\ length \notin 0..(length - 1) /\ length \in 0..length
  BY <1>2, <1>3, ContractConstants DEF PairIds
<1>5. 0..(length - 1) \subseteq 0..length /\ \A i \in 0..length : i = length \/ i \in 0..(length - 1)
  BY <1>2
<1>6. DOMAIN pairList = 0..(length - 1) /\ DOMAIN pairList' = 0..length
  BY <1>1, <1>3
<1>7. \A p \in 0..(length - 1) : p # length => pairList'[p] = pairList[p]
  BY <1>3, <1>5
<1>8. pairList'[length] = pair
  BY <1>3, <1>4
<1> QED BY <1>3, <1>4, <1>5, <1>6, <1>7, <1>8 DEF Listed

LEMMA UpdatedPair ==
  ASSUME TypeOK, NEW q \in PairIds, NEW n, NEW x, NEW pair \in PairBaseData,
         updatePairData(q, n, x, pair)
  PROVE  /\ DOMAIN pairList' = DOMAIN pairList
         /\ q \in DOMAIN pairList /\ pairList'[q] = pair
         /\ \A p \in DOMAIN pairList : p # q => pairList'[p] = pairList[p]
         /\ fills' = [fills EXCEPT ![q] = NoFills]
BY DEF updatePairData, TypeOK, Listed

LEMMA NextIInv == IInv /\ [Next]_vars => IInv'
<1> SUFFICES ASSUME IInv, [Next]_vars PROVE IInv'
  OBVIOUS
<1>1. TypeOK'
  BY NextTypeOK DEF IInv
<1>2. TradedIsSpent' /\ NonceTradesOnce'
  <2>1. CASE \E p \in PairIds, n \in 0..MaxNonce, r \in Results : n > 0 /\ GuardedCall(p, n, r)
    BY <2>1, GuardedKeepsIInv
  <2>2. CASE \E pair \in PairBaseData : addPairList(pair)
    BY <2>2, AddedPair, OwnerKeepsIInv DEF IInv
  <2>3. CASE \E p \in PairIds, n \in 0..MaxNonce, x \in Positions, pair \in PairBaseData :
               updatePairData(p, n, x, pair)
    BY <2>3, UpdatedPair, OwnerKeepsIInv DEF IInv
  <2>4. CASE Unrecorded
    BY <2>4 DEF Unrecorded, IInv, TradedIsSpent, NonceTradesOnce, Listed
  <2> QED BY <2>1, <2>2, <2>3, <2>4, StepCases DEF Recorded
<1> QED BY <1>1, <1>2 DEF IInv

LEMMA InitIInv == Init => IInv
<1> SUFFICES ASSUME Init PROVE IInv
  OBVIOUS
<1>1. \A p \in PairIds, n \in Numbers : fills[p][n] = 0
  BY DEF Init, NoFills
<1> QED BY <1>1, InitTypeOK DEF IInv, TradedIsSpent, NonceTradesOnce

LEMMA Invariance == Spec => []IInv
BY InitIInv, NextIInv, PTL DEF Spec

(* Every number that has traded is spent, for every instance.              *)
THEOREM TradedStaysSpent == Spec => []TradedIsSpent
<1>1. IInv => TradedIsSpent
  BY DEF IInv
<1> QED BY <1>1, Invariance, PTL

(* One order, one trade, for every instance.                               *)
THEOREM NoSecondTrade == Spec => []NonceTradesOnce
<1>1. IInv => NonceTradesOnce
  BY DEF IInv
<1> QED BY <1>1, Invariance, PTL

----------------------------------------------------------------------------
LEMMA PairTypes ==
  ASSUME TypeOK
  PROVE  /\ \A p \in Listed : pairList[p].nonce \in 0..MaxNonce
         /\ \A p \in PairIds, n \in Numbers : fills[p][n] \in Nat
         /\ Numbers \subseteq Nat
BY ContractConstants DEF TypeOK, Listed, PairBaseData, Numbers

(* One pair's record in one step: a recorded call raises its nonce, adding *)
(* a pair leaves it, and a repair of it is the repair the property names.  *)
LEMMA RecordMoves ==
  ASSUME TypeOK, [Next]_vars, NEW p \in Listed
  PROVE  \/ pairList'[p].nonce # pairList[p].nonce
         \/ pairList'[p] = pairList[p]
         \/ \E x \in PairBaseData :
              updatePairData(p, pairList[p].nonce, pairList[p].position0, x)
<1>1. CASE \E q \in PairIds, n \in 0..MaxNonce, r \in Results : n > 0 /\ GuardedCall(q, n, r)
  <2>1. PICK q \in PairIds, n \in 0..MaxNonce, r \in Results : n > 0 /\ GuardedCall(q, n, r)
    BY <1>1
  <2>2. pairList' = [pairList EXCEPT ![q] = Booked(pairList[q], n, r.amount0)]
    BY <2>1 DEF GuardedCall
  <2>3. CASE p = q
    <3>1. pairList'[p].nonce = n
      BY <2>2, <2>3 DEF Listed, Booked
    <3>2. n \in Nat /\ pairList[p].nonce \in Nat /\ ~(pairList[p].nonce >= n)
      BY <2>1, <2>3, PairTypes, ContractConstants DEF GuardedCall, Stale
    <3> QED BY <3>1, <3>2
  <2>4. CASE p # q
    BY <2>2, <2>4 DEF Listed
  <2> QED BY <2>3, <2>4
<1>2. CASE \E pair \in PairBaseData : addPairList(pair)
  BY <1>2, AddedPair DEF Listed
<1>3. CASE \E q \in PairIds, n \in 0..MaxNonce, x \in Positions, pair \in PairBaseData :
             updatePairData(q, n, x, pair)
  <2>1. PICK q \in PairIds, n \in 0..MaxNonce, x \in Positions, pair \in PairBaseData :
               updatePairData(q, n, x, pair)
    BY <1>3
  <2>2. CASE p = q
    <3>1. pairList[p].nonce = n /\ pairList[p].position0 = x
      BY <2>1, <2>2 DEF updatePairData
    <3> QED BY <2>1, <2>2, <3>1
  <2>3. CASE p # q
    BY <2>1, <2>3, UpdatedPair DEF Listed
  <2> QED BY <2>2, <2>3
<1>4. CASE Unrecorded
  BY <1>4 DEF Unrecorded
<1> QED BY <1>1, <1>2, <1>3, <1>4, StepCases DEF Recorded

(* A position moves only with the nonce of its pair, unless the owner      *)
(* repairs the record: for every number of pairs, orders and amounts.      *)
THEOREM NonceTellsPosition == Spec => PositionMovesWithNonce
<1> DEFINE Moves == \A p \in Listed :
             \/ pairList'[p].nonce # pairList[p].nonce
             \/ pairList'[p] = pairList[p]
             \/ \E x \in PairBaseData :
                  updatePairData(p, pairList[p].nonce, pairList[p].position0, x)
<1>1. TypeOK /\ [Next]_vars => [Moves]_vars
  BY RecordMoves
<1> QED BY <1>1, TypeCorrect, PTL DEF Spec, PositionMovesWithNonce

----------------------------------------------------------------------------
(* The refinement, with Fate for the ledger's status.                      *)
LEMMA ExceptAt ==
  ASSUME NEW D, NEW f, NEW g, f = [x \in D |-> f[x]], g = [x \in D |-> g[x]],
         NEW q \in D, \A x \in D : x # q => g[x] = f[x]
  PROVE  g = [f EXCEPT ![q] = g[q]]
OBVIOUS

LEMMA FateIsFunction ==
  Fate = [p \in PairIds |-> Fate[p]] /\ Fate' = [p \in PairIds |-> Fate'[p]]
BY DEF Fate

(* A recorded call ends its number, with all the smaller open ones.        *)
LEMMA GuardedEndsNumber ==
  ASSUME IInv, NEW q \in PairIds, NEW m \in 0..MaxNonce, NEW r \in Results,
         m > 0, GuardedCall(q, m, r)
  PROVE  /\ m \in Numbers
         /\ Fate[q][m] = "open"
         /\ Fate' = [Fate EXCEPT ![q] =
              [n \in Numbers |->
                 IF n = m THEN IF r.done = "traded" THEN "traded" ELSE "dead"
                 ELSE IF n < m /\ @[n] = "open" THEN "dead" ELSE @[n]]]
<1>1. m \in Numbers
  BY ContractConstants DEF Numbers
<1>2. PICK length \in 0..MaxPairs : pairList \in [0..(length - 1) -> PairBaseData]
  BY DEF IInv, TypeOK
<1>3. fills \in [PairIds -> [Numbers -> Nat]]
  BY DEF IInv, TypeOK
<1>4. q \in Listed /\ pairList[q].nonce \in Nat /\ pairList[q].nonce < m
  BY <1>2, PairTypes DEF GuardedCall, Listed, Stale, IInv
<1>5. \A n \in Numbers : n > pairList[q].nonce => fills[q][n] = 0
  BY <1>3, <1>4, PairTypes DEF IInv, TradedIsSpent
<1>6. /\ Listed' = Listed
      /\ pairList'[q].nonce = m
      /\ \A p \in Listed : p # q => pairList'[p] = pairList[p]
  BY <1>2, <1>4 DEF GuardedCall, Listed, Booked
<1>7. /\ \A p \in PairIds, n \in Numbers : (p # q \/ n # m) => fills'[p][n] = fills[p][n]
      /\ fills'[q][m] = IF r.done = "traded" THEN 1 ELSE 0
  BY <1>1, <1>3, <1>4, <1>5 DEF GuardedCall
<1> DEFINE Ended == [n \in Numbers |->
                 IF n = m THEN IF r.done = "traded" THEN "traded" ELSE "dead"
                 ELSE IF n < m /\ Fate[q][n] = "open" THEN "dead" ELSE Fate[q][n]]
<1>8. \A p \in PairIds : p # q => Fate'[p] = Fate[p]
  BY <1>6, <1>7 DEF Fate
<1>9. Fate'[q] = Ended
  <2>1. Fate'[q] = [n \in Numbers |->
          IF n > m THEN "open" ELSE IF fills'[q][n] > 0 THEN "traded" ELSE "dead"]
    BY <1>4, <1>6 DEF Fate
  <2>2. ASSUME NEW n \in Numbers
        PROVE  (IF n > m THEN "open" ELSE IF fills'[q][n] > 0 THEN "traded" ELSE "dead") = Ended[n]
    <3>1. n \in Nat /\ m \in Nat
      BY <1>1, PairTypes DEF IInv
    <3>2. Fate[q][n] = IF n > pairList[q].nonce THEN "open"
                       ELSE IF fills[q][n] > 0 THEN "traded" ELSE "dead"
      BY <1>4 DEF Fate
    <3>3. CASE n = m
      BY <3>1, <3>3, <1>7
    <3>4. CASE n > m
      BY <3>1, <3>2, <3>4, <1>4
    <3>5. CASE n < m
      <4>1. fills'[q][n] = fills[q][n]
        BY <3>1, <3>5, <1>7
      <4>2. CASE n > pairList[q].nonce
        BY <4>1, <4>2, <3>1, <3>2, <3>5, <1>5
      <4>3. CASE ~(n > pairList[q].nonce)
        BY <4>1, <4>3, <3>1, <3>2, <3>5
      <4> QED BY <4>2, <4>3
    <3> QED BY <3>1, <3>3, <3>4, <3>5
  <2> QED BY <2>1, <2>2
<1>10. Fate[q][m] = "open"
  BY <1>1, <1>4 DEF Fate
<1>11. Fate' = [Fate EXCEPT ![q] = Ended]
  <2> HIDE DEF Ended
  <2>1. Fate' = [Fate EXCEPT ![q] = Fate'[q]]
    BY <1>8, FateIsFunction, ExceptAt
  <2> QED BY <2>1, <1>9
<1> QED BY <1>1, <1>10, <1>11

(* The owner's entries start the numbers of a pair afresh.                 *)
LEMMA OwnerRewritesPair ==
  ASSUME TypeOK, NEW q \in PairIds, NEW pair \in PairBaseData,
         q \in DOMAIN pairList', pairList'[q] = pair,
         DOMAIN pairList \subseteq DOMAIN pairList',
         \A p \in DOMAIN pairList' : p = q \/ p \in DOMAIN pairList,
         \A p \in DOMAIN pairList : p # q => pairList'[p] = pairList[p],
         fills' = [fills EXCEPT ![q] = NoFills]
  PROVE  /\ pair.nonce \in Numbers \cup {0}
         /\ Fate' = [Fate EXCEPT ![q] =
              [n \in Numbers |-> IF n <= pair.nonce THEN "dead" ELSE "open"]]
<1>1. fills \in [PairIds -> [Numbers -> Nat]]
  BY DEF TypeOK
<1>2. \A p \in PairIds, n \in Numbers : fills'[p][n] = IF p = q THEN 0 ELSE fills[p][n]
  BY <1>1 DEF NoFills
<1>3. pair.nonce \in 0..MaxNonce
  BY DEF PairBaseData
<1>4. pair.nonce \in Numbers \cup {0}
  BY <1>3, ContractConstants DEF Numbers
<1> DEFINE Fresh == [n \in Numbers |-> IF n <= pair.nonce THEN "dead" ELSE "open"]
<1>5. \A p \in PairIds : p # q => Fate'[p] = Fate[p]
  BY <1>2 DEF Fate, Listed
<1>6. Fate'[q] = Fresh
  <2>1. Fate'[q] = [n \in Numbers |-> IF n > pair.nonce THEN "open" ELSE "dead"]
    BY <1>2 DEF Fate, Listed
  <2>2. \A n \in Numbers : n > pair.nonce <=> ~(n <= pair.nonce)
    BY <1>3, PairTypes
  <2> QED BY <2>1, <2>2
<1>7. Fate' = [Fate EXCEPT ![q] = Fresh]
  <2> HIDE DEF Fresh
  <2>1. Fate' = [Fate EXCEPT ![q] = Fate'[q]]
    BY <1>5, FateIsFunction, ExceptAt
  <2> QED BY <2>1, <1>6
<1> QED BY <1>4, <1>7

LEMMA StepRefines == IInv /\ [Next]_vars => [Ledger!Next]_Fate
<1> SUFFICES ASSUME IInv, [Next]_vars PROVE Ledger!Next \/ Fate' = Fate
  OBVIOUS
<1>1. CASE \E p \in PairIds, n \in 0..MaxNonce, r \in Results : n > 0 /\ GuardedCall(p, n, r)
  <2>1. PICK p \in PairIds, n \in 0..MaxNonce, r \in Results : n > 0 /\ GuardedCall(p, n, r)
    BY <1>1
  <2>2. n \in Numbers /\ Ledger!End(p, n, IF r.done = "traded" THEN "traded" ELSE "dead")
    BY <2>1, GuardedEndsNumber DEF Ledger!End
  <2>3. CASE r.done = "traded"
    BY <2>2, <2>3 DEF Ledger!Next, Ledger!Trade
  <2>4. CASE r.done # "traded"
    BY <2>2, <2>4 DEF Ledger!Next, Ledger!Void
  <2> QED BY <2>3, <2>4
<1>2. CASE \E pair \in PairBaseData : addPairList(pair)
  <2>1. PICK pair \in PairBaseData : addPairList(pair)
    BY <1>2
  <2>2. PICK q \in PairIds :
           /\ q \notin Listed /\ q \in DOMAIN pairList' /\ pairList'[q] = pair
           /\ DOMAIN pairList \subseteq DOMAIN pairList'
           /\ \A p \in DOMAIN pairList' : p = q \/ p \in DOMAIN pairList
           /\ \A p \in DOMAIN pairList : p # q => pairList'[p] = pairList[p]
           /\ fills' = [fills EXCEPT ![q] = NoFills]
    BY <2>1, AddedPair DEF IInv
  <2>3. pair.nonce \in Numbers \cup {0} /\ Ledger!Rewrite(q, pair.nonce)
    BY <2>2, OwnerRewritesPair DEF IInv, Ledger!Rewrite
  <2> QED BY <2>3 DEF Ledger!Next
<1>3. CASE \E p \in PairIds, n \in 0..MaxNonce, x \in Positions, pair \in PairBaseData :
             updatePairData(p, n, x, pair)
  <2>1. PICK q \in PairIds, n \in 0..MaxNonce, x \in Positions, pair \in PairBaseData :
               updatePairData(q, n, x, pair)
    BY <1>3
  <2>2. /\ DOMAIN pairList' = DOMAIN pairList
        /\ q \in DOMAIN pairList /\ pairList'[q] = pair
        /\ \A p \in DOMAIN pairList : p # q => pairList'[p] = pairList[p]
        /\ fills' = [fills EXCEPT ![q] = NoFills]
    BY <2>1, UpdatedPair DEF IInv
  <2>3. pair.nonce \in Numbers \cup {0} /\ Ledger!Rewrite(q, pair.nonce)
    BY <2>2, OwnerRewritesPair DEF IInv, Ledger!Rewrite
  <2> QED BY <2>3 DEF Ledger!Next
<1>4. CASE Unrecorded
  BY <1>4 DEF Unrecorded, Fate, Listed
<1> QED BY <1>1, <1>2, <1>3, <1>4, StepCases DEF Recorded

LEMMA InitRefines == Init => Ledger!Init
<1> SUFFICES ASSUME Init PROVE Fate = [p \in PairIds |-> [n \in Numbers |-> "open"]]
  BY DEF Ledger!Init
<1>1. \A p \in Listed : pairList[p].nonce = 0
  BY DEF Init, Listed
<1>2. \A n \in Numbers : n > 0
  BY ContractConstants DEF Numbers
<1> QED BY <1>1, <1>2 DEF Fate

(* The contract implements the ledger of order numbers, for every number   *)
(* of pairs, orders and deadlines.                                         *)
THEOREM ContractKeepsLedger == Spec => KeepsLedger
BY InitRefines, StepRefines, Invariance, PTL DEF KeepsLedger, Ledger!Spec, Spec
=============================================================================
