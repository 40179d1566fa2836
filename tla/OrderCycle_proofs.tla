-------------------------- MODULE OrderCycle_proofs --------------------------
(***************************************************************************)
(* The trade cycle for every lattice, market, set of faults and commands,  *)
(* and every bound: the types, the release of a registered order, and that *)
(* the bot books as a fill, once, what the chain traded under the order's  *)
(* number; that the chain implements the contract, and the bot's numbers   *)
(* their ledger; and, for a chain and an operator that keep out of the     *)
(* way, that the books follow the chain, are right between orders and stay *)
(* on the grid.                                                            *)
(***************************************************************************)
EXTENDS OrderCycle, Lattice_proofs, FiniteSetTheorems

USE DEF chainVars, gridVars, commitVars, otherVars

(* The chain and the grid's books as typed on their own: most actions move *)
(* only one part of the state.                                             *)
ChainOK ==
  /\ spent \in Nat /\ position \in Int /\ account \in Nat
  /\ mempool \subseteq Txs /\ mined \subseteq Receipts

GridOK ==
  /\ plan \in Position /\ pending \in Position /\ confirm \in Position
  /\ target \in Int /\ diff \in Int /\ actual \in Int /\ wish \in Int
  /\ paused \in BOOLEAN
  /\ disk \in [plan : Position, confirm : Position, actual : Int, paused : BOOLEAN]

LoopOK ==
  /\ pc \in Places /\ flags \subseteq Paths
  /\ attempt \in Attempts /\ cands \in Seq(Candidates)

CommitOK ==
  /\ order \in OrderRecords
  /\ waiting \in BOOLEAN /\ waiter \in 0..MaxOrders
  /\ hashes \subseteq [owner : Orders, order : Orders, kind : Kinds]
  /\ polls \in [Orders -> Nat]

OtherOK == handler \in {"none", "reset", "view"} /\ crashes \in Nat /\ commands \in Nat

(* The order number of the order under way is a number of the run.         *)
Numbered == pc \in Committing => order.no \in Orders

Finite == IsFiniteSet(mempool)

TInv ==
  /\ ChainOK /\ GridOK /\ LoopOK /\ CommitOK /\ OtherOK
  /\ Finite /\ Numbered /\ ReleasedAfterCommit

LEMMA TInvIsTypeOK == TInv => TypeOK
BY DEF TInv, TypeOK, ChainOK, GridOK, LoopOK, CommitOK, OtherOK

----------------------------------------------------------------------------
(* Operators of the loop.                                                  *)
LEMMA FlatIsPosition == Flat \in Position
BY DEF Flat, Position

LEMMA NetIsInt == ASSUME NEW p \in Position PROVE Net(p) \in Int
BY DEF Net, Position

LEMMA GapIsNat == ASSUME NEW n \in Int PROVE Gap(n) \in Nat
BY DEF Gap

LEMMA UnitIsPositive == UnitNotional \in Int /\ UnitNotional > 0
BY CycleConstants

LEMMA NoAttemptType == NoAttempt \in Attempts
BY DEF NoAttempt, Attempts, Paths, Ways

LEMMA NoOrderType == ASSUME NEW n \in 0..MaxOrders PROVE NoOrder(n) \in OrderRecords
BY DEF NoOrder, OrderRecords

LEMMA ZeroIsNumber == 0 \in 0..MaxOrders
BY CycleConstants

LEMMA OrderUnderWay ==
  ASSUME TInv, waiting
  PROVE  order.no \in Orders
BY DEF TInv, Numbered, ReleasedAfterCommit

LEMMA FirstCandidate ==
  ASSUME LoopOK, cands # <<>>
  PROVE  cands[1] \in Candidates
BY DEF LoopOK

LEMMA ThrowType ==
  ASSUME LoopOK, Throw
  PROVE  pc' = "top" /\ attempt' \in Attempts /\ cands' \in Seq(Candidates)
BY NoAttemptType DEF LoopOK, Throw

LEMMA LeaveType ==
  ASSUME NEW p \in Paths, LoopOK, Leave(p)
  PROVE  pc' \in {"buy", "pick"} /\ attempt' \in Attempts /\ cands' \in Seq(Candidates)
BY NoAttemptType DEF Leave, LoopOK

LEMMA TryPathsType ==
  ASSUME NEW p \in Paths, NEW way \in Ways, NEW from \in Position,
         GridOK, LoopOK, TryPaths(p, way, from)
  PROVE  /\ plan' \in Position
         /\ pc' \in {"top", "buy", "pick", "reset", "find"}
         /\ attempt' \in Attempts /\ cands' \in Seq(Candidates)
<1> DEFINE asked == Asked(way, from)
           goal  == Net(asked)
           step  == Step(goal)
           need  == Need(goal)
<1>1. confirm \in Position /\ target \in Int /\ actual \in Int
  BY DEF GridOK
<1>2. OneNotional(from, confirm, target) \in Position
  BY <1>1, OneNotionalIsPosition
<1>3. asked \in Position
  BY <1>2 DEF Asked
<1> HIDE DEF asked
<1>4. goal \in Int /\ step \in Int
  BY <1>1, <1>3, NetIsInt DEF Step
<1>5. goal * UnitNotional \in Int
  BY <1>4, UnitIsPositive
<1>6. need \in Int
  BY <1>1, <1>5 DEF Need
<1>7. Gap(need) \in Int /\ -Gap(need) \in Int
  BY <1>6, GapIsNat
<1>8. plan' = asked
  BY DEF TryPaths, asked
<1>9. \/ Leave(p) \/ Throw
      \/ pc' = "reset" /\ attempt' = [NoAttempt EXCEPT !.path = p] /\ cands' = cands
      \/ /\ pc' = "find" /\ cands' = cands
         /\ attempt' = [path |-> p, way |-> way, target |-> goal, diff |-> step,
                        amount |-> IF Buys(p) THEN Gap(need) ELSE -Gap(need)]
  BY DEF TryPaths, asked
<1> HIDE DEF need, step, goal
<1>10. [NoAttempt EXCEPT !.path = p] \in Attempts
  BY NoAttemptType DEF Attempts
<1>11. [path |-> p, way |-> way, target |-> goal, diff |-> step,
        amount |-> IF Buys(p) THEN Gap(need) ELSE -Gap(need)] \in Attempts
  BY <1>4, <1>7 DEF Attempts
<1>12. cands \in Seq(Candidates)
  BY DEF LoopOK
<1> QED BY <1>3, <1>8, <1>9, <1>10, <1>11, <1>12, ThrowType, LeaveType

LEMMA OfferType ==
  ASSUME NEW a \in Attempts, NEW v \in Int, LoopOK, Offer(a, v)
  PROVE  pc' \in {"buy", "pick"} /\ attempt' \in Attempts /\ cands' \in Seq(Candidates)
<1> DEFINE cand == [target |-> a.target, diff |-> a.diff, amount |-> v]
<1>1. cand \in Candidates
  BY DEF Candidates, Attempts
<1>2. cands \in Seq(Candidates)
  BY DEF LoopOK
<1>3. Append(cands, cand) \in Seq(Candidates)
  BY <1>1, <1>2
<1>4. cands' = Append(cands, cand) \/ cands' = cands
  BY DEF Offer
<1> QED BY <1>2, <1>3, <1>4, NoAttemptType DEF Offer

LEMMA ResetType ==
  ASSUME ChainOK, GridOK, paused' \in BOOLEAN, ResetActualPositionConfirm
  PROVE  /\ plan' \in Position /\ pending' \in Position /\ confirm' \in Position
         /\ target' \in Int /\ actual' \in Int
         /\ disk' \in [plan : Position, confirm : Position, actual : Int, paused : BOOLEAN]
<1>1. position \in Int
  BY DEF ChainOK
<1>2. Nearest(position) \in Int
  BY <1>1, UnitIsPositive DEF Nearest
<1>3. \A n \in Int : Sided(n) \in Position
  BY DEF Sided, Position
<1>4. target' \in Int
  BY <1>2 DEF ResetActualPositionConfirm
<1>5. plan' \in Position /\ pending' \in Position /\ confirm' \in Position /\ actual' \in Int
  BY <1>1, <1>3, <1>4 DEF ResetActualPositionConfirm
<1> QED BY <1>4, <1>5 DEF ResetActualPositionConfirm, SaveStatusConfig

LEMMA SaveType ==
  ASSUME plan' \in Position, confirm' \in Position, actual' \in Int, paused' \in BOOLEAN,
         SaveStatusConfig
  PROVE  disk' \in [plan : Position, confirm : Position, actual : Int, paused : BOOLEAN]
BY DEF SaveStatusConfig

----------------------------------------------------------------------------
(* Each action keeps the types and releases what it registered.            *)

LEMMA BeginTurnTypes ==
  ASSUME TInv, BeginTurn
  PROVE  TInv'
<1>1. ChainOK' /\ Finite' /\ GridOK' /\ LoopOK' /\ CommitOK' /\ OtherOK'
  BY DEF TInv, BeginTurn, Ticked, ChainOK, Finite, GridOK, LoopOK, Places, CommitOK, OtherOK
<1>2. Numbered' /\ ReleasedAfterCommit'
  BY DEF TInv, BeginTurn, Numbered, ReleasedAfterCommit, Committing
<1> QED BY <1>1, <1>2 DEF TInv

LEMMA PickNoneTypes ==
  ASSUME TInv, PickNone
  PROVE  TInv'
<1>1. ChainOK' /\ Finite' /\ GridOK' /\ LoopOK' /\ CommitOK' /\ OtherOK'
  BY DEF TInv, PickNone, ChainOK, Finite, GridOK, LoopOK, Places, CommitOK, OtherOK
<1>2. Numbered' /\ ReleasedAfterCommit'
  BY DEF TInv, PickNone, Numbered, ReleasedAfterCommit, Committing
<1> QED BY <1>1, <1>2 DEF TInv

LEMMA PickFirstTypes ==
  ASSUME TInv, PickFirst
  PROVE  TInv'
<1>1. ChainOK' /\ Finite' /\ GridOK' /\ LoopOK' /\ OtherOK'
  BY DEF TInv, PickFirst, ChainOK, Finite, GridOK, LoopOK, Places, OtherOK
<1>2. CommitOK'
  BY NoOrderType, FirstCandidate DEF TInv, PickFirst, CommitOK, OrderRecords, Candidates, LoopOK
<1>3. Numbered' /\ ReleasedAfterCommit'
  BY DEF TInv, PickFirst, Numbered, ReleasedAfterCommit, Committing
<1> QED BY <1>1, <1>2, <1>3 DEF TInv

LEMMA DeclineTypes ==
  ASSUME TInv, Decline
  PROVE  TInv'
<1>1. ChainOK' /\ Finite' /\ GridOK' /\ LoopOK' /\ OtherOK'
  BY DEF TInv, Decline, ChainOK, Finite, GridOK, LoopOK, Places, OtherOK
<1>2. CommitOK'
  BY NoOrderType DEF TInv, Decline, CommitOK, OrderRecords
<1>3. Numbered' /\ ReleasedAfterCommit'
  BY DEF TInv, Decline, Numbered, ReleasedAfterCommit, Committing
<1> QED BY <1>1, <1>2, <1>3 DEF TInv

LEMMA RegisterTypes ==
  ASSUME TInv, Register
  PROVE  TInv'
<1>1. ChainOK' /\ Finite' /\ GridOK' /\ LoopOK' /\ OtherOK'
  BY DEF TInv, Register, ChainOK, Finite, GridOK, LoopOK, Places, OtherOK
<1>2. CommitOK'
  BY CycleConstants DEF TInv, Register, CommitOK, OrderRecords
<1>3. Numbered'
  <2>1. order \in OrderRecords /\ order.no < MaxOrders /\ order' = [order EXCEPT !.no = @ + 1]
    BY DEF TInv, Register, CommitOK
  <2>2. order.no \in 0..MaxOrders /\ order'.no = order.no + 1 /\ MaxOrders \in Nat
    BY <2>1, CycleConstants DEF OrderRecords
  <2>3. order'.no \in 1..MaxOrders
    BY <2>1, <2>2
  <2> QED BY <2>3 DEF Numbered, Orders
<1>4. ReleasedAfterCommit'
  BY DEF TInv, Register, ReleasedAfterCommit, Committing
<1> QED BY <1>1, <1>2, <1>3, <1>4 DEF TInv

LEMMA AbortTypes ==
  ASSUME TInv, PrepareFails \/ BeforeFails
  PROVE  TInv'
<1>1. ChainOK' /\ Finite' /\ GridOK' /\ OtherOK'
  BY DEF TInv, PrepareFails, BeforeFails, Abort, Release, ChainOK, Finite, GridOK, OtherOK
<1>2. LoopOK'
  BY DEF TInv, PrepareFails, BeforeFails, Abort, Release, LoopOK, Places, Paths
<1>3. CommitOK'
  BY DEF TInv, PrepareFails, BeforeFails, Abort, Release, CommitOK, Orders
<1>4. Numbered' /\ ReleasedAfterCommit'
  BY DEF TInv, PrepareFails, BeforeFails, Abort, Release, Numbered, ReleasedAfterCommit, Committing
<1> QED BY <1>1, <1>2, <1>3, <1>4 DEF TInv

LEMMA ReadBeforeTypes ==
  ASSUME TInv, ReadBefore
  PROVE  TInv'
<1>1. ChainOK' /\ Finite' /\ GridOK' /\ LoopOK' /\ OtherOK'
  BY DEF TInv, ReadBefore, ChainOK, Finite, GridOK, LoopOK, Places, OtherOK
<1>2. CommitOK'
  BY DEF TInv, ReadBefore, CommitOK, OrderRecords, ChainOK
<1>3. Numbered' /\ ReleasedAfterCommit'
  BY DEF TInv, ReadBefore, Numbered, ReleasedAfterCommit, Committing, CommitOK, OrderRecords
<1> QED BY <1>1, <1>2, <1>3 DEF TInv

LEMMA TimerTypes ==
  ASSUME TInv, Timer
  PROVE  TInv'
<1>1. ChainOK' /\ Finite' /\ GridOK' /\ LoopOK' /\ OtherOK'
  BY DEF TInv, Timer, GiveUp, Release, ChainOK, Finite, GridOK, LoopOK, Places, OtherOK
<1>2. CommitOK'
  BY ZeroIsNumber DEF TInv, Timer, GiveUp, Release, CommitOK
<1>3. Numbered' /\ ReleasedAfterCommit'
  BY DEF TInv, Timer, GiveUp, Release, Numbered, ReleasedAfterCommit, Committing
<1> QED BY <1>1, <1>2, <1>3 DEF TInv

LEMMA FailTypes ==
  ASSUME TInv, SettleFails \/ BookFails
  PROVE  TInv'
<1>1. ChainOK' /\ Finite' /\ GridOK' /\ OtherOK'
  BY DEF TInv, SettleFails, BookFails, GiveUp, Release, ChainOK, Finite, GridOK, OtherOK
<1>2. LoopOK'
  BY DEF TInv, SettleFails, BookFails, GiveUp, Release, LoopOK, Places, Paths
<1>3. CommitOK'
  BY DEF TInv, SettleFails, BookFails, GiveUp, Release, CommitOK, Orders
<1>4. Numbered' /\ ReleasedAfterCommit'
  BY DEF TInv, SettleFails, BookFails, GiveUp, Release, Numbered, ReleasedAfterCommit, Committing
<1> QED BY <1>1, <1>2, <1>3, <1>4 DEF TInv

LEMMA SettleTypes ==
  ASSUME TInv, SettleForked \/ SettleBraked
  PROVE  TInv'
<1>1. ChainOK' /\ Finite' /\ LoopOK' /\ CommitOK' /\ OtherOK'
  BY DEF TInv, SettleForked, SettleBraked, Release, ChainOK, Finite, LoopOK, Places, CommitOK, OtherOK
<1>2. GridOK'
  BY SaveType DEF TInv, SettleForked, SettleBraked, Release, GridOK
<1>3. Numbered' /\ ReleasedAfterCommit'
  BY DEF TInv, SettleForked, SettleBraked, Release, Numbered, ReleasedAfterCommit, Committing
<1> QED BY <1>1, <1>2, <1>3 DEF TInv

LEMMA FilledTypes ==
  ASSUME TInv, SettleFilled
  PROVE  TInv'
<1>1. ChainOK' /\ Finite' /\ LoopOK' /\ OtherOK'
  BY DEF TInv, SettleFilled, MovedBy, ChainOK, Finite, LoopOK, Places, OtherOK
<1>2. GridOK'
  BY DEF TInv, SettleFilled, MovedBy, GridOK, CommitOK, OrderRecords
<1>3. CommitOK'
  BY DEF TInv, SettleFilled, MovedBy, CommitOK, OrderRecords, ChainOK
<1>4. Numbered' /\ ReleasedAfterCommit'
  BY DEF TInv, SettleFilled, MovedBy, Numbered, ReleasedAfterCommit, Committing, CommitOK, OrderRecords
<1> QED BY <1>1, <1>2, <1>3, <1>4 DEF TInv

LEMMA BookTypes ==
  ASSUME TInv, BookFill
  PROVE  TInv'
<1>1. ChainOK' /\ Finite' /\ LoopOK' /\ CommitOK' /\ OtherOK'
  BY DEF TInv, BookFill, ChainOK, Finite, LoopOK, Places, CommitOK, OtherOK
<1>2. GridOK'
  BY SaveType DEF TInv, BookFill, GridOK, CommitOK, OrderRecords
<1>3. Numbered' /\ ReleasedAfterCommit'
  BY DEF TInv, BookFill, Numbered, ReleasedAfterCommit, Committing
<1> QED BY <1>1, <1>2, <1>3 DEF TInv

LEMMA EndTurnTypes ==
  ASSUME TInv, EndTurn
  PROVE  TInv'
<1>1. ChainOK' /\ Finite' /\ GridOK' /\ LoopOK' /\ OtherOK'
  BY DEF TInv, EndTurn, ChainOK, Finite, GridOK, LoopOK, Places, OtherOK
<1>2. CommitOK'
  BY NoOrderType DEF TInv, EndTurn, CommitOK, OrderRecords
<1>3. Numbered' /\ ReleasedAfterCommit'
  BY DEF TInv, EndTurn, Numbered, ReleasedAfterCommit, Committing
<1> QED BY <1>1, <1>2, <1>3 DEF TInv

LEMMA AddTypes ==
  ASSUME TInv, Add
  PROVE  TInv'
<1>1. ChainOK' /\ Finite' /\ LoopOK' /\ CommitOK' /\ OtherOK'
  BY DEF TInv, Add, Command, ChainOK, Finite, LoopOK, Places, CommitOK, OtherOK
<1>2. GridOK'
  BY SaveType DEF TInv, Add, Command, GridOK, Position
<1>3. Numbered' /\ ReleasedAfterCommit'
  BY DEF TInv, Add, Command, Numbered, ReleasedAfterCommit, Committing
<1> QED BY <1>1, <1>2, <1>3 DEF TInv

LEMMA CutTypes ==
  ASSUME TInv, Cut
  PROVE  TInv'
<1>1. ChainOK' /\ Finite' /\ LoopOK' /\ CommitOK' /\ OtherOK'
  BY DEF TInv, Cut, Command, ChainOK, Finite, LoopOK, Places, CommitOK, OtherOK
<1>2. GridOK'
  BY SaveType DEF TInv, Cut, Command, GridOK, Position
<1>3. Numbered' /\ ReleasedAfterCommit'
  BY DEF TInv, Cut, Command, Numbered, ReleasedAfterCommit, Committing
<1> QED BY <1>1, <1>2, <1>3 DEF TInv

LEMMA BuyOrSellTypes ==
  ASSUME TInv, BuyOrSell
  PROVE  TInv'
<1>1. ChainOK' /\ Finite' /\ GridOK' /\ OtherOK'
  BY DEF TInv, BuyOrSell, Command, ChainOK, Finite, GridOK, OtherOK
<1>2. LoopOK'
  BY DEF TInv, BuyOrSell, Command, LoopOK, Places, Paths
<1>3. CommitOK'
  BY DEF TInv, BuyOrSell, Command, CommitOK, Orders
<1>4. Numbered' /\ ReleasedAfterCommit'
  BY DEF TInv, BuyOrSell, Command, Numbered, ReleasedAfterCommit, Committing
<1> QED BY <1>1, <1>2, <1>3, <1>4 DEF TInv

LEMMA PauseTypes ==
  ASSUME TInv, Pause
  PROVE  TInv'
<1>1. ChainOK' /\ Finite' /\ LoopOK' /\ CommitOK' /\ OtherOK'
  BY DEF TInv, Pause, Command, ChainOK, Finite, LoopOK, Places, CommitOK, OtherOK
<1>2. GridOK'
  BY SaveType DEF TInv, Pause, Command, GridOK
<1>3. Numbered' /\ ReleasedAfterCommit'
  BY DEF TInv, Pause, Command, Numbered, ReleasedAfterCommit, Committing
<1> QED BY <1>1, <1>2, <1>3 DEF TInv

LEMMA ViewTypes ==
  ASSUME TInv, BeginView \/ EndView
  PROVE  TInv'
<1>1. ChainOK' /\ Finite' /\ LoopOK' /\ CommitOK' /\ OtherOK'
  BY DEF TInv, BeginView, EndView, Command, ChainOK, Finite, LoopOK, Places, CommitOK, OtherOK
<1>2. GridOK'
  BY SaveType DEF TInv, BeginView, EndView, Command, GridOK, ChainOK
<1>3. Numbered' /\ ReleasedAfterCommit'
  BY DEF TInv, BeginView, EndView, Command, Numbered, ReleasedAfterCommit, Committing
<1> QED BY <1>1, <1>2, <1>3 DEF TInv

LEMMA BeginResetTypes ==
  ASSUME TInv, BeginReset
  PROVE  TInv'
<1>1. ChainOK' /\ Finite' /\ GridOK' /\ LoopOK' /\ CommitOK' /\ OtherOK'
  BY DEF TInv, BeginReset, Command, ChainOK, Finite, GridOK, LoopOK, Places, CommitOK, OtherOK
<1>2. Numbered' /\ ReleasedAfterCommit'
  BY DEF TInv, BeginReset, Command, Numbered, ReleasedAfterCommit, Committing
<1> QED BY <1>1, <1>2 DEF TInv

LEMMA StutterTypes ==
  ASSUME TInv, UNCHANGED vars
  PROVE  TInv'
<1>1. ChainOK' /\ Finite' /\ GridOK' /\ LoopOK' /\ CommitOK' /\ OtherOK'
  BY DEF TInv, vars, ChainOK, Finite, GridOK, LoopOK, Places, CommitOK, OtherOK
<1>2. Numbered' /\ ReleasedAfterCommit'
  BY DEF TInv, vars, Numbered, ReleasedAfterCommit, Committing
<1> QED BY <1>1, <1>2 DEF TInv

LEMMA SkipPathTypes ==
  ASSUME TInv, NEW p \in Paths, SkipPath(p)
  PROVE  TInv'
<1>1. ChainOK' /\ Finite' /\ GridOK' /\ CommitOK' /\ OtherOK'
  BY DEF TInv, SkipPath, Paths, ChainOK, Finite, GridOK, CommitOK, OtherOK
<1>2. LoopOK'
  BY LeaveType DEF TInv, SkipPath, Paths, LoopOK, Places
<1>3. Numbered' /\ ReleasedAfterCommit'
  BY LeaveType DEF TInv, SkipPath, Paths, Numbered, ReleasedAfterCommit, Committing
<1> QED BY <1>1, <1>2, <1>3 DEF TInv

LEMMA InputFailsTypes ==
  ASSUME TInv, InputFails
  PROVE  TInv'
<1>1. ChainOK' /\ Finite' /\ GridOK' /\ OtherOK'
  BY DEF TInv, InputFails, ChainOK, Finite, GridOK, OtherOK
<1>2. LoopOK'
  BY ThrowType DEF TInv, InputFails, LoopOK, Places
<1>3. CommitOK'
  BY NoOrderType DEF TInv, InputFails, CommitOK, OrderRecords
<1>4. Numbered' /\ ReleasedAfterCommit'
  BY ThrowType DEF TInv, InputFails, Numbered, ReleasedAfterCommit, Committing
<1> QED BY <1>1, <1>2, <1>3, <1>4 DEF TInv

LEMMA TopUpThrowsTypes ==
  ASSUME TInv, TopUpThrows
  PROVE  TInv'
<1>1. ChainOK' /\ Finite' /\ GridOK' /\ CommitOK' /\ OtherOK'
  BY DEF TInv, TopUpThrows, ChainOK, Finite, GridOK, CommitOK, OtherOK
<1>2. LoopOK'
  BY ThrowType DEF TInv, TopUpThrows, LoopOK, Places
<1>3. Numbered' /\ ReleasedAfterCommit'
  BY ThrowType DEF TInv, TopUpThrows, Numbered, ReleasedAfterCommit, Committing
<1> QED BY <1>1, <1>2, <1>3 DEF TInv

LEMMA EndTurnFailsTypes ==
  ASSUME TInv, EndTurnFails
  PROVE  TInv'
<1>1. ChainOK' /\ Finite' /\ GridOK' /\ OtherOK'
  BY DEF TInv, EndTurnFails, ChainOK, Finite, GridOK, OtherOK
<1>2. LoopOK'
  BY ThrowType DEF TInv, EndTurnFails, LoopOK, Places
<1>3. CommitOK'
  BY NoOrderType DEF TInv, EndTurnFails, CommitOK, OrderRecords
<1>4. Numbered' /\ ReleasedAfterCommit'
  BY ThrowType DEF TInv, EndTurnFails, Numbered, ReleasedAfterCommit, Committing
<1> QED BY <1>1, <1>2, <1>3, <1>4 DEF TInv

LEMMA EndResetTypes ==
  ASSUME TInv, EndReset
  PROVE  TInv'
<1>1. ChainOK' /\ Finite' /\ LoopOK' /\ CommitOK' /\ OtherOK'
  BY DEF TInv, EndReset, ChainOK, Finite, LoopOK, Places, CommitOK, OtherOK
<1>2. GridOK'
  BY ResetType DEF TInv, EndReset, GridOK
<1>3. Numbered' /\ ReleasedAfterCommit'
  BY DEF TInv, EndReset, Numbered, ReleasedAfterCommit, Committing
<1> QED BY <1>1, <1>2, <1>3 DEF TInv

LEMMA ResetInTryPathsTypes ==
  ASSUME TInv, ResetInTryPaths
  PROVE  TInv'
<1>1. ChainOK' /\ Finite' /\ CommitOK' /\ OtherOK'
  BY DEF TInv, ResetInTryPaths, ChainOK, Finite, CommitOK, OtherOK
<1>2. GridOK'
  BY ResetType DEF TInv, ResetInTryPaths, GridOK
<1>3. LoopOK'
  BY ThrowType, LeaveType DEF TInv, ResetInTryPaths, LoopOK, Places, Attempts
<1>4. Numbered' /\ ReleasedAfterCommit'
  BY ThrowType, LeaveType DEF TInv, ResetInTryPaths, Numbered, ReleasedAfterCommit,
     Committing, Attempts, LoopOK
<1> QED BY <1>1, <1>2, <1>3, <1>4 DEF TInv

LEMMA CrashTypes ==
  ASSUME TInv, Crash
  PROVE  TInv'
<1>1. ChainOK' /\ Finite' /\ OtherOK'
  BY DEF TInv, Crash, ChainOK, Finite, OtherOK
<1>2. GridOK'
  BY NetIsInt DEF TInv, Crash, GridOK
<1>3. LoopOK'
  BY NoAttemptType DEF TInv, Crash, LoopOK, Places, Paths
<1>4. CommitOK'
  BY NoOrderType, ZeroIsNumber DEF TInv, Crash, CommitOK, OrderRecords, Orders
<1>5. Numbered' /\ ReleasedAfterCommit'
  BY DEF TInv, Crash, Numbered, ReleasedAfterCommit, Committing
<1> QED BY <1>1, <1>2, <1>3, <1>4, <1>5 DEF TInv

LEMMA RelayReceiptTypes ==
  ASSUME TInv, NEW o \in Orders, RelayReceipt(o)
  PROVE  TInv'
<1>1. ChainOK' /\ Finite' /\ GridOK' /\ LoopOK' /\ OtherOK'
  BY DEF TInv, RelayReceipt, ChainOK, Finite, GridOK, LoopOK, Places, OtherOK
<1>2. CommitOK'
  BY OrderUnderWay DEF TInv, RelayReceipt, CommitOK, Kinds
<1>3. Numbered' /\ ReleasedAfterCommit'
  BY DEF TInv, RelayReceipt, Numbered, ReleasedAfterCommit, Committing
<1> QED BY <1>1, <1>2, <1>3 DEF TInv

LEMMA PollReturnsTypes ==
  ASSUME TInv, NEW o \in Orders, PollReturns(o)
  PROVE  TInv'
<1>1. /\ order' = order \/ \E b \in BOOLEAN : order' = [order EXCEPT !.traded = b]
      /\ pc' = pc \/ (pc = "wait" /\ pc' = "settle")
      /\ waiter' \in {0, waiter}
      /\ polls' = [polls EXCEPT ![o] = @ - 1] /\ polls[o] > 0
      /\ UNCHANGED <<chainVars, gridVars, flags, attempt, cands, waiting, hashes, otherVars>>
  <2>1. CASE UNCHANGED <<pc, order, waiter>>
    BY <2>1 DEF PollReturns
  <2>2. CASE ~UNCHANGED <<pc, order, waiter>>
    <3>1. waiter' = 0
      BY <2>2 DEF PollReturns
    <3>2. PICK r \in Known(o) :
            IF pc = "wait" /\ o = order.no
              THEN pc' = "settle" /\ order' = [order EXCEPT !.traded = (r.amount # 0)]
              ELSE UNCHANGED <<pc, order>>
      BY <2>2 DEF PollReturns
    <3> QED BY <3>1, <3>2 DEF PollReturns
  <2> QED BY <2>1, <2>2
<1>2. \A b \in BOOLEAN : /\ [order EXCEPT !.traded = b] \in OrderRecords
                         /\ [order EXCEPT !.traded = b].no = order.no
  BY DEF TInv, CommitOK, OrderRecords
<1>3. order' \in OrderRecords /\ order'.no = order.no
  BY <1>1, <1>2 DEF TInv, CommitOK
<1>4. ChainOK' /\ Finite' /\ GridOK' /\ OtherOK'
  BY <1>1 DEF TInv, ChainOK, Finite, GridOK, OtherOK
<1>5. LoopOK'
  BY <1>1 DEF TInv, LoopOK, Places
<1>6. polls' \in [Orders -> Nat]
  BY <1>1 DEF TInv, CommitOK
<1>7. CommitOK'
  BY <1>1, <1>3, <1>6, ZeroIsNumber DEF TInv, CommitOK
<1>8. Numbered' /\ ReleasedAfterCommit'
  BY <1>1, <1>3 DEF TInv, Numbered, ReleasedAfterCommit, Committing
<1> QED BY <1>4, <1>5, <1>7, <1>8 DEF TInv

LEMMA CancelPendingTypes ==
  ASSUME TInv, CancelPending
  PROVE  TInv'
<1>1. PICK tx \in mempool : mempool' = mempool \cup {EmptyTransfer(tx)}
  BY DEF CancelPending
<1>2. tx \in Txs /\ mempool \subseteq Txs /\ IsFiniteSet(mempool)
  BY DEF TInv, ChainOK, Finite
<1>3. EmptyTransfer(tx) \in Txs
  BY <1>2 DEF EmptyTransfer, Txs, Kinds
<1>4. mempool' \subseteq Txs /\ IsFiniteSet(mempool')
  BY <1>1, <1>2, <1>3, FS_AddElement
<1>5. ChainOK' /\ Finite'
  BY <1>4 DEF CancelPending, TInv, ChainOK, Finite
<1>6. GridOK' /\ LoopOK' /\ CommitOK' /\ OtherOK'
  BY DEF CancelPending, TInv, GridOK, LoopOK, CommitOK, OtherOK
<1>7. Numbered' /\ ReleasedAfterCommit'
  BY DEF CancelPending, TInv, Numbered, ReleasedAfterCommit
<1> QED BY <1>5, <1>6, <1>7 DEF TInv

LEMMA BootTypes ==
  ASSUME TInv, Boot
  PROVE  TInv'
<1>1. ChainOK' /\ Finite' /\ GridOK' /\ CommitOK' /\ OtherOK'
  BY DEF TInv, Boot, ChainOK, Finite, GridOK, CommitOK, OtherOK
<1>2. LoopOK'
  BY DEF TInv, Boot, LoopOK, Places
<1>3. Numbered' /\ ReleasedAfterCommit'
  BY DEF TInv, Boot, Numbered, ReleasedAfterCommit, Committing
<1> QED BY <1>1, <1>2, <1>3 DEF TInv

(* The loop's searches: what TryPaths, Leave, Throw and Offer may set.     *)
LEMMA ThreeWays == "whole" \in Ways /\ "one" \in Ways /\ "blind" \in Ways
BY DEF Ways

LEMMA LoopPathTypes ==
  ASSUME TInv, NEW p \in Paths, LoopPath(p)
  PROVE  TInv'
<1>1. \E from \in Position : TryPaths(p, "whole", from)
  <2>1. CASE p = "sell" /\ ~paused
    <3>1. PICK s \in Spreads : TryPaths(p, "whole", UpdatePosition(confirm, s.on, s.off))
      BY <2>1 DEF LoopPath
    <3>2. UpdatePosition(confirm, s.on, s.off) \in Position
      BY CycleConstants, UpdateIsPosition DEF TInv, GridOK
    <3> QED BY <3>1, <3>2
  <2>2. CASE ~(p = "sell" /\ ~paused)
    BY <2>2 DEF LoopPath, TInv, GridOK
  <2> QED BY <2>1, <2>2
<1>2. /\ plan' \in Position /\ pc' \in {"top", "buy", "pick", "reset", "find"}
      /\ attempt' \in Attempts /\ cands' \in Seq(Candidates)
  BY <1>1, TryPathsType, ThreeWays DEF TInv
<1>3. /\ pc = p /\ flags' \subseteq Paths
      /\ UNCHANGED <<chainVars, pending, confirm, target, diff, actual, paused, wish, disk,
                     commitVars, otherVars>>
  BY DEF LoopPath, TInv, LoopOK, Paths
<1>4. ChainOK' /\ Finite' /\ GridOK' /\ OtherOK'
  BY <1>2, <1>3 DEF TInv, ChainOK, Finite, GridOK, OtherOK
<1>5. LoopOK' /\ CommitOK'
  BY <1>2, <1>3 DEF TInv, LoopOK, CommitOK, Places
<1>6. Numbered' /\ ReleasedAfterCommit'
  BY <1>2, <1>3 DEF TInv, Numbered, ReleasedAfterCommit, Committing, Paths
<1> QED BY <1>4, <1>5, <1>6 DEF TInv

LEMMA FindTypes ==
  ASSUME TInv, FoundPath \/ NoPath
  PROVE  TInv'
<1>1. pc = "find" /\ attempt \in Attempts /\ attempt.path \in Paths /\ attempt.amount \in Int
      /\ plan \in Position /\ confirm \in Position
  BY DEF FoundPath, NoPath, TInv, LoopOK, GridOK, Attempts
<1>2. /\ plan' \in Position /\ pc' \in {"top", "buy", "pick", "reset", "find"}
      /\ attempt' \in Attempts /\ cands' \in Seq(Candidates)
  <2>1. CASE FoundPath
    <3>1. PICK v \in Volumes(attempt.amount) :
             \/ Leave(attempt.path) /\ UNCHANGED plan
             \/ TryPaths(attempt.path, "blind", plan)
             \/ Offer(attempt, v) /\ UNCHANGED plan
      BY <2>1 DEF FoundPath
    <3>2. v \in Int
      <4>1. Gap(attempt.amount) \in Int /\ -Gap(attempt.amount) \in Int
        BY <1>1, GapIsNat
      <4> QED BY <4>1 DEF Volumes
    <3>3. CASE Leave(attempt.path) /\ UNCHANGED plan
      BY <1>1, <3>3, LeaveType DEF TInv
    <3>4. CASE TryPaths(attempt.path, "blind", plan)
      BY <1>1, <3>4, TryPathsType, ThreeWays DEF TInv
    <3>5. CASE Offer(attempt, v) /\ UNCHANGED plan
      BY <1>1, <3>2, <3>5, OfferType DEF TInv
    <3> QED BY <3>1, <3>3, <3>4, <3>5
  <2>2. CASE NoPath
    <3>1. PICK from \in Position :
             \/ plan' = from /\ Throw
             \/ TryPaths(attempt.path, "one", from)
             \/ plan' = confirm /\ Leave(attempt.path)
      BY <2>2, <1>1 DEF NoPath, PlansFound
    <3>2. CASE plan' = from /\ Throw
      BY <3>2, ThrowType DEF TInv
    <3>3. CASE TryPaths(attempt.path, "one", from)
      BY <1>1, <3>3, TryPathsType, ThreeWays DEF TInv
    <3>4. CASE plan' = confirm /\ Leave(attempt.path)
      BY <1>1, <3>4, LeaveType DEF TInv
    <3> QED BY <3>1, <3>2, <3>3, <3>4
  <2> QED BY <2>1, <2>2
<1>3. UNCHANGED <<chainVars, pending, confirm, target, diff, actual, paused, wish, disk,
                  flags, commitVars, otherVars>>
  BY DEF FoundPath, NoPath
<1>4. ChainOK' /\ Finite' /\ GridOK' /\ OtherOK'
  BY <1>2, <1>3 DEF TInv, ChainOK, Finite, GridOK, OtherOK
<1>5. LoopOK' /\ CommitOK'
  BY <1>2, <1>3 DEF TInv, LoopOK, CommitOK, Places
<1>6. Numbered' /\ ReleasedAfterCommit'
  BY <1>1, <1>2, <1>3 DEF TInv, Numbered, ReleasedAfterCommit, Committing
<1> QED BY <1>4, <1>5, <1>6 DEF TInv

----------------------------------------------------------------------------
(* The chain: what is sent, ages, is replaced and is mined.                *)
LEMMA NextAccountType ==
  ASSUME TInv
  PROVE  NextAccount \in Nat
<1> DEFINE A == {tx.account : tx \in mempool}
           f == [tx \in mempool |-> tx.account]
<1>1. f \in Surjection(mempool, A)
  BY DEF Surjection
<1>2. IsFiniteSet(mempool)
  BY DEF TInv, Finite
<1> HIDE DEF A, f
<1>3. IsFiniteSet(A)
  BY <1>1, <1>2, FS_Surjection
<1>4. Cardinality(A) \in Nat
  BY <1>3, FS_CardinalityType
<1>5. account \in Nat
  BY DEF TInv, ChainOK
<1> QED BY <1>4, <1>5 DEF NextAccount, A

LEMMA PrepareTypes ==
  ASSUME TInv, Prepare
  PROVE  TInv'
<1>1. ASSUME NEW o \in OrderRecords, NEW a \in Nat, NEW n \in Nat
      PROVE  LET q == [o EXCEPT !.account = a, !.chase = n]
             IN  q \in OrderRecords /\ q.no = o.no
  BY DEF OrderRecords
<1>7. order \in OrderRecords /\ NextAccount \in Nat /\ \A first \in FirstNonces : first + 1 \in Nat
  BY NextAccountType, CycleConstants DEF TInv, ChainOK, CommitOK, FirstNonces
<1>8. PICK first \in FirstNonces :
        order' = [order EXCEPT !.account = NextAccount, !.chase = first + 1]
  BY DEF Prepare
<1>2. order' \in OrderRecords /\ order'.no = order.no
  BY <1>1, <1>7, <1>8
<1>3. ChainOK' /\ Finite' /\ GridOK' /\ OtherOK'
  BY DEF Prepare, TInv, ChainOK, Finite, GridOK, OtherOK
<1>4. LoopOK'
  BY DEF Prepare, TInv, LoopOK, Places
<1>5. CommitOK'
  BY <1>2 DEF Prepare, TInv, CommitOK
<1>6. Numbered' /\ ReleasedAfterCommit'
  BY <1>2 DEF Prepare, TInv, Numbered, ReleasedAfterCommit, Committing
<1> QED BY <1>3, <1>4, <1>5, <1>6 DEF TInv

LEMMA NumberTypes ==
  ASSUME TInv, Number
  PROVE  TInv'
<1>1. order' = [order EXCEPT !.nonce = spent + 1] /\ spent + 1 \in Nat /\ order \in OrderRecords
  BY DEF Number, TInv, ChainOK, CommitOK
<1>2. order' \in OrderRecords /\ order'.no = order.no
  BY <1>1 DEF OrderRecords
<1>3. ChainOK' /\ Finite' /\ GridOK' /\ OtherOK'
  BY DEF Number, TInv, ChainOK, Finite, GridOK, OtherOK
<1>4. LoopOK'
  BY DEF Number, TInv, LoopOK, Places
<1>5. CommitOK'
  BY <1>2 DEF Number, TInv, CommitOK
<1>6. Numbered' /\ ReleasedAfterCommit'
  BY <1>2 DEF Number, TInv, Numbered, ReleasedAfterCommit, Committing
<1> QED BY <1>3, <1>4, <1>5, <1>6 DEF TInv

(* What Send and SendFails put into the mempool.                           *)
LEMMA SentType ==
  ASSUME TInv, pc = "send",
         NEW copy \in Copies, NEW own \in {{}, {Transaction("direct")}}
  PROVE  /\ mempool \cup own \cup copy \subseteq Txs
         /\ IsFiniteSet(mempool \cup own \cup copy)
<1>1. order.no \in Orders /\ order \in OrderRecords
  BY DEF TInv, Numbered, Committing, CommitOK
<1>2. \A kind \in Kinds : Transaction(kind) \in Txs
  BY <1>1, CycleConstants DEF Transaction, Txs, OrderRecords
<1>3. own \subseteq Txs /\ copy \subseteq Txs
  BY <1>2 DEF Copies, Kinds
<1>4. IsFiniteSet(own) /\ IsFiniteSet(copy)
  <2>1. \A x : IsFiniteSet({x})
    BY FS_Singleton
  <2>2. IsFiniteSet({})
    BY FS_EmptySet
  <2>3. copy = {} \/ copy = {Transaction("roy")}
    BY DEF Copies
  <2>4. own = {} \/ own = {Transaction("direct")}
    OBVIOUS
  <2> QED BY <2>1, <2>2, <2>3, <2>4
<1>5. mempool \subseteq Txs /\ IsFiniteSet(mempool)
  BY DEF TInv, ChainOK, Finite
<1>6. IsFiniteSet(mempool \cup own)
  BY <1>4, <1>5, FS_Union
<1>7. IsFiniteSet(mempool \cup own \cup copy)
  BY <1>4, <1>6, FS_Union
<1> QED BY <1>3, <1>5, <1>7

LEMMA SendTypes ==
  ASSUME TInv, Send
  PROVE  TInv'
<1>1. ChainOK' /\ Finite'
  <2>1. PICK copy \in Copies : mempool' = mempool \cup {Transaction("direct")} \cup copy
    BY DEF Send
  <2>2. mempool' \subseteq Txs /\ IsFiniteSet(mempool')
    BY <2>1, SentType DEF Send
  <2> QED BY <2>2 DEF Send, TInv, ChainOK, Finite
<1>2. order.no \in Orders
  BY DEF Send, TInv, Numbered, Committing
<1>3. GridOK'
  BY DEF Send, TInv, GridOK, CommitOK, OrderRecords
<1>4. LoopOK'
  BY DEF Send, TInv, LoopOK, Places
<1>5. CommitOK'
  BY <1>2 DEF Send, TInv, CommitOK, Kinds
<1>6. OtherOK'
  BY DEF Send, TInv, OtherOK
<1>7. Numbered' /\ ReleasedAfterCommit'
  BY <1>2 DEF Send, TInv, Numbered, ReleasedAfterCommit, Committing
<1> QED BY <1>1, <1>3, <1>4, <1>5, <1>6, <1>7 DEF TInv

LEMMA SendFailsTypes ==
  ASSUME TInv, SendFails
  PROVE  TInv'
<1>1. ChainOK' /\ Finite'
  <2>1. UNCHANGED mempool \/ \E copy \in Copies, own \in {{}, {Transaction("direct")}} :
                                mempool' = mempool \cup own \cup copy
    BY DEF SendFails
  <2>2. mempool' \subseteq Txs /\ IsFiniteSet(mempool')
    BY <2>1, SentType DEF SendFails, TInv, ChainOK, Finite
  <2> QED BY <2>2 DEF SendFails, TInv, ChainOK, Finite
<1>2. GridOK' /\ OtherOK'
  BY DEF SendFails, Abort, Release, TInv, GridOK, OtherOK
<1>3. LoopOK'
  BY DEF SendFails, Abort, Release, TInv, LoopOK, Places
<1>4. CommitOK'
  BY DEF SendFails, Abort, Release, TInv, CommitOK
<1>5. Numbered' /\ ReleasedAfterCommit'
  BY DEF SendFails, Abort, Release, TInv, Numbered, ReleasedAfterCommit, Committing
<1> QED BY <1>1, <1>2, <1>3, <1>4, <1>5 DEF TInv

LEMMA AgedType ==
  ASSUME NEW tx \in Txs
  PROVE  [tx EXCEPT !.ttl = IF @ < 0 THEN @ ELSE @ - 1] \in Txs
BY DEF Txs

LEMMA BlockTypes ==
  ASSUME TInv, Block
  PROVE  TInv'
<1> DEFINE older(tx) == [tx EXCEPT !.ttl = IF @ < 0 THEN @ ELSE @ - 1]
           f == [tx \in mempool |-> older(tx)]
<1>1. mempool \subseteq Txs /\ IsFiniteSet(mempool)
  BY DEF TInv, ChainOK, Finite
<1>2. mempool' = {older(tx) : tx \in mempool}
  BY DEF Block
<1>3. \A tx \in mempool : older(tx) \in Txs
  BY <1>1, AgedType
<1> HIDE DEF older
<1>4. f \in Surjection(mempool, mempool')
  BY <1>2 DEF Surjection
<1>5. IsFiniteSet(mempool')
  BY <1>1, <1>4, FS_Surjection
<1>6. mempool' \subseteq Txs
  BY <1>2, <1>3
<1>7. ChainOK' /\ Finite'
  BY <1>5, <1>6 DEF Block, TInv, ChainOK, Finite
<1>8. polls' \in [Orders -> Nat]
  <2>1. polls \in [Orders -> Nat]
    BY DEF TInv, CommitOK
  <2>2. polls' = polls \/ (waiter \in Orders /\ polls' = [polls EXCEPT ![waiter] = @ + 1])
    BY DEF Block, TInv, CommitOK, Orders
  <2>3. ASSUME NEW g \in [Orders -> Nat], NEW w \in Orders
        PROVE  [g EXCEPT ![w] = @ + 1] \in [Orders -> Nat]
    OBVIOUS
  <2> QED BY <2>1, <2>2, <2>3
<1>9. GridOK' /\ LoopOK' /\ OtherOK'
  BY DEF Block, TInv, GridOK, LoopOK, OtherOK
<1>10. CommitOK'
  BY <1>8 DEF Block, TInv, CommitOK
<1>11. Numbered' /\ ReleasedAfterCommit'
  BY DEF Block, TInv, Numbered, ReleasedAfterCommit
<1> QED BY <1>7, <1>9, <1>10, <1>11 DEF TInv

LEMMA CancelTypes ==
  ASSUME TInv, Cancel
  PROVE  TInv'
<1>1. PICK tx \in mempool :
        \/ mempool' = mempool \cup {EmptyTransfer(tx)}
        \/ mempool' = mempool \cup {[EmptyTransfer(tx) EXCEPT !.account = account]}
  BY DEF Cancel
<1>2. tx \in Txs /\ mempool \subseteq Txs /\ IsFiniteSet(mempool) /\ account \in Nat
  BY DEF TInv, ChainOK, Finite
<1>3. EmptyTransfer(tx) \in Txs /\ [EmptyTransfer(tx) EXCEPT !.account = account] \in Txs
  BY <1>2 DEF EmptyTransfer, Txs, Kinds
<1>4. mempool' \subseteq Txs /\ IsFiniteSet(mempool')
  BY <1>1, <1>2, <1>3, FS_AddElement
<1>5. ChainOK' /\ Finite'
  BY <1>4 DEF Cancel, TInv, ChainOK, Finite
<1>6. GridOK' /\ LoopOK' /\ CommitOK' /\ OtherOK'
  BY DEF Cancel, TInv, GridOK, LoopOK, CommitOK, OtherOK
<1>7. Numbered' /\ ReleasedAfterCommit'
  BY DEF Cancel, TInv, Numbered, ReleasedAfterCommit
<1> QED BY <1>5, <1>6, <1>7 DEF TInv

LEMMA LeftType == TInv => Left \subseteq Int
BY CycleConstants DEF Left, TInv, ChainOK, Txs

LEMMA ChaseTypes ==
  ASSUME TInv, Chase
  PROVE  TInv'
<1>1. PICK ttl \in Left : mempool' = mempool \cup {Chased(ttl)}
  BY DEF Chase
<1>2. order.no \in Orders /\ order \in OrderRecords /\ mempool \subseteq Txs /\ IsFiniteSet(mempool)
  BY OrderUnderWay DEF Chase, TInv, CommitOK, ChainOK, Finite
<1>3. Chased(ttl) \in Txs
  <2>1. ttl \in Int
    BY LeftType
  <2> QED BY <1>2, <2>1 DEF Chased, OrderRecords, Txs, Kinds
<1>4. mempool' \subseteq Txs /\ IsFiniteSet(mempool')
  BY <1>1, <1>2, <1>3, FS_AddElement
<1>5. ChainOK' /\ Finite'
  BY <1>4 DEF Chase, TInv, ChainOK, Finite
<1>6. GridOK' /\ LoopOK' /\ CommitOK' /\ OtherOK'
  BY DEF Chase, TInv, GridOK, LoopOK, CommitOK, OtherOK
<1>7. Numbered' /\ ReleasedAfterCommit'
  BY DEF Chase, TInv, Numbered, ReleasedAfterCommit
<1> QED BY <1>5, <1>6, <1>7 DEF TInv

LEMMA ChaseAnsweredTypes ==
  ASSUME TInv, NEW o \in Orders, ChaseAnswered(o)
  PROVE  TInv'
<1>1. ChainOK' /\ Finite' /\ GridOK' /\ LoopOK' /\ OtherOK'
  BY DEF TInv, ChaseAnswered, ChainOK, Finite, GridOK, LoopOK, Places, OtherOK
<1>2. CommitOK'
  BY DEF TInv, ChaseAnswered, CommitOK, Kinds
<1>3. Numbered' /\ ReleasedAfterCommit'
  BY DEF TInv, ChaseAnswered, Numbered, ReleasedAfterCommit, Committing
<1> QED BY <1>1, <1>2, <1>3 DEF TInv

(* A block takes one transaction: its receipt, and what it does to the     *)
(* pair.                                                                   *)
LEMMA MineCases ==
  ASSUME TInv, Mine
  PROVE  \E tx \in mempool, a \in Int :
           /\ tx.account = account /\ Include(tx, a)
           /\ \/ UNCHANGED <<spent, position>>
              \/ Live(tx) /\ tx.nonce # 0 /\ spent' = tx.nonce /\ position' = position + a
           /\ Live(tx) \/ a = 0
           /\ a # 0 /\ tx.nonce # 0 => spent' = tx.nonce
<1>1. PICK tx \in mempool :
        tx.account = account /\ (MineTrade(tx) \/ MineBraked(tx) \/ MineVoid(tx))
  BY DEF Mine
<1>2. tx \in Txs /\ position \in Int
  BY DEF TInv, ChainOK
<1>3. CASE MineTrade(tx)
  <2>1. PICK a \in Fillable(tx) : Include(tx, a)
            /\ IF tx.nonce = 0 THEN UNCHANGED <<spent, position>>
                               ELSE spent' = tx.nonce /\ position' = position + a
    BY <1>3 DEF MineTrade
  <2>2. a \in Int
    <3>1. Gap(tx.amount) \in Int /\ -Gap(tx.amount) \in Int
      BY <1>2, GapIsNat DEF Txs
    <3> QED BY <3>1 DEF Fillable
  <2> QED BY <1>1, <1>3, <2>1, <2>2 DEF MineTrade
<1>4. CASE MineBraked(tx)
  <2>1. position' = position + 0
    BY <1>2, <1>4 DEF MineBraked
  <2>2. Live(tx) /\ Include(tx, 0) /\ (tx.nonce = 0 => UNCHANGED <<spent, position>>)
        /\ (tx.nonce # 0 => spent' = tx.nonce)
    BY <1>4 DEF MineBraked
  <2> QED BY <1>1, <2>1, <2>2
<1>5. CASE MineVoid(tx)
  BY <1>1, <1>5 DEF MineVoid
<1> QED BY <1>1, <1>3, <1>4, <1>5

LEMMA MineTypes ==
  ASSUME TInv, Mine
  PROVE  TInv'
<1>1. PICK tx \in mempool, a \in Int :
        /\ Include(tx, a)
        /\ \/ UNCHANGED <<spent, position>>
           \/ spent' = tx.nonce /\ position' = position + a
  BY MineCases
<1>2. /\ mempool \subseteq Txs /\ IsFiniteSet(mempool) /\ tx \in Txs /\ mined \subseteq Receipts
      /\ spent \in Nat /\ position \in Int /\ account \in Nat
  BY DEF TInv, ChainOK, Finite
<1>3. mempool' \subseteq mempool
  BY <1>1 DEF Include
<1>4. IsFiniteSet(mempool')
  BY <1>2, <1>3, FS_Subset
<1>5. mined' \subseteq Receipts
  BY <1>1, <1>2 DEF Include, Txs, Receipts
<1>6. spent' \in Nat /\ position' \in Int /\ account' \in Nat
  BY <1>1, <1>2 DEF Include, Txs
<1>7. ChainOK' /\ Finite'
  BY <1>2, <1>3, <1>4, <1>5, <1>6 DEF ChainOK, Finite
<1>8. GridOK' /\ LoopOK' /\ CommitOK' /\ OtherOK'
  BY DEF Mine, TInv, GridOK, LoopOK, CommitOK, OtherOK
<1>9. Numbered' /\ ReleasedAfterCommit'
  BY DEF Mine, TInv, Numbered, ReleasedAfterCommit
<1> QED BY <1>7, <1>8, <1>9 DEF TInv

----------------------------------------------------------------------------
LEMMA InitTInv == Init => TInv
<1> SUFFICES ASSUME Init PROVE TInv
  OBVIOUS
<1>1. ChainOK /\ Finite
  <2>1. mempool = {} /\ mined = {} /\ spent = 0 /\ position = 0 /\ account = 0
    BY DEF Init
  <2>2. IsFiniteSet({})
    BY FS_EmptySet
  <2>3. IsFiniteSet(mempool)
    BY <2>1, <2>2
  <2>4. ChainOK
    BY <2>1 DEF ChainOK
  <2> QED BY <2>3, <2>4 DEF Finite
<1>2. GridOK
  <2>1. /\ plan = Flat /\ pending = Flat /\ confirm = Flat
        /\ target = 0 /\ diff = 0 /\ actual = 0 /\ wish = 0 /\ paused = FALSE
        /\ disk = [plan |-> Flat, confirm |-> Flat, actual |-> 0, paused |-> FALSE]
    BY DEF Init, Saved
  <2>2. paused \in BOOLEAN
    BY <2>1
  <2>3. disk \in [plan : Position, confirm : Position, actual : Int, paused : BOOLEAN]
    BY <2>1, FlatIsPosition
  <2>4. plan \in Position /\ pending \in Position /\ confirm \in Position
    BY <2>1, FlatIsPosition
  <2>5. target \in Int /\ diff \in Int /\ actual \in Int /\ wish \in Int
    BY <2>1
  <2> QED BY <2>2, <2>3, <2>4, <2>5 DEF GridOK
<1>3. LoopOK
  BY NoAttemptType DEF Init, LoopOK, Places
<1>4. CommitOK
  BY NoOrderType, ZeroIsNumber DEF Init, CommitOK
<1>5. OtherOK
  BY DEF Init, OtherOK
<1>6. Numbered /\ ReleasedAfterCommit
  BY DEF Init, Numbered, ReleasedAfterCommit, Committing
<1> QED BY <1>1, <1>2, <1>3, <1>4, <1>5, <1>6 DEF TInv

LEMMA NextTInv == TInv /\ [Next]_vars => TInv'
<1> SUFFICES ASSUME TInv, [Next]_vars PROVE TInv'
  OBVIOUS
<1>1. CASE Turn
  <2>1. CASE \E p \in Paths : SkipPath(p) \/ LoopPath(p)
    BY <2>1, SkipPathTypes, LoopPathTypes
  <2>2. CASE BeginTurn \/ FoundPath \/ TopUpThrows \/ NoPath \/ ResetInTryPaths
    BY <2>2, BeginTurnTypes, FindTypes, TopUpThrowsTypes, ResetInTryPathsTypes
  <2>3. CASE PickNone \/ PickFirst \/ InputFails \/ Decline \/ Register
    BY <2>3, PickNoneTypes, PickFirstTypes, InputFailsTypes, DeclineTypes, RegisterTypes
  <2>4. CASE Prepare \/ Number \/ PrepareFails \/ Send \/ SendFails \/ ReadBefore \/ BeforeFails
    BY <2>4, PrepareTypes, NumberTypes, AbortTypes, SendTypes, SendFailsTypes, ReadBeforeTypes
  <2>5. CASE SettleForked \/ SettleBraked \/ SettleFilled \/ SettleFails
    BY <2>5, SettleTypes, FilledTypes, FailTypes
  <2>6. CASE BookFill \/ BookFails \/ EndTurn \/ EndTurnFails
    BY <2>6, BookTypes, FailTypes, EndTurnTypes, EndTurnFailsTypes
  <2>7. CASE CancelPending \/ Boot
    BY <2>7, CancelPendingTypes, BootTypes
  <2> QED BY <1>1, <2>1, <2>2, <2>3, <2>4, <2>5, <2>6, <2>7 DEF Turn, Proceed
<1>2. CASE Timer \/ Block \/ Cancel \/ Chase \/ Mine
  BY <1>2, TimerTypes, BlockTypes, CancelTypes, ChaseTypes, MineTypes
<1>3. CASE \E o \in Orders : PollReturns(o) \/ RelayReceipt(o) \/ ChaseAnswered(o)
  BY <1>3, PollReturnsTypes, RelayReceiptTypes, ChaseAnsweredTypes
<1>4. CASE Operator
  BY <1>4, AddTypes, CutTypes, BuyOrSellTypes, PauseTypes, ViewTypes, BeginResetTypes,
     EndResetTypes DEF Operator
<1>5. CASE Crash
  BY <1>5, CrashTypes
<1>6. CASE UNCHANGED vars
  BY <1>6, StutterTypes
<1> QED BY <1>1, <1>2, <1>3, <1>4, <1>5, <1>6 DEF Next, Meanwhile

(* The state keeps its types in every run, with every fault.               *)
THEOREM CycleTypeCorrect == Spec => []TypeOK
BY InitTInv, NextTInv, TInvIsTypeOK, PTL DEF Spec

(* Whatever fails, commitWaitingMap and DiffNotional hold something only   *)
(* while commitTrending is under way.                                      *)
THEOREM ReleasesAfterCommit == Spec => []ReleasedAfterCommit
<1>1. TInv => ReleasedAfterCommit
  BY DEF TInv
<1> QED BY <1>1, InitTInv, NextTInv, PTL DEF Spec

----------------------------------------------------------------------------
(* Order numbers.  Where a chase has the number of its order, every         *)
(* transaction under way bears a number that is spent or the next one, and *)
(* while an order with a number is under way none bears a larger one.      *)
OwnChase == PairId = 0 \/ "chase" \notin Faults

NextNumber == OwnChase => \A tx \in mempool : tx.nonce <= spent + 1

Early == {"prepare", "number"}

UnderWay == pc \in Committing \ Early /\ order.nonce > 0

OwnNumber ==
  OwnChase /\ UnderWay =>
    /\ order.nonce = spent \/ order.nonce = spent + 1
    /\ PairId = 0 => order.chase <= order.nonce
    /\ \A tx \in mempool : tx.nonce <= order.nonce

(* The number kept for a chase was read before the order's own.            *)
ChaseNumber == PairId = 0 /\ pc \in Committing \ {"prepare"} => order.chase <= spent + 1

(* What has traded under a number has spent it.                            *)
TradedIsSpent == \A r \in mined : r.nonce > 0 /\ r.amount # 0 => r.nonce <= spent

(* If the position has moved since it was read for the order, it was by a  *)
(* trade under the order's number and by nothing else.                     *)
Explains(r) == r.nonce = order.nonce /\ r.amount # 0 /\ r.amount = position - order.before

MoveExplained ==
  (OwnChase /\ pc \in {"wait", "settle"} /\ order.nonce > 0 /\ position # order.before) =>
    spent = order.nonce /\ \E r \in mined : Explains(r)

OwnFill == OwnChase => BooksOwnNumber

(* Whatever a chase bears: an order's number was the next one when it was  *)
(* read, and what has moved the position since has spent it.               *)
ReadIsSpent ==
  /\ order.nonce <= spent + 1
  /\ pc \in {"wait", "settle"} /\ position # order.before => order.nonce <= spent
  /\ pc = "filled" => order.nonce <= spent

(* Until it is sent, and again once it is over, an order has no number.    *)
Unnumbered == pc \notin (Committing \ Early) \cup {"tail"} => order.nonce = 0

NInv ==
  /\ NextNumber /\ OwnNumber /\ ChaseNumber /\ Unnumbered
  /\ TradedIsSpent /\ NonceTradesOnce /\ MoveExplained /\ OwnFill /\ ReadIsSpent

(* A step that neither mines nor sends leaves all of it as it was, if the  *)
(* order goes on being the same one.                                       *)
LEMMA SameOrder ==
  ASSUME NInv, UNCHANGED chainVars, pc = "wait", pc' = "settle",
         order'.nonce = order.nonce, order'.before = order.before, order'.chase = order.chase
  PROVE  NInv'
BY DEF NInv, NextNumber, OwnNumber, ChaseNumber, Unnumbered, UnderWay, Early, TradedIsSpent,
       NonceTradesOnce, MoveExplained, Explains, OwnFill, BooksOwnNumber, ReadIsSpent, Committing, chainVars

LEMMA OrderOver ==
  ASSUME TInv, NInv, UNCHANGED chainVars, pc' \notin Committing \ {"prepare"},
         \/ order'.nonce = 0
         \/ order' = order /\ (pc' = "tail" \/ pc \notin Committing \cup {"tail"})
  PROVE  NInv'
<1>1. spent \in Nat
  BY DEF TInv, ChainOK
<1> QED BY <1>1 DEF NInv, NextNumber, OwnNumber, ChaseNumber, Unnumbered, UnderWay, Early, TradedIsSpent,
       NonceTradesOnce, MoveExplained, OwnFill, BooksOwnNumber, ReadIsSpent, Committing, chainVars

LEMMA SameLoop ==
  ASSUME NInv, UNCHANGED <<chainVars, pc, order>>
  PROVE  NInv'
BY DEF NInv, NextNumber, OwnNumber, ChaseNumber, Unnumbered, UnderWay, TradedIsSpent,
       NonceTradesOnce, MoveExplained, Explains, OwnFill, BooksOwnNumber, ReadIsSpent, chainVars

LEMMA InitNInv == Init => NInv
BY DEF Init, NInv, NextNumber, OwnNumber, ChaseNumber, Unnumbered, UnderWay, TradedIsSpent,
       NonceTradesOnce, MoveExplained, OwnFill, BooksOwnNumber, ReadIsSpent, Committing, NoOrder

LEMMA PrepareNumbers ==
  ASSUME TInv, NInv, Prepare
  PROVE  NInv'
<1>1. spent \in Nat /\ pc = "prepare" /\ pc' \in {"number", "send"} /\ UNCHANGED chainVars
  BY DEF Prepare, TInv, ChainOK
<1>2. order'.nonce = 0 /\ (PairId = 0 => order'.chase = spent + 1)
  <2>1. order.nonce = 0
    BY <1>1 DEF NInv, Unnumbered, Early
  <2> QED BY <2>1 DEF Prepare, FirstNonces, TInv, CommitOK, OrderRecords
<1> QED BY <1>1, <1>2 DEF NInv, NextNumber, OwnNumber, ChaseNumber, Unnumbered, UnderWay,
      TradedIsSpent, NonceTradesOnce, MoveExplained, OwnFill, BooksOwnNumber, ReadIsSpent, chainVars

LEMMA NumberNumbers ==
  ASSUME TInv, NInv, Number
  PROVE  NInv'
<1>1. spent \in Nat /\ pc = "number" /\ pc' = "send" /\ UNCHANGED chainVars
  BY DEF Number, TInv, ChainOK
<1>2. /\ order'.nonce = spent + 1 /\ order'.chase = order.chase
      /\ PairId = 0 => order.chase <= spent + 1
  BY <1>1 DEF Number, TInv, CommitOK, OrderRecords, NInv, ChaseNumber, Committing
<1> QED BY <1>1, <1>2 DEF NInv, NextNumber, OwnNumber, ChaseNumber, Unnumbered, UnderWay, Early,
      TradedIsSpent, NonceTradesOnce, MoveExplained, OwnFill, BooksOwnNumber, ReadIsSpent, Committing, chainVars

LEMMA ReadBeforeNumbers ==
  ASSUME TInv, NInv, ReadBefore
  PROVE  NInv'
<1>1. pc = "before" /\ pc' = "wait" /\ UNCHANGED chainVars
  BY DEF ReadBefore
<1>2. order'.nonce = order.nonce /\ order'.chase = order.chase /\ order'.before = position
  BY DEF ReadBefore, TInv, CommitOK, OrderRecords
<1> QED BY <1>1, <1>2 DEF NInv, NextNumber, OwnNumber, ChaseNumber, Unnumbered, UnderWay, Early,
      TradedIsSpent, NonceTradesOnce, MoveExplained, OwnFill, BooksOwnNumber, ReadIsSpent, Committing, chainVars

(* What is sent bears the order's number.                                  *)
LEMMA SendNumbers ==
  ASSUME TInv, NInv, Send \/ SendFails
  PROVE  NInv'
<1>1. \A tx \in mempool' : tx \in mempool \/ tx.nonce = order.nonce
  BY DEF Send, SendFails, Copies, Transaction
<1>2. /\ pc = "send" /\ pc' \in {"before", "tail"}
      /\ UNCHANGED <<spent, position, mined, order>>
  BY DEF Send, SendFails, Abort
<1>3. spent \in Nat /\ order.nonce \in Nat
  BY DEF TInv, ChainOK, CommitOK, OrderRecords
<1>4. order.nonce <= spent + 1
  BY DEF NInv, ReadIsSpent
<1>5. NextNumber'
  BY <1>1, <1>2, <1>4 DEF NInv, NextNumber
<1>6. OwnNumber'
  BY <1>1, <1>2, <1>3 DEF NInv, OwnNumber, UnderWay, Early, Committing
<1> QED BY <1>2, <1>5, <1>6 DEF NInv, ChaseNumber, Unnumbered, Early, TradedIsSpent,
      NonceTradesOnce, MoveExplained, OwnFill, BooksOwnNumber, ReadIsSpent, Committing

LEMMA SettleFilledNumbers ==
  ASSUME TInv, NInv, SettleFilled
  PROVE  NInv'
<1>1. position \in Int /\ order.before \in Int
  BY DEF TInv, ChainOK, CommitOK, OrderRecords
<1>2. pc = "settle" /\ pc' = "filled" /\ UNCHANGED chainVars /\ position # order.before
  BY <1>1 DEF SettleFilled, MovedBy
<1>3. /\ order'.nonce = order.nonce /\ order'.chase = order.chase
      /\ order'.delta = position - order.before
  BY DEF SettleFilled, MovedBy, TInv, CommitOK, OrderRecords
<1>4. OwnFill'
  BY <1>3, <1>2 DEF NInv, MoveExplained, Explains, OwnFill, BooksOwnNumber, chainVars
<1> QED BY <1>3, <1>4, <1>2 DEF NInv, NextNumber, OwnNumber, ChaseNumber, Unnumbered, UnderWay,
      Early, TradedIsSpent, NonceTradesOnce, MoveExplained, ReadIsSpent, Committing, chainVars

LEMMA PollNumbers ==
  ASSUME TInv, NInv, NEW o \in Orders, PollReturns(o)
  PROVE  NInv'
<1>1. UNCHANGED chainVars
  BY DEF PollReturns
<1>2. CASE UNCHANGED <<pc, order>>
  BY <1>1, <1>2, SameLoop
<1>3. CASE pc = "wait" /\ pc' = "settle" /\ \E t : order' = [order EXCEPT !.traded = t]
  <2>1. UNCHANGED <<order.nonce, order.before, order.chase>>
    BY <1>3 DEF TInv, CommitOK, OrderRecords
  <2> QED BY <1>1, <1>3, <2>1, SameOrder
<1>4. \/ UNCHANGED <<pc, order>>
      \/ pc = "wait" /\ pc' = "settle" /\ \E t : order' = [order EXCEPT !.traded = t]
  BY DEF PollReturns
<1> QED BY <1>2, <1>3, <1>4

LEMMA BlockNumbers ==
  ASSUME TInv, NInv, Block
  PROVE  NInv'
<1>1. UNCHANGED <<spent, position, mined, pc, order>>
  BY DEF Block
<1>2. ASSUME NEW t \in mempool
      PROVE  [t EXCEPT !.ttl = IF @ < 0 THEN @ ELSE @ - 1].nonce = t.nonce
  <2>1. t \in Txs
    BY DEF TInv, ChainOK
  <2> QED BY <2>1 DEF Txs
<1>3. \A tx \in mempool' : \E t \in mempool : tx.nonce = t.nonce
  BY <1>2 DEF Block
<1>4. NextNumber'
  BY <1>1, <1>3 DEF NInv, NextNumber
<1>5. OwnNumber'
  BY <1>1, <1>3 DEF NInv, OwnNumber, UnderWay
<1> QED BY <1>1, <1>4, <1>5 DEF NInv, ChaseNumber, Unnumbered, TradedIsSpent, NonceTradesOnce,
      MoveExplained, Explains, OwnFill, BooksOwnNumber, ReadIsSpent

LEMMA CancelNumbers ==
  ASSUME TInv, NInv, Cancel \/ CancelPending
  PROVE  NInv'
<1>1. UNCHANGED <<spent, position, mined, pc, order>>
  BY DEF Cancel, CancelPending
<1>2. \A tx \in mempool' : tx \in mempool \/ tx.nonce = 0
  <2>1. \A tx \in Txs : /\ EmptyTransfer(tx).nonce = 0
                        /\ [EmptyTransfer(tx) EXCEPT !.account = account].nonce = 0
    BY DEF EmptyTransfer
  <2>2. mempool \subseteq Txs
    BY DEF TInv, ChainOK
  <2> QED BY <2>1, <2>2 DEF Cancel, CancelPending
<1>3. spent \in Nat /\ order.nonce \in Nat
  BY DEF TInv, ChainOK, CommitOK, OrderRecords
<1>4. NextNumber'
  BY <1>1, <1>2, <1>3 DEF NInv, NextNumber
<1>5. OwnNumber'
  BY <1>1, <1>2, <1>3 DEF NInv, OwnNumber, UnderWay
<1> QED BY <1>1, <1>4, <1>5 DEF NInv, ChaseNumber, Unnumbered, TradedIsSpent, NonceTradesOnce,
      MoveExplained, Explains, OwnFill, BooksOwnNumber, ReadIsSpent

(* A chase for pair 0 bears a number that is spent or the next one, and no *)
(* larger one than its order's.                                            *)
LEMMA ChaseNumbers ==
  ASSUME TInv, NInv, Chase
  PROVE  NInv'
<1>1. UNCHANGED <<spent, position, mined, pc, order>>
  BY DEF Chase
<1>2. \A tx \in mempool' : tx \in mempool \/ tx.nonce = order.chase
  BY DEF Chase, Chased
<1>3. pc \in Committing \ {"prepare"}
  BY DEF Chase, TInv, ReleasedAfterCommit
<1>7. OwnChase => PairId = 0
  BY DEF Chase, OwnChase
<1>4. OwnChase => order.chase <= spent + 1
  BY <1>3, <1>7 DEF NInv, ChaseNumber
<1>5. NextNumber'
  BY <1>1, <1>2, <1>4 DEF NInv, NextNumber
<1>6. OwnNumber'
  BY <1>1, <1>2, <1>7 DEF NInv, OwnNumber, UnderWay
<1> QED BY <1>1, <1>5, <1>6 DEF NInv, ChaseNumber, Unnumbered, TradedIsSpent, NonceTradesOnce,
      MoveExplained, Explains, OwnFill, BooksOwnNumber, ReadIsSpent

(* The step the rest is for: a transaction that still has an effect bears  *)
(* a number above the spent one, which no trade has had; the next one, if  *)
(* chases have their orders' numbers.                                      *)
LEMMA MineNumbers ==
  ASSUME TInv, NInv, Mine
  PROVE  NInv'
<1>1. PICK tx \in mempool, a \in Int :
        /\ Include(tx, a)
        /\ \/ UNCHANGED <<spent, position>>
           \/ Live(tx) /\ tx.nonce # 0 /\ spent' = tx.nonce /\ position' = position + a
        /\ Live(tx) \/ a = 0
        /\ a # 0 /\ tx.nonce # 0 => spent' = tx.nonce
  BY MineCases
<1> DEFINE r == [order |-> tx.order, kind |-> tx.kind, nonce |-> tx.nonce, amount |-> a]
<1>2. mined' = mined \cup {r} /\ mempool' \subseteq mempool /\ UNCHANGED <<pc, order>>
  BY <1>1 DEF Include, Mine
<1>3. /\ spent \in Nat /\ position \in Int /\ order.nonce \in Nat /\ order.before \in Int
      /\ order.chase \in Nat /\ tx.nonce \in Nat
      /\ \A t \in mempool : t.nonce \in Nat
      /\ \A q \in mined : q.nonce \in Nat /\ q.amount \in Int
  BY DEF TInv, ChainOK, CommitOK, OrderRecords, Txs, Receipts
<1>4. r.nonce = tx.nonce /\ r.amount = a
  OBVIOUS
<1> HIDE DEF r
<1>5. Live(tx) /\ tx.nonce # 0 => tx.nonce > spent /\ (OwnChase => tx.nonce = spent + 1)
  BY <1>3 DEF Live, NInv, NextNumber
<1>6. /\ spent' \in Nat /\ spent <= spent'
      /\ OwnChase => spent' = spent \/ spent' = spent + 1
  BY <1>1, <1>3, <1>5
<1>7. a # 0 /\ tx.nonce # 0 => spent' = tx.nonce /\ tx.nonce > spent
  BY <1>1, <1>5
<1>8. NextNumber'
  BY <1>2, <1>3, <1>6 DEF NInv, NextNumber
<1>9. OwnNumber'
  <2> SUFFICES ASSUME OwnChase, UnderWay
               PROVE  /\ order.nonce = spent' \/ order.nonce = spent' + 1
                      /\ \A t \in mempool' : t.nonce <= order.nonce
    BY <1>2 DEF NInv, OwnNumber, UnderWay
  <2>1. tx.nonce <= order.nonce
    BY DEF NInv, OwnNumber
  <2>2. spent' = spent \/ (spent' = spent + 1 /\ spent' = tx.nonce)
    BY <1>1, <1>5
  <2> QED BY <1>2, <1>3, <2>1, <2>2 DEF NInv, OwnNumber
<1>10. TradedIsSpent'
  BY <1>2, <1>3, <1>4, <1>6, <1>7 DEF NInv, TradedIsSpent
<1>11. NonceTradesOnce'
  BY <1>2, <1>3, <1>4, <1>7 DEF NInv, NonceTradesOnce, TradedIsSpent
<1>12. MoveExplained'
  <2> SUFFICES ASSUME OwnChase, pc \in {"wait", "settle"}, order.nonce > 0,
                      position' # order.before
               PROVE  spent' = order.nonce /\ \E q \in mined' : Explains(q)'
    BY <1>2 DEF MoveExplained
  <2>1. UnderWay
    BY DEF UnderWay, Early, Committing
  <2>2. tx.nonce <= order.nonce /\ (order.nonce = spent \/ order.nonce = spent + 1)
    BY <2>1 DEF NInv, OwnNumber
  <2>3. CASE UNCHANGED <<spent, position>>
    <3>1. spent = order.nonce /\ \E q \in mined : Explains(q)
      BY <2>3 DEF NInv, MoveExplained
    <3> QED BY <1>2, <2>3, <3>1 DEF Explains
  <2>4. CASE Live(tx) /\ tx.nonce # 0 /\ spent' = tx.nonce /\ position' = position + a
    <3>1. tx.nonce = spent + 1 /\ order.nonce = spent + 1
      BY <1>3, <1>5, <2>2, <2>4
    <3>2. position = order.before
      BY <1>3, <3>1 DEF NInv, MoveExplained
    <3>3. a = position' - order.before /\ a # 0
      BY <1>3, <2>4, <3>2
    <3>4. Explains(r)'
      BY <1>2, <1>4, <3>1, <3>3 DEF Explains
    <3> QED BY <1>2, <2>4, <3>1, <3>4
  <2> QED BY <1>1, <2>3, <2>4
<1>13. OwnFill'
  BY <1>2 DEF NInv, OwnFill, BooksOwnNumber
<1>14. ChaseNumber' /\ Unnumbered'
  BY <1>2, <1>3, <1>6 DEF NInv, ChaseNumber, Unnumbered
<1>15. ReadIsSpent'
  <2>1. CASE UNCHANGED <<spent, position>>
    BY <1>2, <2>1 DEF NInv, ReadIsSpent
  <2>2. CASE Live(tx) /\ tx.nonce # 0 /\ spent' = tx.nonce /\ position' = position + a
    BY <1>2, <1>3, <1>5, <2>2 DEF NInv, ReadIsSpent
  <2> QED BY <1>1, <2>1, <2>2
<1> QED BY <1>8, <1>9, <1>10, <1>11, <1>12, <1>13, <1>14, <1>15 DEF NInv

LEMMA NextNInv == TInv /\ NInv /\ [Next]_vars => NInv'
<1> SUFFICES ASSUME TInv, NInv, [Next]_vars PROVE NInv'
  OBVIOUS
<1>1. ReleasedAfterCommit /\ ReleasedAfterCommit'
  BY NextTInv DEF TInv
<1>2. CASE Turn
  <2>1. CASE (\E p \in Paths : LoopPath(p)) \/ FoundPath \/ NoPath
    <3>1. pc \notin Committing \cup {"tail"}
      BY <2>1 DEF LoopPath, FoundPath, NoPath, Committing, Paths
    <3>2. UNCHANGED <<chainVars, waiting, order>>
      BY <2>1 DEF LoopPath, FoundPath, NoPath, commitVars
    <3>3. pc' \notin Committing
      BY <1>1, <3>1, <3>2 DEF ReleasedAfterCommit
    <3> QED BY <3>1, <3>2, <3>3, OrderOver
  <2>2. CASE BeginTurn \/ TopUpThrows \/ ResetInTryPaths \/ PickNone \/ Boot
               \/ \E p \in Paths : SkipPath(p)
    BY <2>2, OrderOver DEF BeginTurn, TopUpThrows, ResetInTryPaths, PickNone, Boot, SkipPath, Leave, Throw,
       Committing, Paths, commitVars
  <2>3. CASE PickFirst \/ InputFails \/ Decline
    <3>1. order'.nonce = 0
      <4>1. NoOrder(order.no).nonce = 0
        BY DEF NoOrder
      <4>2. CASE PickFirst
        <5>1. order'.nonce = NoOrder(order.no).nonce
          BY <4>2 DEF PickFirst, NoOrder
        <5> QED BY <4>1, <5>1
      <4> QED BY <2>3, <4>1, <4>2 DEF InputFails, Decline
    <3> QED BY <2>3, <3>1, OrderOver DEF PickFirst, InputFails, Decline, Throw, Committing
  <2>4. CASE Register
    <3>1. order'.nonce = 0
      BY <2>4 DEF Register, NInv, Unnumbered, Early, Committing, TInv, CommitOK, OrderRecords
    <3> QED BY <2>4, <3>1, OrderOver DEF Register, Committing
  <2>5. CASE PrepareFails \/ BeforeFails \/ SettleForked \/ SettleBraked \/ SettleFails
               \/ BookFill \/ BookFails
    BY <2>5, OrderOver DEF PrepareFails, BeforeFails, SettleForked, SettleBraked, SettleFails,
       BookFill, BookFails, Abort, GiveUp, Committing
  <2>6. CASE EndTurn \/ EndTurnFails
    BY <2>6, OrderOver DEF EndTurn, EndTurnFails, Throw, NoOrder, Committing
  <2>7. CASE Prepare \/ Number \/ Send \/ SendFails \/ ReadBefore \/ SettleFilled
    BY <2>7, PrepareNumbers, NumberNumbers, SendNumbers, ReadBeforeNumbers, SettleFilledNumbers
  <2>8. CASE CancelPending
    BY <2>8, CancelNumbers
  <2> QED BY <1>2, <2>1, <2>2, <2>3, <2>4, <2>5, <2>6, <2>7, <2>8 DEF Turn, Proceed
<1>3. CASE Timer
  BY <1>3, OrderOver DEF Timer, GiveUp, Committing
<1>4. CASE Block \/ Cancel \/ Chase \/ Mine
  BY <1>4, BlockNumbers, CancelNumbers, ChaseNumbers, MineNumbers
<1>5. CASE \E o \in Orders : PollReturns(o) \/ RelayReceipt(o) \/ ChaseAnswered(o)
  BY <1>5, PollNumbers, SameLoop DEF RelayReceipt, ChaseAnswered
<1>6. CASE Operator
  BY <1>6, SameLoop DEF Operator, Add, Cut, BuyOrSell, Pause, BeginView, EndView, BeginReset,
     EndReset, Command, commitVars
<1>7. CASE Crash
  BY <1>7, OrderOver DEF Crash, NoOrder, Committing
<1>8. CASE UNCHANGED vars
  BY <1>8, SameLoop DEF vars, chainVars
<1> QED BY <1>2, <1>3, <1>4, <1>5, <1>6, <1>7, <1>8 DEF Next, Meanwhile

LEMMA NumberInvariance == Spec => []NInv
BY InitTInv, NextTInv, InitNInv, NextNInv, PTL DEF Spec

(* However often an order is sent, relayed, given up and mined late, its   *)
(* number trades at most once.                                             *)
THEOREM OrderTradesOnce == Spec => []NonceTradesOnce
<1>1. NInv => NonceTradesOnce
  BY DEF NInv
<1> QED BY <1>1, NumberInvariance, PTL

(* What is booked as the fill of an order with a number is a trade of the  *)
(* chain under that number, in its whole amount: if the market's pair is   *)
(* pair 0, or nobody bids more for gas while an order is registered.       *)
THEOREM FillIsOwnTrade ==
  ASSUME PairId = 0 \/ "chase" \notin Faults
  PROVE  Spec => []BooksOwnNumber
<1>1. NInv => BooksOwnNumber
  BY DEF NInv, OwnFill, OwnChase
<1> QED BY <1>1, NumberInvariance, PTL

(* No trade is booked twice, though several orders may have borne its      *)
(* number, a copy of the relay may be polled for by an order it does not   *)
(* belong to, and the process may die and begin again: once a fill under a *)
(* number is found, no order that is settled later has that number.        *)
BookedOnce(n) ==
  [](pc = "filled" /\ order.nonce = n => [][SettleFilled => order.nonce # n]_vars)

(* A number that was booked is spent, and whoever bears it has settled.    *)
NumberBooked(n) == n <= spent /\ (order.nonce = n => pc \in {"filled", "tail"})

(* Only a block changes the contract or adds a receipt.                    *)
LEMMA OnlyMineMoves == [Next]_vars => Mine \/ UNCHANGED <<spent, position, mined>>
<1>1. Turn => UNCHANGED <<spent, position, mined>>
  BY DEF Turn, Proceed, CancelPending, Boot, BeginTurn, SkipPath, LoopPath, FoundPath, TopUpThrows,
     NoPath, ResetInTryPaths, PickNone, PickFirst, InputFails, Prepare, Number, PrepareFails, Send,
     SendFails, ReadBefore, BeforeFails, SettleForked, SettleBraked, SettleFilled, SettleFails,
     BookFails, EndTurn, EndTurnFails, Decline, Register, BookFill
<1>2. Timer \/ Block \/ Cancel \/ Chase => UNCHANGED <<spent, position, mined>>
  BY DEF Timer, Block, Cancel, Chase
<1>3. ASSUME NEW o \in Orders, PollReturns(o) \/ RelayReceipt(o) \/ ChaseAnswered(o)
      PROVE  UNCHANGED <<spent, position, mined>>
  BY <1>3 DEF PollReturns, RelayReceipt, ChaseAnswered
<1>4. Operator \/ Crash \/ UNCHANGED vars => UNCHANGED <<spent, position, mined>>
  BY DEF Operator, Add, Cut, BuyOrSell, Pause, BeginView, EndView, BeginReset, EndReset, Command,
     Crash, vars
<1> QED BY <1>1, <1>2, <1>3, <1>4 DEF Next, Meanwhile

(* A number once spent stays spent.                                        *)
LEMMA SpentStays ==
  ASSUME TInv, [Next]_vars
  PROVE  spent \in Nat /\ spent' \in Nat /\ spent <= spent'
<1>1. spent \in Nat /\ spent' \in Nat
  BY NextTInv DEF TInv, ChainOK
<1>2. CASE Mine
  <2>1. PICK tx \in mempool, a \in Int :
          \/ UNCHANGED <<spent, position>>
          \/ Live(tx) /\ tx.nonce # 0 /\ spent' = tx.nonce /\ position' = position + a
    BY <1>2, MineCases
  <2> QED BY <1>1, <2>1 DEF Live
<1> QED BY <1>1, <1>2, OnlyMineMoves

(* An order gets its number from one read; what it has otherwise it had.   *)
LEMMA NumberIsRead ==
  ASSUME TInv, NInv, [Next]_vars
  PROVE  \/ Number
         \/ order'.nonce = 0
         \/ order'.nonce = order.nonce /\ (pc \in {"filled", "tail"} => pc' \in {"filled", "tail"})
<1>1. NoOrder(order.no).nonce = 0 /\ order \in OrderRecords
  BY DEF NoOrder, TInv, CommitOK
<1>2. ASSUME pc \notin (Committing \ Early) \cup {"tail"}
      PROVE  order.nonce = 0 /\ pc \notin {"filled", "tail"}
  BY <1>2 DEF NInv, Unnumbered, Committing, Early
<1>3. CASE (\E p \in Paths : LoopPath(p)) \/ FoundPath \/ NoPath
  BY <1>2, <1>3 DEF LoopPath, FoundPath, NoPath, commitVars, Committing, Early, Paths
<1>4. CASE BeginTurn \/ TopUpThrows \/ ResetInTryPaths \/ PickNone \/ CancelPending \/ Boot
           \/ \E p \in Paths : SkipPath(p)
  BY <1>2, <1>4 DEF BeginTurn, TopUpThrows, ResetInTryPaths, PickNone, CancelPending, Boot, SkipPath, commitVars,
     Committing, Early, Paths
<1>5. CASE PickFirst \/ InputFails \/ Decline \/ EndTurn \/ EndTurnFails \/ Crash
  BY <1>1, <1>5 DEF PickFirst, InputFails, Decline, EndTurn, EndTurnFails, Crash, NoOrder
<1>6. CASE Register \/ Prepare \/ Send \/ SendFails \/ ReadBefore \/ SettleFilled
  BY <1>1, <1>6 DEF Register, Prepare, Send, SendFails, Abort, ReadBefore, SettleFilled, OrderRecords
<1>7. CASE PrepareFails \/ BeforeFails \/ SettleForked \/ SettleBraked \/ SettleFails
             \/ BookFill \/ BookFails \/ Timer
  BY <1>7 DEF PrepareFails, BeforeFails, SettleForked, SettleBraked, SettleFails, BookFill,
     BookFails, Timer, Abort, GiveUp
<1>8. CASE Block \/ Cancel \/ Chase \/ Mine \/ Operator \/ UNCHANGED vars
  BY <1>8 DEF Block, Cancel, Chase, Mine, Operator, Add, Cut, BuyOrSell, Pause, BeginView, EndView,
     BeginReset, EndReset, Command, commitVars, vars
<1>9. ASSUME NEW o \in Orders, PollReturns(o) \/ RelayReceipt(o) \/ ChaseAnswered(o)
      PROVE  order'.nonce = order.nonce /\ (pc' = pc \/ pc = "wait")
  BY <1>1, <1>9 DEF PollReturns, RelayReceipt, ChaseAnswered, commitVars, OrderRecords
<1> QED BY <1>3, <1>4, <1>5, <1>6, <1>7, <1>8, <1>9 DEF Next, Turn, Proceed, Meanwhile

LEMMA StaysBooked ==
  ASSUME TInv, NInv, NEW n \in Nat \ {0}, NumberBooked(n), [Next]_vars
  PROVE  NumberBooked(n)' /\ [SettleFilled => order.nonce # n]_vars
<1>1. spent \in Nat /\ spent <= spent' /\ spent' \in Nat
  BY SpentStays
<1>2. n <= spent'
  BY <1>1 DEF NumberBooked
<1>3. Number => order'.nonce = spent + 1
  BY DEF Number, TInv, CommitOK, OrderRecords
<1>4. order'.nonce = n => pc' \in {"filled", "tail"}
  BY <1>1, <1>3, NumberIsRead DEF NumberBooked
<1>5. SettleFilled => order.nonce # n
  BY DEF SettleFilled, NumberBooked
<1> QED BY <1>2, <1>4, <1>5 DEF NumberBooked

THEOREM NoSecondBooking == ASSUME NEW n \in Nat \ {0} PROVE Spec => BookedOnce(n)
<1>1. NInv /\ pc = "filled" /\ order.nonce = n /\ TInv => NumberBooked(n)
  BY DEF NInv, ReadIsSpent, NumberBooked
<1>2. TInv /\ NInv /\ NumberBooked(n) /\ [Next]_vars => NumberBooked(n)' /\ [SettleFilled => order.nonce # n]_vars
  BY StaysBooked
<1> QED BY <1>1, <1>2, InitTInv, NextTInv, InitNInv, NextNInv, PTL DEF Spec, BookedOnce

----------------------------------------------------------------------------
(* Account nonces.  Whatever is sent of an order to trade has the one      *)
(* account nonce that was read for it, and a block takes one transaction   *)
(* of each: an order that has traded has nothing left that could trade.    *)
Sending == pc \in Committing \ {"prepare"}

NotPast == \A tx \in mempool : tx.account >= account

OrdersKnown ==
  \A x \in mempool \cup mined : x.order <= order.no /\ (pc = "prepare" => x.order < order.no)

OneAccount ==
  \A t, u \in mempool :
    (t.kind # "cancel" /\ u.kind # "cancel" /\ t.order = u.order) => t.account = u.account

OwnAccount ==
  Sending => \A t \in mempool :
               (t.kind # "cancel" /\ t.order = order.no) => t.account = order.account

NothingLeft ==
  \A r \in mined, t \in mempool : (r.amount # 0 /\ t.kind # "cancel") => t.order # r.order

UnusedUntraded ==
  (Sending /\ order.account >= account) => \A r \in mined : r.order = order.no => r.amount = 0

AInv ==
  /\ NotPast /\ OrdersKnown /\ OneAccount /\ OwnAccount /\ NothingLeft /\ UnusedUntraded
  /\ OneTradeEach

LEMMA InitAInv == Init => AInv
BY DEF Init, AInv, NotPast, OrdersKnown, OneAccount, OwnAccount, NothingLeft, UnusedUntraded,
       OneTradeEach

(* The order goes on or is over, and nothing is sent or mined.             *)
LEMMA SameAccounts ==
  ASSUME AInv, UNCHANGED chainVars, UNCHANGED order.no,
         pc' = "prepare" => pc = "prepare",
         Sending' => Sending /\ order'.account = order.account
  PROVE  AInv'
BY DEF AInv, NotPast, OrdersKnown, OneAccount, OwnAccount, NothingLeft, UnusedUntraded,
       OneTradeEach, chainVars

LEMMA RegisterAccounts ==
  ASSUME TInv, AInv, Register
  PROVE  AInv'
<1>1. UNCHANGED chainVars /\ pc' = "prepare" /\ order'.no = order.no + 1
  BY DEF Register, TInv, CommitOK, OrderRecords
<1>2. /\ order.no \in Nat
      /\ \A x \in mempool \cup mined : x.order \in Nat
  BY DEF TInv, CommitOK, OrderRecords, ChainOK, Txs, Receipts, Orders
<1>3. OrdersKnown'
  BY <1>1, <1>2 DEF AInv, OrdersKnown, chainVars
<1> QED BY <1>1, <1>3 DEF AInv, NotPast, OneAccount, OwnAccount, NothingLeft, UnusedUntraded,
      OneTradeEach, Sending, chainVars

(* When its account nonce is read nothing of the order is under way.       *)
LEMMA PrepareAccounts ==
  ASSUME TInv, AInv, Prepare
  PROVE  AInv'
<1>1. UNCHANGED chainVars /\ pc = "prepare" /\ pc' \in {"number", "send"}
  BY DEF Prepare
<1>2. order'.no = order.no
  BY DEF Prepare, TInv, CommitOK, OrderRecords
<1>3. /\ order.no \in Nat
      /\ \A x \in mempool \cup mined : x.order \in Nat /\ x.order < order.no
  BY <1>1 DEF AInv, OrdersKnown, TInv, CommitOK, OrderRecords, ChainOK, Txs, Receipts, Orders
<1>4. \A x \in mempool \cup mined : x.order # order.no
  BY <1>3
<1> QED BY <1>1, <1>2, <1>4 DEF AInv, NotPast, OrdersKnown, OneAccount, OwnAccount, NothingLeft,
      UnusedUntraded, OneTradeEach, chainVars

(* Sending under the order's account nonce while it is not used.           *)
LEMMA SentAccounts ==
  ASSUME TInv, AInv, Sending, UNCHANGED <<account, mined, order>>, pc' # "prepare",
         mempool' # mempool => Unused,
         mempool \subseteq mempool',
         \A tx \in mempool' : \/ tx \in mempool
                              \/ tx.order = order.no /\ tx.account = order.account
  PROVE  AInv'
<1>1. order.no \in Nat
  BY DEF TInv, CommitOK, OrderRecords
<1>2. NotPast' /\ OrdersKnown'
  BY <1>1 DEF AInv, NotPast, OrdersKnown, Unused
<1>3. OwnAccount'
  BY DEF AInv, OwnAccount
<1>4. OneAccount'
  BY DEF AInv, OneAccount, OwnAccount
<1>5. NothingLeft'
  BY DEF AInv, NothingLeft, UnusedUntraded, Unused
<1> QED BY <1>2, <1>3, <1>4, <1>5 DEF AInv, UnusedUntraded, OneTradeEach

LEMMA SendAccounts ==
  ASSUME TInv, AInv, Send \/ SendFails \/ Chase
  PROVE  AInv'
<1>1. UNCHANGED <<account, mined, order>> /\ pc' # "prepare" /\ mempool \subseteq mempool'
  BY DEF Send, SendFails, Abort, Chase, TInv, ReleasedAfterCommit
<1>2. Sending
  BY DEF Send, SendFails, Chase, TInv, ReleasedAfterCommit, Sending, Committing
<1>3. mempool' # mempool => Unused
  BY DEF Send, SendFails, Chase
<1>4. \A tx \in mempool' : \/ tx \in mempool
                           \/ tx.order = order.no /\ tx.account = order.account
  BY DEF Send, SendFails, Chase, Chased, Copies, Transaction
<1> QED BY <1>1, <1>2, <1>3, <1>4, SentAccounts

(* A cancel cannot trade.                                                  *)
LEMMA CancelAccounts ==
  ASSUME TInv, AInv, Cancel \/ CancelPending
  PROVE  AInv'
<1>1. UNCHANGED <<account, mined, pc, order>>
  BY DEF Cancel, CancelPending, commitVars
<1>2. \A tx \in mempool' :
        \/ tx \in mempool
        \/ /\ tx.kind = "cancel" /\ tx.account >= account
           /\ \E t \in mempool : tx.order = t.order
  <2>1. ASSUME NEW t \in mempool
        PROVE  /\ EmptyTransfer(t).kind = "cancel" /\ EmptyTransfer(t).order = t.order
               /\ EmptyTransfer(t).account >= account
    <3>1. t.account >= account
      BY DEF AInv, NotPast
    <3> QED BY <3>1 DEF EmptyTransfer
  <2>2. ASSUME NEW t \in mempool, NEW c, c = [EmptyTransfer(t) EXCEPT !.account = account]
        PROVE  c.kind = "cancel" /\ c.order = t.order /\ c.account >= account
    <3>1. account >= account
      BY DEF TInv, ChainOK
    <3> QED BY <2>2, <3>1 DEF EmptyTransfer
  <2> QED BY <2>1, <2>2 DEF Cancel, CancelPending
<1>3. OrdersKnown'
  BY <1>1, <1>2 DEF AInv, OrdersKnown
<1>4. OneAccount' /\ OwnAccount' /\ NothingLeft'
  BY <1>1, <1>2 DEF AInv, OneAccount, OwnAccount, NothingLeft, Sending
<1> QED BY <1>1, <1>2, <1>3, <1>4 DEF AInv, NotPast, UnusedUntraded, OneTradeEach, Sending

LEMMA BlockAccounts ==
  ASSUME TInv, AInv, Block
  PROVE  AInv'
<1>1. UNCHANGED <<account, mined, pc, order>>
  BY DEF Block
<1>2. ASSUME NEW t \in mempool,
             NEW u, u = [t EXCEPT !.ttl = IF @ < 0 THEN @ ELSE @ - 1]
      PROVE  u.kind = t.kind /\ u.order = t.order /\ u.account = t.account
  BY <1>2 DEF TInv, ChainOK, Txs
<1>3. \A u \in mempool' : \E t \in mempool :
        u.kind = t.kind /\ u.order = t.order /\ u.account = t.account
  BY <1>2 DEF Block
<1>4. NotPast' /\ OrdersKnown' /\ OwnAccount' /\ NothingLeft'
  BY <1>1, <1>3 DEF AInv, NotPast, OrdersKnown, OwnAccount, NothingLeft, Sending
<1>5. OneAccount'
  BY <1>1, <1>3 DEF AInv, OneAccount
<1> QED BY <1>1, <1>4, <1>5 DEF AInv, UnusedUntraded, OneTradeEach, Sending

(* A trade takes the account nonce, and with it all that is left of the    *)
(* order.                                                                  *)
LEMMA MineAccounts ==
  ASSUME TInv, AInv, Mine
  PROVE  AInv'
<1>1. PICK tx \in mempool, a \in Int :
        /\ Include(tx, a)
        /\ tx.account = account
        /\ Live(tx) \/ a = 0
  BY MineCases
<1> DEFINE r == [order |-> tx.order, kind |-> tx.kind, nonce |-> tx.nonce, amount |-> a]
<1>2. /\ account' = account + 1 /\ mined' = mined \cup {r}
      /\ mempool' = {other \in mempool : other.account # account}
      /\ UNCHANGED <<pc, order>>
  BY <1>1 DEF Include, Mine, commitVars
<1>3. r.order = tx.order /\ r.amount = a /\ (a # 0 => tx.kind # "cancel")
  BY <1>1 DEF Live
<1> HIDE DEF r
<1>4. /\ account \in Nat /\ order.account \in Nat
      /\ \A t \in mempool : t.account \in Nat
  BY DEF TInv, ChainOK, CommitOK, OrderRecords, Txs
<1>5. NotPast'
  BY <1>2, <1>4 DEF AInv, NotPast
<1>6. OrdersKnown'
  BY <1>2, <1>3 DEF AInv, OrdersKnown
<1>7. OneAccount' /\ OwnAccount'
  BY <1>2 DEF AInv, OneAccount, OwnAccount, Sending
<1>8. NothingLeft'
  <2> SUFFICES ASSUME NEW t \in mempool', a # 0, t.kind # "cancel"
               PROVE  t.order # r.order
    BY <1>2, <1>3 DEF AInv, NothingLeft
  <2>1. t.account # tx.account
    BY <1>1, <1>2
  <2> QED BY <1>2, <1>3, <2>1 DEF AInv, OneAccount
<1>9. UnusedUntraded'
  <2> SUFFICES ASSUME Sending, order.account >= account + 1, r.order = order.no, a # 0
               PROVE  FALSE
    BY <1>2, <1>3, <1>4 DEF AInv, UnusedUntraded, Sending
  <2>1. tx.account = order.account
    BY <1>3 DEF AInv, OwnAccount
  <2> QED BY <1>1, <1>4, <2>1
<1>10. OneTradeEach'
  BY <1>2, <1>3 DEF AInv, OneTradeEach, NothingLeft
<1> QED BY <1>5, <1>6, <1>7, <1>8, <1>9, <1>10 DEF AInv

LEMMA NextAInv == TInv /\ AInv /\ [Next]_vars => AInv'
<1> SUFFICES ASSUME TInv, AInv, [Next]_vars PROVE AInv'
  OBVIOUS
<1>1. ReleasedAfterCommit /\ ReleasedAfterCommit'
  BY NextTInv DEF TInv
<1>2. order.no \in Nat
  BY DEF TInv, CommitOK, OrderRecords
<1>3. \A n : NoOrder(n).no = n
  BY DEF NoOrder
<1>4. CASE Turn
  <2>1. CASE (\E p \in Paths : LoopPath(p)) \/ FoundPath \/ NoPath
    <3>1. pc \notin Committing
      BY <2>1 DEF LoopPath, FoundPath, NoPath, Committing, Paths
    <3>2. UNCHANGED <<chainVars, waiting, order>>
      BY <2>1 DEF LoopPath, FoundPath, NoPath, commitVars
    <3>3. pc' \notin Committing
      BY <1>1, <3>1, <3>2 DEF ReleasedAfterCommit
    <3> QED BY <3>2, <3>3, SameAccounts DEF Sending, Committing
  <2>2. CASE BeginTurn \/ TopUpThrows \/ ResetInTryPaths \/ PickNone \/ Boot \/ \E p \in Paths : SkipPath(p)
    BY <2>2, SameAccounts DEF BeginTurn, TopUpThrows, ResetInTryPaths, PickNone, Boot, SkipPath, Leave,
       Throw, Sending, Committing, Paths, commitVars
  <2>3. CASE PickFirst
    <3>1. order'.no = order.no
      BY <1>3, <2>3 DEF PickFirst, NoOrder
    <3> QED BY <2>3, <3>1, SameAccounts DEF PickFirst, Sending, Committing
  <2>4. CASE InputFails \/ Decline \/ EndTurn \/ EndTurnFails
    <3>1. order'.no = order.no
      BY <1>3, <2>4 DEF InputFails, Decline, EndTurn, EndTurnFails
    <3> QED BY <2>4, <3>1, SameAccounts DEF InputFails, Decline, EndTurn, EndTurnFails, Throw,
          Sending, Committing
  <2>5. CASE PrepareFails \/ BeforeFails \/ SettleForked \/ SettleBraked \/ SettleFails
               \/ BookFill \/ BookFails
    BY <2>5, SameAccounts DEF PrepareFails, BeforeFails, SettleForked, SettleBraked, SettleFails,
       BookFill, BookFails, Abort, GiveUp, Sending, Committing
  <2>6. CASE Number \/ ReadBefore \/ SettleFilled
    <3>1. UNCHANGED <<order.no, order.account>>
      BY <2>6 DEF Number, ReadBefore, SettleFilled, TInv, CommitOK, OrderRecords
    <3> QED BY <2>6, <3>1, SameAccounts DEF Number, ReadBefore, SettleFilled, Sending, Committing
  <2>7. CASE Register \/ Prepare \/ Send \/ SendFails \/ CancelPending
    BY <2>7, RegisterAccounts, PrepareAccounts, SendAccounts, CancelAccounts
  <2> QED BY <1>4, <2>1, <2>2, <2>3, <2>4, <2>5, <2>6, <2>7 DEF Turn, Proceed
<1>5. CASE Timer
  BY <1>5, SameAccounts DEF Timer, GiveUp, Sending, Committing
<1>6. CASE Block \/ Cancel \/ Chase \/ Mine
  BY <1>6, BlockAccounts, CancelAccounts, SendAccounts, MineAccounts
<1>7. CASE \E o \in Orders : PollReturns(o)
  <2>1. UNCHANGED <<order.no, order.account>>
    BY <1>7 DEF PollReturns, TInv, CommitOK, OrderRecords
  <2> QED BY <1>7, <2>1, SameAccounts DEF PollReturns, Sending, Committing
<1>8. CASE \E o \in Orders : RelayReceipt(o) \/ ChaseAnswered(o)
  BY <1>8, SameAccounts DEF RelayReceipt, ChaseAnswered, Sending
<1>9. CASE Operator
  BY <1>9, SameAccounts DEF Operator, Add, Cut, BuyOrSell, Pause, BeginView, EndView, BeginReset,
     EndReset, Command, commitVars, Sending
<1>10. CASE Crash
  BY <1>3, <1>10, SameAccounts DEF Crash, Sending, Committing
<1>11. CASE UNCHANGED vars
  BY <1>11, SameAccounts DEF vars, chainVars, Sending
<1> QED BY <1>4, <1>5, <1>6, <1>7, <1>8, <1>9, <1>10, <1>11 DEF Next, Meanwhile

(* However often an order is sent, chased, relayed or given up and mined   *)
(* late, numbered or not, it trades at most once.                          *)
THEOREM EachTradesOnce == Spec => []OneTradeEach
<1>1. AInv => OneTradeEach
  BY DEF AInv
<1> QED BY <1>1, InitTInv, NextTInv, InitAInv, NextAInv, PTL DEF Spec

----------------------------------------------------------------------------
(* The disk: while no call fails, every step that changes what is on it    *)
(* also writes it, or begins an await at whose end it is written.          *)
LEMMA DiskUntouched ==
  ASSUME DiskKeepsBooks, UNCHANGED <<confirm, actual, paused, disk, handler>>, pc # "filled"
  PROVE  DiskKeepsBooks'
BY DEF DiskKeepsBooks

LEMMA DiskWritten ==
  ASSUME SaveStatusConfig
  PROVE  DiskKeepsBooks'
BY DEF DiskKeepsBooks, SaveStatusConfig

(* Between the two steps of a fill nothing but the operator matters.       *)
LEMMA DiskDue ==
  ASSUME pc' = "filled" \/ handler' = "view"
  PROVE  DiskKeepsBooks'
BY DEF DiskKeepsBooks

LEMMA DiskBeside ==
  ASSUME DiskKeepsBooks, UNCHANGED <<confirm, actual, paused, disk, handler, pc>>
  PROVE  DiskKeepsBooks'
BY DEF DiskKeepsBooks

LEMMA TurnKeepsDisk ==
  ASSUME "rpc" \notin Faults, DiskKeepsBooks, Turn
  PROVE  DiskKeepsBooks'
<1> USE DEF chainVars, gridVars, commitVars, otherVars
<1>1. CASE CancelPending \/ Boot \/ BeginTurn \/ PickNone \/ PickFirst \/ InputFails
             \/ Decline \/ Register
  BY <1>1, DiskUntouched DEF CancelPending, Boot, BeginTurn, PickNone, PickFirst, InputFails,
     Decline, Register
<1>2. CASE \E p \in Paths : SkipPath(p) \/ LoopPath(p)
  BY <1>2, DiskUntouched DEF SkipPath, LoopPath, Paths
<1>3. CASE FoundPath \/ TopUpThrows \/ NoPath
  BY <1>3, DiskUntouched DEF FoundPath, TopUpThrows, NoPath
<1>4. CASE ResetInTryPaths
  BY <1>4, DiskWritten DEF ResetInTryPaths, ResetActualPositionConfirm
<1>5. CASE Prepare \/ Number \/ PrepareFails \/ Send \/ SendFails \/ ReadBefore \/ BeforeFails
  BY <1>5, DiskUntouched DEF Prepare, Number, PrepareFails, Send, SendFails, ReadBefore, BeforeFails, Abort
<1>6. CASE SettleForked \/ SettleBraked \/ BookFill
  BY <1>6, DiskWritten DEF SettleForked, SettleBraked, BookFill
<1>7. CASE SettleFilled
  BY <1>7, DiskDue DEF SettleFilled
<1>8. CASE SettleFails \/ BookFails \/ EndTurnFails
  BY <1>8 DEF SettleFails, BookFails, EndTurnFails
<1>9. CASE EndTurn
  BY <1>9, DiskUntouched DEF EndTurn
<1> QED BY <1>1, <1>2, <1>3, <1>4, <1>5, <1>6, <1>7, <1>8, <1>9 DEF Turn, Proceed

LEMMA MeanwhileKeepsDisk ==
  ASSUME DiskKeepsBooks, Meanwhile
  PROVE  DiskKeepsBooks'
<1> USE DEF chainVars, gridVars, commitVars, otherVars
<1>1. CASE Timer
  BY <1>1, DiskUntouched DEF Timer, GiveUp
<1>2. CASE Block \/ Cancel \/ Chase \/ Mine
  BY <1>2, DiskBeside DEF Block, Cancel, Chase, Mine
<1>3. CASE \E o \in Orders : PollReturns(o)
  <2>1. PICK o \in Orders : PollReturns(o)
    BY <1>3
  <2>2. UNCHANGED <<confirm, actual, paused, disk, handler>>
    BY <2>1 DEF PollReturns
  <2>3. pc # "filled" \/ pc' = pc
    BY <2>1 DEF PollReturns
  <2> QED BY <2>2, <2>3, DiskUntouched, DiskBeside
<1>4. CASE \E o \in Orders : RelayReceipt(o) \/ ChaseAnswered(o)
  BY <1>4, DiskBeside DEF RelayReceipt, ChaseAnswered
<1>5. CASE Add \/ Cut \/ Pause \/ EndView
  BY <1>5, DiskWritten DEF Add, Cut, Pause, EndView
<1>6. CASE BuyOrSell \/ BeginReset
  BY <1>6 DEF BuyOrSell, BeginReset, Command, DiskKeepsBooks
<1>7. CASE BeginView
  BY <1>7, DiskDue DEF BeginView
<1>8. CASE EndReset
  <2>1. CASE ResetActualPositionConfirm
    BY <2>1, DiskWritten DEF ResetActualPositionConfirm
  <2>2. CASE UNCHANGED <<confirm, actual, disk>>
    BY <1>8, <2>2 DEF EndReset, DiskKeepsBooks
  <2> QED BY <1>8, <2>1, <2>2 DEF EndReset
<1> QED BY <1>1, <1>2, <1>3, <1>4, <1>5, <1>6, <1>7, <1>8 DEF Meanwhile, Operator

(* Without failing calls a restart finds the books as they were, whatever  *)
(* the operator did and however often the process has died before.         *)
THEOREM DiskIsUpToDate == ASSUME "rpc" \notin Faults PROVE Spec => []DiskKeepsBooks
<1>1. Init => DiskKeepsBooks
  BY DEF Init, DiskKeepsBooks, Saved
<1>2. DiskKeepsBooks /\ [Next]_vars => DiskKeepsBooks'
  <2>1. DiskKeepsBooks /\ Crash => DiskKeepsBooks'
    BY DEF Crash, DiskKeepsBooks
  <2>2. DiskKeepsBooks /\ UNCHANGED vars => DiskKeepsBooks'
    BY DiskBeside DEF vars
  <2> QED BY <2>1, <2>2, TurnKeepsDisk, MeanwhileKeepsDisk DEF Next
<1> QED BY <1>1, <1>2, PTL DEF Spec

----------------------------------------------------------------------------
(* A chain that keeps out of the way: no call fails, no transaction        *)
(* outlives its order, nobody else names one, the process does not die,    *)
(* and no command touches the books.                                       *)
Undisturbed ==
  /\ Faults \subseteq {"revert", "cancel", "partial", "short"}
  /\ Commands \subseteq {"add", "cut", "buy", "sell", "pause"}
  /\ MaxCrashes = 0

(* An operator, too: no command touches the plan.                          *)
Calm == Undisturbed /\ Commands \subseteq {"buy", "sell", "pause"}

(* The places at which no transaction of the bot is under way.             *)
Planning == {"top", "sell", "buy", "find", "reset", "pick", "input", "tail"}
Unsent   == Planning \cup {"prepare", "number", "send"}

Quiet ==
  /\ handler = "none"
  /\ pc \in Unsent \cup {"before", "wait", "settle", "filled"}
  /\ \A h \in hashes : h.owner = h.order
  /\ \A x \in mempool \cup mined : x.kind \in {"direct", "cancel"}

(* All that is under way belongs to the order and goes by one account      *)
(* nonce, the next that a block takes.                                     *)
OwnOnly ==
  /\ pc \in {"number", "send"} => order.account = account
  /\ \A tx \in mempool : tx.order = order.no /\ tx.account = account
  /\ pc \notin {"before", "wait"} => mempool = {}

OwnMined == {r \in mined : r.order = order.no}

Untouched == pc \in {"prepare", "number", "send", "before"} => OwnMined = {}

(* What is booked is what the contract holds, but for the order between    *)
(* its receipt and its booking.                                            *)
Held ==
  /\ pc \in Unsent \cup {"before"} => position = actual
  /\ pc \in {"wait", "settle"} => order.before = actual
  /\ pc = "wait" => IF OwnMined = {} THEN position = actual ELSE mempool = {}
  /\ pc = "wait" => \A r \in OwnMined : r.amount = 0 => position = actual
  /\ pc = "settle" /\ ~order.traded => position = actual
  /\ pc = "filled" => position = actual + order.delta

HInv == Quiet /\ OwnOnly /\ Untouched /\ Held

(* No remainder too small to count is on the books.                        *)
NoDust == Opens => actual = 0

LEMMA InitHInv == Init => HInv
BY DEF Init, HInv, Quiet, OwnOnly, Untouched, Held, Unsent, Planning

(* The actions that are left in a calm run.                                *)
CalmTurn ==
  \/ BeginTurn
  \/ \E p \in Paths : SkipPath(p) \/ LoopPath(p)
  \/ FoundPath \/ TopUpThrows \/ NoPath \/ ResetInTryPaths
  \/ PickNone \/ PickFirst \/ InputFails \/ Decline \/ Register
  \/ Prepare \/ Number \/ Send \/ ReadBefore
  \/ SettleForked \/ SettleBraked \/ SettleFilled \/ BookFill \/ EndTurn

CalmMeanwhile ==
  \/ Block \/ Cancel \/ Mine
  \/ \E o \in Orders : PollReturns(o)
  \/ BuyOrSell \/ Pause

LEMMA CalmFaults ==
  ASSUME Undisturbed
  PROVE  {"rpc", "timer", "early", "roy", "chase"} \cap Faults = {}
BY DEF Undisturbed

LEMMA CalmIsUndisturbed == Calm => Undisturbed
BY DEF Calm

LEMMA UndisturbedStep ==
  ASSUME Undisturbed, TInv, HInv, [Next]_vars
  PROVE  CalmTurn \/ CalmMeanwhile \/ Add \/ Cut \/ UNCHANGED vars
<1>1. pc \notin {"boot", "stopped"} /\ handler = "none"
  BY DEF HInv, Quiet, Unsent, Planning
<1>2. ~Outrun
  BY DEF HInv, Quiet, Outrun
<1>3. ASSUME Proceed PROVE CalmTurn
  <2>1. ~(CancelPending \/ Boot)
    BY <1>1 DEF CancelPending, Boot
  <2>2. ~(PrepareFails \/ BeforeFails \/ SettleFails \/ BookFails \/ EndTurnFails)
    BY CalmFaults DEF PrepareFails, BeforeFails, SettleFails, BookFails, EndTurnFails
  <2>3. ~SendFails
    BY <1>2, CalmFaults DEF SendFails
  <2> QED BY <1>3, <2>1, <2>2, <2>3 DEF Proceed, CalmTurn
<1>4. ASSUME Meanwhile PROVE CalmMeanwhile \/ Add \/ Cut
  <2>1. ~(Timer \/ Chase)
    BY CalmFaults DEF Timer, Chase
  <2>2. ASSUME NEW o \in Orders PROVE ~(RelayReceipt(o) \/ ChaseAnswered(o))
    BY CalmFaults DEF RelayReceipt, ChaseAnswered, HInv, Quiet
  <2>3. ~(BeginView \/ BeginReset)
    BY DEF Undisturbed, BeginView, BeginReset, Command
  <2>4. ~(EndView \/ EndReset)
    BY <1>1 DEF EndView, EndReset
  <2> QED BY <1>4, <2>1, <2>2, <2>3, <2>4 DEF Meanwhile, Operator, CalmMeanwhile
<1>5. ~Crash
  BY DEF Crash, Undisturbed, TInv, OtherOK
<1> QED BY <1>3, <1>4, <1>5 DEF Next, Turn, CalmTurn

LEMMA CalmStep ==
  ASSUME Calm, TInv, HInv, [Next]_vars
  PROVE  CalmTurn \/ CalmMeanwhile \/ UNCHANGED vars
<1>1. ~(Add \/ Cut)
  BY DEF Calm, Add, Cut, Command
<1> QED BY <1>1, UndisturbedStep, CalmIsUndisturbed

----------------------------------------------------------------------------
(* A step that sends and mines nothing, before anything of the order is    *)
(* sent or after all of it is over.                                        *)
LEMMA PlanningHolds ==
  ASSUME HInv, pc \in Unsent \cup {"settle", "filled"}, pc' \in Planning,
         UNCHANGED <<chainVars, hashes, handler>>, position' = actual'
  PROVE  HInv'
BY DEF HInv, Quiet, OwnOnly, Untouched, Held, Unsent, Planning

LEMMA SameHolds ==
  ASSUME HInv, UNCHANGED <<chainVars, hashes, handler, actual, pc, order>>
  PROVE  HInv'
BY DEF HInv, Quiet, OwnOnly, Untouched, Held, OwnMined

(* The calls of tryPaths lead to one of its own places or to the next.     *)
LEMMA TryPathsPlans ==
  ASSUME NEW p \in Paths, NEW way, NEW from, TryPaths(p, way, from)
  PROVE  pc' \in Planning
BY DEF TryPaths, Leave, Throw, Planning

LEMMA LoopHolds ==
  ASSUME TInv, HInv,
         \/ BeginTurn \/ (\E p \in Paths : SkipPath(p) \/ LoopPath(p))
         \/ FoundPath \/ TopUpThrows \/ NoPath \/ ResetInTryPaths
         \/ PickNone \/ PickFirst \/ InputFails \/ Decline \/ EndTurn
  PROVE  HInv'
<1>1. pc \in Planning /\ UNCHANGED <<chainVars, hashes, handler>>
  BY DEF BeginTurn, SkipPath, LoopPath, FoundPath, TopUpThrows, NoPath, ResetInTryPaths,
     PickNone, PickFirst, InputFails, Decline, EndTurn, Planning, Paths
<1>2. position' = actual'
  <2>1. position = actual
    BY <1>1 DEF HInv, Held, Unsent
  <2>2. actual' = actual \/ actual' = position
    BY DEF BeginTurn, SkipPath, LoopPath, FoundPath, TopUpThrows, NoPath, ResetInTryPaths,
       PickNone, PickFirst, InputFails, Decline, EndTurn, ResetActualPositionConfirm
  <2> QED BY <1>1, <2>1, <2>2
<1>3. pc' \in Planning
  <2>1. CASE BeginTurn \/ TopUpThrows \/ PickNone \/ PickFirst \/ InputFails \/ Decline \/ EndTurn
    BY <2>1 DEF BeginTurn, TopUpThrows, Throw, PickNone, PickFirst, InputFails, Decline, EndTurn, Planning
  <2>2. CASE \E p \in Paths : SkipPath(p) \/ LoopPath(p)
    BY <2>2, TryPathsPlans DEF SkipPath, LoopPath, Leave, Planning
  <2>3. attempt.path \in Paths
    BY DEF TInv, LoopOK, Attempts
  <2>4. CASE FoundPath
    BY <2>3, <2>4, TryPathsPlans DEF FoundPath, Leave, Offer, Planning
  <2>5. CASE NoPath \/ ResetInTryPaths
    BY <2>3, <2>5, TryPathsPlans DEF NoPath, ResetInTryPaths, Leave, Throw, Planning
  <2> QED BY <2>1, <2>2, <2>4, <2>5
<1> QED BY <1>1, <1>2, <1>3, PlanningHolds DEF Unsent

(* When an order is registered, numbered and sent nothing else is under    *)
(* way, so its account nonce is the next.                                  *)
LEMMA RegisterHolds ==
  ASSUME TInv, AInv, HInv, Register
  PROVE  HInv'
<1>1. /\ pc = "input" /\ pc' = "prepare" /\ order'.no = order.no + 1
      /\ UNCHANGED <<chainVars, hashes, handler, actual>>
  BY DEF Register, TInv, CommitOK, OrderRecords
<1>2. mempool = {} /\ position = actual
  BY <1>1 DEF HInv, OwnOnly, Held, Unsent, Planning
<1>3. \A r \in mined : r.order # order'.no
  <2>1. order.no \in Nat /\ \A r \in mined : r.order \in Nat /\ r.order <= order.no
    BY DEF AInv, OrdersKnown, TInv, CommitOK, OrderRecords, ChainOK, Receipts, Orders
  <2> QED BY <1>1, <2>1
<1> QED BY <1>1, <1>2, <1>3
        DEF HInv, Quiet, OwnOnly, Untouched, Held, OwnMined, Unsent, Planning

LEMMA NumberHolds ==
  ASSUME TInv, HInv, Prepare \/ Number
  PROVE  HInv'
<1>1. /\ pc \in {"prepare", "number"} /\ pc' \in {"number", "send"} /\ order'.no = order.no
      /\ UNCHANGED <<chainVars, hashes, handler, actual>>
  BY DEF Prepare, Number, TInv, CommitOK, OrderRecords
<1>2. mempool = {} /\ position = actual
  BY <1>1 DEF HInv, OwnOnly, Held, Unsent
<1>3. order'.account = account
  <2>1. CASE Prepare
    <3>1. {tx.account : tx \in mempool} = {}
      BY <1>2
    <3>2. NextAccount = account
      BY <3>1, FS_EmptySet DEF NextAccount, TInv, ChainOK
    <3> QED BY <2>1, <3>2 DEF Prepare, TInv, CommitOK, OrderRecords
  <2>2. CASE Number
    BY <2>2 DEF Number, TInv, CommitOK, OrderRecords, HInv, OwnOnly
  <2> QED BY <2>1, <2>2
<1> QED BY <1>1, <1>2, <1>3
        DEF HInv, Quiet, OwnOnly, Untouched, Held, OwnMined, Unsent, Planning

LEMMA SendHolds ==
  ASSUME Undisturbed, TInv, HInv, Send
  PROVE  HInv' /\ mempool' = {Transaction("direct")}
<1>1. /\ pc = "send" /\ pc' = "before" /\ mempool = {}
      /\ UNCHANGED <<position, account, mined, handler, actual, order>>
  BY DEF Send, HInv, OwnOnly
<1>2. mempool' = {Transaction("direct")}
  BY <1>1, CalmFaults DEF Send, Copies
<1>3. order.account = account
  BY <1>1 DEF HInv, OwnOnly
<1>4. \A h \in hashes' : h.owner = h.order
  BY DEF Send, HInv, Quiet
<1> QED BY <1>1, <1>2, <1>3, <1>4
        DEF HInv, Quiet, OwnOnly, Untouched, Held, OwnMined, Unsent, Planning, Transaction

LEMMA ReadBeforeHolds ==
  ASSUME TInv, HInv, ReadBefore
  PROVE  HInv'
<1>1. /\ pc = "before" /\ pc' = "wait" /\ order'.no = order.no /\ order'.before = position
      /\ UNCHANGED <<chainVars, hashes, handler, actual>>
  BY DEF ReadBefore, TInv, CommitOK, OrderRecords
<1>2. position = actual /\ OwnMined = {}
  BY <1>1 DEF HInv, Held, Untouched
<1> QED BY <1>1, <1>2
        DEF HInv, Quiet, OwnOnly, Untouched, Held, OwnMined, Unsent, Planning

(* A receipt is seen only of what was mined of the order itself.           *)
LEMMA PollHolds ==
  ASSUME TInv, HInv, NEW o \in Orders, PollReturns(o)
  PROVE  HInv'
<1>1. UNCHANGED <<chainVars, hashes, handler, actual>>
  BY DEF PollReturns
<1>2. CASE UNCHANGED <<pc, order>>
  BY <1>1, <1>2, SameHolds
<1>3. CASE \E r \in Known(o) : /\ pc = "wait" /\ o = order.no
                               /\ pc' = "settle" /\ order' = [order EXCEPT !.traded = (r.amount # 0)]
  <2>1. PICK r \in Known(o) : /\ pc = "wait" /\ o = order.no
                              /\ pc' = "settle" /\ order' = [order EXCEPT !.traded = (r.amount # 0)]
    BY <1>3
  <2>2. r \in OwnMined
    BY <2>1 DEF Known, OwnMined, HInv, Quiet
  <2>3. mempool = {} /\ order.before = actual /\ (r.amount = 0 => position = actual)
    BY <2>1, <2>2 DEF HInv, Held
  <2>4. /\ order'.no = order.no /\ order'.before = order.before
        /\ order'.traded = (r.amount # 0)
    BY <2>1 DEF TInv, CommitOK, OrderRecords
  <2> QED BY <1>1, <2>1, <2>3, <2>4
          DEF HInv, Quiet, OwnOnly, Untouched, Held, Unsent, Planning
<1> QED BY <1>2, <1>3 DEF PollReturns

(* The closing position differs from the opening one by what is booked.    *)
LEMMA SettleHolds ==
  ASSUME TInv, NoDust, HInv, SettleForked \/ SettleBraked \/ SettleFilled \/ BookFill
  PROVE  HInv'
<1>1. position \in Int /\ actual \in Int /\ order.before \in Int /\ order.delta \in Int
  BY DEF TInv, ChainOK, GridOK, CommitOK, OrderRecords
<1>2. UNCHANGED <<chainVars, hashes, handler>>
  BY DEF SettleForked, SettleBraked, SettleFilled, BookFill
<1>3. CASE SettleForked
  <2>1. pc = "settle" /\ order.before = actual /\ position = order.before /\ pc' = "tail" /\ actual' = actual
    BY <1>1, <1>3 DEF SettleForked, MovedBy, HInv, Held
  <2> QED BY <1>2, <2>1, PlanningHolds DEF Planning
<1>4. CASE SettleBraked
  <2>1. pc = "settle" /\ position = actual /\ pc' = "tail" /\ actual' = actual
    BY <1>4 DEF SettleBraked, HInv, Held
  <2> QED BY <1>2, <2>1, PlanningHolds DEF Planning
<1>5. CASE SettleFilled
  <2>1. /\ pc = "settle" /\ pc' = "filled" /\ actual' = actual /\ order.before = actual
        /\ order'.no = order.no /\ order'.delta = position - order.before
    BY <1>5 DEF SettleFilled, MovedBy, HInv, Held, TInv, CommitOK, OrderRecords
  <2>2. position = actual + order'.delta
    BY <1>1, <2>1
  <2> QED BY <1>2, <2>1, <2>2 DEF HInv, Quiet, OwnOnly, Untouched, Held, Unsent, Planning
<1>6. CASE BookFill
  <2>1. pc = "filled" /\ position = actual + order.delta /\ pc' = "tail" /\ actual' = actual + order.delta
    BY <1>1, <1>6 DEF BookFill, HInv, Held, NoDust
  <2> QED BY <1>2, <2>1, PlanningHolds DEF Planning
<1> QED BY <1>3, <1>4, <1>5, <1>6

LEMMA BlockHolds ==
  ASSUME TInv, HInv, Block
  PROVE  HInv'
<1>1. UNCHANGED <<position, account, mined, pc, order, hashes, handler, actual>>
  BY DEF Block
<1>2. ASSUME NEW t \in mempool,
             NEW u, u = [t EXCEPT !.ttl = IF @ < 0 THEN @ ELSE @ - 1]
      PROVE  u.kind = t.kind /\ u.order = t.order /\ u.account = t.account
  BY <1>2 DEF TInv, ChainOK, Txs
<1>3. \A u \in mempool' : \E t \in mempool :
        u.kind = t.kind /\ u.order = t.order /\ u.account = t.account
  BY <1>2 DEF Block
<1>4. mempool = {} => mempool' = {}
  BY DEF Block
<1> QED BY <1>1, <1>3, <1>4 DEF HInv, Quiet, OwnOnly, Untouched, Held, OwnMined

LEMMA CancelHolds ==
  ASSUME TInv, HInv, Cancel
  PROVE  HInv' /\ \E c : mempool' = mempool \cup {c} /\ c.kind = "cancel"
<1>1. UNCHANGED <<position, account, mined, pc, order, hashes, handler, actual>>
  BY DEF Cancel
<1>2. ~Outrun
  BY DEF HInv, Quiet, Outrun
<1>3. PICK tx \in mempool : mempool' = mempool \cup {EmptyTransfer(tx)}
  BY <1>2 DEF Cancel
<1>4. /\ EmptyTransfer(tx).order = tx.order /\ EmptyTransfer(tx).account = tx.account
      /\ EmptyTransfer(tx).kind = "cancel"
  BY DEF EmptyTransfer
<1> QED BY <1>1, <1>3, <1>4 DEF HInv, Quiet, OwnOnly, Untouched, Held, OwnMined

(* Mining empties the mempool, once the opening position has been read.    *)
LEMMA MineHolds ==
  ASSUME Undisturbed, TInv, HInv, Mine
  PROVE  HInv' /\ pc = "wait" /\ mempool' = {} /\ OwnMined = {}
<1>1. PICK tx \in mempool :
        /\ tx.account = account /\ Observed(tx)
        /\ MineTrade(tx) \/ MineBraked(tx) \/ MineVoid(tx)
  BY DEF Mine
<1>2. UNCHANGED <<pc, order, hashes, handler, actual>>
  BY DEF Mine
<1>3. pc = "wait"
  <2>1. tx.order = order.no /\ pc \in {"before", "wait"}
    BY DEF HInv, OwnOnly
  <2> QED BY <1>1, <2>1, CalmFaults DEF Observed
<1>4. OwnMined = {} /\ position = actual
  BY <1>3 DEF HInv, Held
<1>5. PICK a : Include(tx, a) /\ (a = 0 => position' = position)
  <2>1. CASE MineTrade(tx)
    <3>1. PICK a \in Fillable(tx) : Include(tx, a)
              /\ IF tx.nonce = 0 THEN UNCHANGED <<spent, position>>
                                 ELSE spent' = tx.nonce /\ position' = position + a
      BY <2>1 DEF MineTrade
    <3>2. position \in Int
      BY DEF TInv, ChainOK
    <3> QED BY <3>1, <3>2
  <2>2. CASE MineBraked(tx) \/ MineVoid(tx)
    BY <2>2 DEF MineBraked, MineVoid
  <2> QED BY <1>1, <2>1, <2>2
<1> DEFINE r == [order |-> tx.order, kind |-> tx.kind, nonce |-> tx.nonce, amount |-> a]
<1>6. mempool' = {} /\ mined' = mined \cup {r}
  BY <1>1, <1>5 DEF Include, HInv, OwnOnly
<1>7. r.order = order.no /\ r.kind = tx.kind /\ r.amount = a
  BY DEF HInv, OwnOnly
<1> HIDE DEF r
<1>8. OwnMined' = {r}
  BY <1>2, <1>4, <1>6, <1>7 DEF OwnMined
<1>9. Quiet'
  BY <1>2, <1>6, <1>7 DEF HInv, Quiet
<1>10. Held'
  BY <1>2, <1>3, <1>4, <1>5, <1>6, <1>7, <1>8 DEF HInv, Held, Unsent, Planning
<1>11. OwnOnly' /\ Untouched'
  BY <1>2, <1>3, <1>6 DEF OwnOnly, Untouched
<1> QED BY <1>3, <1>4, <1>6, <1>9, <1>10, <1>11 DEF HInv

LEMMA NextHInv == Undisturbed /\ TInv /\ AInv /\ NoDust /\ HInv /\ [Next]_vars => HInv'
<1> SUFFICES ASSUME Undisturbed, TInv, AInv, NoDust, HInv, [Next]_vars PROVE HInv'
  OBVIOUS
<1>1. CASE CalmTurn
  BY <1>1, LoopHolds, RegisterHolds, NumberHolds, SendHolds, ReadBeforeHolds, SettleHolds DEF CalmTurn
<1>2. CASE Block \/ Cancel \/ Mine
  BY <1>2, BlockHolds, CancelHolds, MineHolds
<1>3. CASE \E o \in Orders : PollReturns(o)
  BY <1>3, PollHolds
<1>4. CASE BuyOrSell \/ Pause \/ Add \/ Cut
  BY <1>4, SameHolds DEF BuyOrSell, Pause, Add, Cut, Command
<1>5. CASE UNCHANGED vars
  BY <1>5, SameHolds DEF vars
<1> QED BY <1>1, <1>2, <1>3, <1>4, <1>5, UndisturbedStep DEF CalmMeanwhile

----------------------------------------------------------------------------
(* What the chain makes of an order, if anything, is on the order's side.  *)
Along(n) == IF order.amount < 0 THEN n < 0 ELSE n > 0

SInv ==
  /\ pc \in {"before", "wait"} =>
       \A tx \in mempool : tx.kind = "direct" => tx.amount = order.amount
  /\ pc \in {"wait", "settle"} => position = actual \/ Along(position - actual)
  /\ pc = "filled" => Along(order.delta)

LEMMA InitSInv == Init => SInv
BY DEF Init, SInv

LEMMA ElsewhereSides ==
  ASSUME pc' \in Unsent
  PROVE  SInv'
BY DEF SInv, Unsent, Planning

LEMMA SendSides ==
  ASSUME Calm, TInv, HInv, SInv, Send \/ ReadBefore
  PROVE  SInv'
<1>1. CASE Send
  <2>1. pc' = "before" /\ order' = order /\ mempool' = {Transaction("direct")}
    BY <1>1, SendHolds, CalmIsUndisturbed DEF Send
  <2> QED BY <2>1 DEF SInv, Transaction
<1>2. CASE ReadBefore
  <2>1. /\ pc = "before" /\ pc' = "wait" /\ UNCHANGED <<mempool, position, actual, order.amount>>
    BY <1>2 DEF ReadBefore, TInv, CommitOK, OrderRecords
  <2> QED BY <2>1 DEF SInv, HInv, Held
<1> QED BY <1>1, <1>2

LEMMA SettleFilledSides ==
  ASSUME TInv, HInv, SInv, SettleFilled
  PROVE  SInv'
<1>1. /\ pc = "settle" /\ pc' = "filled" /\ MovedBy # 0
      /\ order'.delta = MovedBy /\ order'.amount = order.amount
  BY DEF SettleFilled, TInv, CommitOK, OrderRecords
<1>2. MovedBy = position - actual /\ position \in Int /\ actual \in Int
  BY <1>1 DEF MovedBy, HInv, Held, TInv, ChainOK, GridOK
<1> QED BY <1>1, <1>2 DEF SInv, Along

LEMMA BesideSides ==
  ASSUME SInv, UNCHANGED <<pc, order, position, actual>>,
         \A tx \in mempool' : \/ tx.kind = "cancel"
                              \/ \E t \in mempool : tx.kind = t.kind /\ tx.amount = t.amount
  PROVE  SInv'
BY DEF SInv, Along

LEMMA BlockAges ==
  ASSUME TInv, Block
  PROVE  \A u \in mempool' : \E t \in mempool : u.kind = t.kind /\ u.amount = t.amount
<1>1. ASSUME NEW t \in mempool,
             NEW u, u = [t EXCEPT !.ttl = IF @ < 0 THEN @ ELSE @ - 1]
      PROVE  u.kind = t.kind /\ u.amount = t.amount
  BY <1>1 DEF TInv, ChainOK, Txs
<1> QED BY <1>1 DEF Block

LEMMA MineSides ==
  ASSUME Calm, TInv, AInv, HInv, SInv, Mine
  PROVE  SInv'
<1>1. UNCHANGED <<actual, order, pc>>
  BY DEF Mine
<1>2. pc = "wait" /\ mempool' = {} /\ OwnMined = {}
  BY MineHolds, CalmIsUndisturbed
<1>3. position = actual /\ position \in Int
  BY <1>2 DEF HInv, Held, TInv, ChainOK
<1>4. PICK tx \in mempool : MineTrade(tx) \/ MineBraked(tx) \/ MineVoid(tx)
  BY DEF Mine
<1>5. position' = position \/ Along(position' - position)
  <2>1. CASE MineTrade(tx) /\ position' # position
    <3>1. PICK a \in Fillable(tx) : position' = position + a
      BY <2>1 DEF MineTrade
    <3>2. tx.kind = "direct"
      BY <2>1 DEF MineTrade, Live, HInv, Quiet
    <3>3. tx.amount = order.amount /\ order.amount \in Int
      BY <1>2, <3>2 DEF SInv, TInv, CommitOK, OrderRecords
    <3>4. a \in Int /\ a # 0
      BY <1>3, <2>1, <3>1, <3>3 DEF Fillable
    <3>5. Along(a)
      BY <3>3, <3>4 DEF Fillable, Along, Gap
    <3> QED BY <1>3, <3>1, <3>4, <3>5 DEF Along
  <2>2. CASE MineBraked(tx) \/ MineVoid(tx)
    BY <2>2 DEF MineBraked, MineVoid
  <2> QED BY <1>4, <2>1, <2>2
<1>6. Along(position' - position) => Along(position - actual)'
  BY <1>1, <1>3 DEF Along
<1> QED BY <1>1, <1>2, <1>3, <1>5, <1>6 DEF SInv

LEMMA PollSides ==
  ASSUME TInv, SInv, NEW o \in Orders, PollReturns(o)
  PROVE  SInv'
<1>1. UNCHANGED <<position, actual, mempool>>
  BY DEF PollReturns
<1>2. \/ UNCHANGED <<pc, order>>
      \/ pc = "wait" /\ pc' = "settle" /\ order'.amount = order.amount
  BY DEF PollReturns, TInv, CommitOK, OrderRecords
<1> QED BY <1>1, <1>2 DEF SInv, Along

(* All other steps of a turn are taken before or after.                    *)
LEMMA TurnPlans ==
  ASSUME TInv, CalmTurn
  PROVE  Send \/ ReadBefore \/ SettleFilled \/ pc' \in Unsent
<1>1. attempt.path \in Paths
  BY DEF TInv, LoopOK, Attempts
<1>2. CASE FoundPath \/ NoPath \/ ResetInTryPaths \/ \E p \in Paths : SkipPath(p) \/ LoopPath(p)
  BY <1>1, <1>2, TryPathsPlans DEF FoundPath, NoPath, ResetInTryPaths, SkipPath, LoopPath,
     Leave, Throw, Offer, Unsent, Planning
<1>3. CASE \/ BeginTurn \/ TopUpThrows \/ PickNone \/ PickFirst \/ InputFails
           \/ Decline \/ Register \/ Prepare \/ Number
           \/ SettleForked \/ SettleBraked \/ BookFill \/ EndTurn
  BY <1>3 DEF BeginTurn, TopUpThrows, Throw, PickNone, PickFirst, InputFails, Decline, Register, Prepare, Number,
     SettleForked, SettleBraked, BookFill, EndTurn, Unsent, Planning
<1> QED BY <1>2, <1>3 DEF CalmTurn

LEMMA NextSInv == Calm /\ TInv /\ AInv /\ HInv /\ SInv /\ [Next]_vars => SInv'
<1> SUFFICES ASSUME Calm, TInv, AInv, HInv, SInv, [Next]_vars PROVE SInv'
  OBVIOUS
<1>1. CASE Send \/ ReadBefore \/ SettleFilled
  BY <1>1, SendSides, SettleFilledSides
<1>2. CASE CalmTurn /\ pc' \in Unsent
  BY <1>2, ElsewhereSides
<1>3. CASE Mine
  BY <1>3, MineSides
<1>4. CASE Block
  BY <1>4, BlockAges, BesideSides DEF Block
<1>5. CASE Cancel
  BY <1>5, CancelHolds, BesideSides DEF Cancel
<1>6. CASE \E o \in Orders : PollReturns(o)
  BY <1>6, PollSides
<1>7. CASE BuyOrSell \/ Pause \/ UNCHANGED vars
  BY <1>7, BesideSides DEF BuyOrSell, Pause, Command, vars
<1> QED BY <1>1, <1>2, <1>3, <1>4, <1>5, <1>6, <1>7, CalmStep, TurnPlans DEF CalmMeanwhile

----------------------------------------------------------------------------
(* Orders that fill whole or not at all, apart from a calm chain.          *)
WholeFills ==
  /\ "partial" \notin Faults
  /\ "short" \in Faults => UnitNotional = 1

(* An order, or a candidate for one, takes the position from the target to *)
(* where the plan wants it.                                                *)
Fits(o) ==
  /\ o.target = Net(plan) /\ o.diff = o.target - target /\ o.diff # 0
  /\ o.amount = o.diff * UnitNotional

Ordering == {"input", "prepare", "number", "send", "before", "wait", "settle"}

(* From the first look for a route to the receipt the plan is the one that *)
(* the order was made for, and there is one order for it.                  *)
PlanFits ==
  /\ pc # "reset"
  /\ pc = "find" => Fits(attempt) /\ (Buys(attempt.path) <=> attempt.diff > 0)
  /\ pc \in {"top", "sell", "find"} => cands = <<>>
  /\ pc \in {"buy", "pick"} /\ cands # <<>> => Fits(cands[1])
  /\ pc = "buy" /\ cands # <<>> => cands[1].diff < 0
  /\ pc \in Ordering => Fits(order)

OnTarget ==
  /\ target = Net(confirm)
  /\ pc # "filled" => actual = target * UnitNotional
  /\ pc \in {"wait", "settle"} => position \in {actual, order.target * UnitNotional}
  /\ pc = "filled" => position = target * UnitNotional

FInv == PlanFits /\ OnTarget

LEMMA InitFInv == Init => FInv
<1> SUFFICES ASSUME Init PROVE FInv
  OBVIOUS
<1>1. PlanFits
  BY DEF Init, PlanFits, Ordering
<1>2. 0 = 0 * UnitNotional /\ Net(Flat) = 0
  BY UnitIsPositive DEF Net, Flat
<1>3. OnTarget
  BY <1>2 DEF Init, OnTarget
<1> QED BY <1>1, <1>3 DEF FInv

----------------------------------------------------------------------------
LEMMA ProductSign ==
  ASSUME NEW n \in Int, NEW u \in Int, u > 0
  PROVE  /\ n * u \in Int
         /\ (n * u > 0 <=> n > 0) /\ (n * u < 0 <=> n < 0)
         /\ (n = 0 => n * u = 0)
<1>1. CASE n > 0
  BY <1>1
<1>2. CASE n < 0
  BY <1>2
<1>3. CASE n = 0
  BY <1>3
<1> QED BY <1>1, <1>2, <1>3

(* On target, what is needed is the step in units: nothing to top up, and  *)
(* never against the side of the path.                                     *)
LEMMA NeedIsStep ==
  ASSUME TInv, actual = target * UnitNotional, NEW goal \in Int
  PROVE  /\ Step(goal) \in Int /\ Need(goal) \in Int
         /\ Need(goal) = Step(goal) * UnitNotional
         /\ (Need(goal) > 0 <=> Step(goal) > 0) /\ (Need(goal) < 0 <=> Step(goal) < 0)
         /\ (Step(goal) = 0 => Level(goal))
<1>1. target \in Int
  BY DEF TInv, GridOK
<1>2. Step(goal) \in Int
  BY <1>1 DEF Step
<1>3. Need(goal) = (goal - target) * UnitNotional
  BY <1>1, UnitIsPositive DEF Need
<1>4. Need(goal) = Step(goal) * UnitNotional
  BY <1>3 DEF Step
<1>5. /\ Step(goal) * UnitNotional \in Int
      /\ (Step(goal) * UnitNotional > 0 <=> Step(goal) > 0)
      /\ (Step(goal) * UnitNotional < 0 <=> Step(goal) < 0)
      /\ (Step(goal) = 0 => Step(goal) * UnitNotional = 0)
  BY <1>2, UnitIsPositive, ProductSign
<1>6. Step(goal) = 0 => Level(goal)
  <2> SUFFICES ASSUME Step(goal) = 0 PROVE Level(goal)
    OBVIOUS
  <2>1. Need(goal) = 0
    BY <1>4, <1>5
  <2> QED BY <2>1, UnitIsPositive DEF Level, Gap
<1> QED BY <1>2, <1>4, <1>5, <1>6

LEMMA AskedIsPosition ==
  ASSUME TInv, NEW way \in Ways, NEW from \in Position
  PROVE  Asked(way, from) \in Position /\ Net(Asked(way, from)) \in Int
<1>1. Asked(way, from) \in Position
  BY OneNotionalIsPosition DEF TInv, GridOK, Asked
<1> QED BY <1>1, NetIsInt

(* tryPaths, on target and with no candidate yet, looks for a route for an *)
(* order of its path's side, or has nothing to look for.                   *)
LEMMA TryPathsFits ==
  ASSUME TInv, actual = target * UnitNotional, cands = <<>>, target' = target,
         NEW p \in Paths, NEW way \in Ways, NEW from \in Position, TryPaths(p, way, from)
  PROVE  /\ pc' \in {"buy", "pick", "find"} /\ cands' = <<>>
         /\ pc' = "find" => Fits(attempt)' /\ (Buys(attempt'.path) <=> attempt'.diff > 0)
<1> DEFINE goal == Net(Asked(way, from))
<1>1. plan' = Asked(way, from) /\ goal \in Int
  BY AskedIsPosition DEF TryPaths
<1>2. /\ Step(goal) \in Int /\ Need(goal) \in Int
      /\ Need(goal) = Step(goal) * UnitNotional
      /\ (Need(goal) > 0 <=> Step(goal) > 0) /\ (Need(goal) < 0 <=> Step(goal) < 0)
      /\ (Step(goal) = 0 => Level(goal))
  BY <1>1, NeedIsStep
<1>3. ~Raises(p, goal) /\ ~Resets(p, goal)
  <2>1. ~TopsUp(goal)
    BY <1>2 DEF TopsUp
  <2>2. ~(Belongs(p, Step(goal)) /\ Contrary(p, Need(goal)))
    BY <1>2 DEF Belongs, Contrary
  <2> QED BY <2>1, <2>2 DEF Raises, Resets
<1>4. CASE Passes(p, goal) /\ Leave(p)
  BY <1>4 DEF Leave
<1>5. CASE /\ ~Passes(p, goal) /\ pc' = "find" /\ cands' = cands
           /\ attempt' = [path |-> p, way |-> way, target |-> goal, diff |-> Step(goal),
                          amount |-> IF Buys(p) THEN Gap(Need(goal)) ELSE -Gap(Need(goal))]
  <2>1. Step(goal) # 0 /\ Belongs(p, Step(goal))
    BY <1>2, <1>5 DEF Passes, Turns
  <2>2. Buys(p) <=> Step(goal) > 0
    BY <1>2, <2>1 DEF Belongs
  <2>3. (IF Buys(p) THEN Gap(Need(goal)) ELSE -Gap(Need(goal))) = Need(goal)
    BY <1>2, <2>1, <2>2 DEF Gap
  <2>4. goal = Net(plan') /\ Step(goal) = goal - target'
    BY <1>1 DEF Step
  <2> HIDE DEF goal
  <2>5. /\ attempt'.target = Net(plan') /\ attempt'.diff = attempt'.target - target'
        /\ attempt'.diff = Step(goal) /\ attempt'.amount = Step(goal) * UnitNotional
        /\ attempt'.path = p
    BY <1>2, <1>5, <2>3, <2>4
  <2> QED BY <1>5, <2>1, <2>2, <2>5 DEF Fits, Net
<1>6. \/ Passes(p, goal) /\ Leave(p)
      \/ /\ ~Passes(p, goal) /\ pc' = "find" /\ cands' = cands
         /\ attempt' = [path |-> p, way |-> way, target |-> goal, diff |-> Step(goal),
                        amount |-> IF Buys(p) THEN Gap(Need(goal)) ELSE -Gap(Need(goal))]
  BY <1>3 DEF TryPaths
<1> QED BY <1>4, <1>5, <1>6

(* The buy path passes over a plan that sells.                             *)
LEMMA BuyPassesSale ==
  ASSUME TInv, actual = target * UnitNotional, target' = target,
         cands # <<>>, Fits(cands[1]), cands[1].diff < 0, TryPaths("buy", "whole", plan)
  PROVE  plan' = plan /\ pc' = "pick" /\ cands' = cands
<1> DEFINE goal == Net(plan)
<1>1. Asked("whole", plan) = plan /\ goal \in Int
  BY NetIsInt DEF Asked, TInv, GridOK
<1>2. Step(goal) < 0 /\ Step(goal) \in Int
  BY <1>1 DEF Fits, Step, TInv, GridOK
<1>3. ~Belongs("buy", Step(goal))
  BY <1>2 DEF Belongs, Buys
<1>4. Passes("buy", goal) /\ ~Raises("buy", goal) /\ ~Resets("buy", goal)
  BY <1>2, <1>3 DEF Passes, Raises, Resets, Pending, Turns, TopsUp
<1> QED BY <1>1, <1>4 DEF TryPaths, Leave

(* What a balance leaves of an order that is not tried again is all of it. *)
LEMMA VolumeIsWhole ==
  ASSUME WholeFills, TInv, Fits(attempt), NEW v \in Volumes(attempt.amount),
         ~(v # attempt.amount /\ Gap(attempt.diff) > 1)
  PROVE  v = attempt.amount
<1>1. attempt.amount \in Int /\ attempt.diff \in Int
  BY DEF TInv, LoopOK, Attempts
<1>2. CASE v # attempt.amount
  <2>1. "short" \in Faults /\ v # 0 /\ (v > 0) = (attempt.amount > 0)
    BY <1>2 DEF Volumes
  <2>2. UnitNotional = 1
    BY <2>1 DEF WholeFills
  <2>3. attempt.amount = attempt.diff
    BY <1>1, <2>2 DEF Fits
  <2>4. attempt.diff \in {-1, 1}
    BY <1>1, <1>2 DEF Fits, Gap
  <2>5. v \in -1..1
    BY <2>3, <2>4 DEF Volumes, Gap
  <2> QED BY <2>1, <2>3, <2>4, <2>5
<1> QED BY <1>2

----------------------------------------------------------------------------
LEMMA TargetStays ==
  ASSUME OnTarget, pc # "filled", pc' \in Unsent, UNCHANGED <<target, confirm, actual>>
  PROVE  OnTarget'
BY DEF OnTarget, Unsent, Planning

LEMMA UpdatedPlan ==
  ASSUME TInv, NEW s \in Spreads
  PROVE  UpdatePosition(confirm, s.on, s.off) \in Position
BY UpdateIsPosition, CycleConstants DEF TInv, GridOK

LEMMA LoopFits ==
  ASSUME TInv, HInv, FInv, NEW p \in Paths, SkipPath(p) \/ LoopPath(p)
  PROVE  FInv'
<1>1. pc = p /\ UNCHANGED <<target, confirm, actual>> /\ actual = target * UnitNotional
  BY DEF SkipPath, LoopPath, FInv, OnTarget, Paths
<1>2. pc' \in Planning
  BY TryPathsPlans DEF SkipPath, LoopPath, Leave, Planning
<1>3. OnTarget'
  BY <1>1, <1>2, TargetStays DEF FInv, Unsent, Paths
<1>4. CASE SkipPath(p)
  BY <1>1, <1>3, <1>4 DEF SkipPath, Leave, FInv, PlanFits, Fits, Net, Ordering, Paths
<1>5. ASSUME cands = <<>>, NEW from \in Position, TryPaths(p, "whole", from)
      PROVE  PlanFits'
  BY <1>1, <1>5, TryPathsFits, ThreeWays DEF PlanFits, Ordering
<1>6. CASE LoopPath("sell") /\ p = "sell"
  <2>1. cands = <<>>
    BY <1>1, <1>6 DEF FInv, PlanFits
  <2>2. \E from \in Position : TryPaths(p, "whole", from)
    <3>1. plan \in Position
      BY DEF TInv, GridOK
    <3> QED BY <1>6, <3>1, UpdatedPlan DEF LoopPath
  <2> QED BY <1>3, <1>5, <2>1, <2>2 DEF FInv
<1>7. CASE LoopPath("buy") /\ p = "buy"
  <2>1. TryPaths(p, "whole", plan) /\ plan \in Position
    BY <1>7 DEF LoopPath, TInv, GridOK
  <2>2. CASE cands = <<>>
    BY <1>3, <1>5, <2>1, <2>2 DEF FInv
  <2>3. CASE cands # <<>>
    <3>1. Fits(cands[1]) /\ cands[1].diff < 0
      BY <1>1, <1>7, <2>3 DEF FInv, PlanFits
    <3>2. plan' = plan /\ pc' = "pick" /\ cands' = cands
      BY <1>1, <1>7, <2>1, <2>3, <3>1, BuyPassesSale
    <3>3. Fits(cands[1])'
      BY <1>1, <3>1, <3>2 DEF Fits
    <3> QED BY <1>3, <3>2, <3>3 DEF FInv, PlanFits, Ordering
  <2> QED BY <2>2, <2>3
<1>8. p = "sell" \/ p = "buy"
  BY DEF Paths
<1> QED BY <1>3, <1>4, <1>6, <1>7, <1>8 DEF FInv

LEMMA FoundFits ==
  ASSUME WholeFills, TInv, HInv, FInv, FoundPath
  PROVE  FInv'
<1>1. /\ pc = "find" /\ UNCHANGED <<target, confirm, actual>> /\ actual = target * UnitNotional
      /\ cands = <<>> /\ Fits(attempt) /\ (Buys(attempt.path) <=> attempt.diff > 0)
  BY DEF FoundPath, FInv, OnTarget, PlanFits
<1>2. attempt \in Attempts /\ attempt.path \in Paths /\ plan \in Position
  BY DEF TInv, LoopOK, GridOK, Attempts
<1>3. PICK v \in Volumes(attempt.amount) :
        LET again == v # attempt.amount /\ Gap(attempt.diff) > 1
        IN  \/ diff # 0 /\ Leave(attempt.path) /\ UNCHANGED plan
            \/ diff = 0 /\ again /\ TryPaths(attempt.path, "blind", plan)
            \/ diff = 0 /\ ~again /\ Offer(attempt, v) /\ UNCHANGED plan
  BY DEF FoundPath
<1>4. CASE Leave(attempt.path)
  BY <1>1, <1>2, <1>4, TargetStays DEF Leave, FInv, PlanFits, Ordering, Unsent, Planning
<1>5. CASE TryPaths(attempt.path, "blind", plan)
  BY <1>1, <1>2, <1>5, TryPathsFits, TargetStays, ThreeWays DEF FInv, PlanFits, Ordering, Unsent, Planning
<1>6. CASE ~(v # attempt.amount /\ Gap(attempt.diff) > 1) /\ Offer(attempt, v) /\ UNCHANGED plan
  <2> DEFINE cand == [target |-> attempt.target, diff |-> attempt.diff, amount |-> v]
  <2>1. v = attempt.amount
    BY <1>1, <1>6, VolumeIsWhole
  <2>2. cand.target = attempt.target /\ cand.diff = attempt.diff /\ cand.amount = attempt.amount
    BY <2>1
  <2>3. cands' = Append(cands, cand) /\ pc' = IF attempt.path = "sell" THEN "buy" ELSE "pick"
    BY <1>1, <1>6 DEF Offer
  <2> HIDE DEF cand
  <2>4. cands' = <<cand>> /\ cands'[1] = cand
    BY <1>1, <2>3
  <2>5. Fits(cands[1])'
    BY <1>1, <1>6, <2>2, <2>4 DEF Fits
  <2>6. pc' = "buy" => cand.diff < 0
    BY <1>1, <1>2, <2>2, <2>3 DEF Buys, Fits, Paths, Attempts
  <2>7. PlanFits'
    BY <2>3, <2>4, <2>5, <2>6 DEF PlanFits, Ordering
  <2>8. OnTarget'
    BY <1>1, <2>3, TargetStays DEF FInv, Unsent, Planning
  <2> QED BY <2>7, <2>8 DEF FInv
<1> QED BY <1>3, <1>4, <1>5, <1>6

LEMMA NoPathFits ==
  ASSUME Calm, TInv, HInv, FInv, NoPath
  PROVE  FInv'
<1>1. /\ pc = "find" /\ UNCHANGED <<target, confirm, actual>> /\ actual = target * UnitNotional
      /\ cands = <<>>
  BY DEF NoPath, FInv, OnTarget, PlanFits
<1>2. attempt.path \in Paths /\ plan \in Position /\ confirm \in Position
  BY DEF TInv, LoopOK, GridOK, Attempts
<1>3. PICK from \in PlansFound : \/ TryPaths(attempt.path, "one", from)
                                 \/ Leave(attempt.path)
  BY CalmFaults, CalmIsUndisturbed DEF NoPath
<1>4. from \in Position
  BY <1>2 DEF PlansFound
<1>5. CASE TryPaths(attempt.path, "one", from)
  BY <1>1, <1>2, <1>4, <1>5, TryPathsFits, TargetStays, ThreeWays DEF FInv, PlanFits, Ordering, Unsent, Planning
<1>6. CASE Leave(attempt.path)
  BY <1>1, <1>2, <1>6, TargetStays DEF Leave, FInv, PlanFits, Ordering, Unsent, Planning
<1> QED BY <1>3, <1>5, <1>6

(* The turn's other steps, and those that leave the order what it is.      *)
LEMMA TurnFits ==
  ASSUME TInv, HInv, FInv,
         \/ BeginTurn \/ TopUpThrows \/ ResetInTryPaths \/ PickNone \/ PickFirst
         \/ (InputFails /\ "rpc" \notin Faults) \/ Decline \/ Register
         \/ Prepare \/ Number \/ EndTurn
  PROVE  FInv'
<1>1. ~ResetInTryPaths /\ ~TopUpThrows /\ ~(InputFails /\ "rpc" \notin Faults)
  BY DEF FInv, PlanFits, Fits, Ordering, Divides, ResetInTryPaths, TopUpThrows, InputFails
<1>2. UNCHANGED <<plan, target, confirm, actual>> /\ pc # "filled" /\ pc' \in Unsent
  BY <1>1 DEF BeginTurn, PickNone, PickFirst, Decline, Register, Prepare, Number, EndTurn,
     Unsent, Planning
<1>3. OnTarget'
  BY <1>2, TargetStays DEF FInv
<1>4. CASE BeginTurn \/ PickNone \/ Decline \/ EndTurn
  BY <1>3, <1>4 DEF BeginTurn, PickNone, Decline, EndTurn, FInv, PlanFits, Ordering
<1>5. CASE PickFirst
  <2>1. Fits(cands[1]) /\ pc' = "input"
    BY <1>5 DEF PickFirst, FInv, PlanFits
  <2>2. /\ order'.target = cands[1].target /\ order'.diff = cands[1].diff
        /\ order'.amount = cands[1].amount
    BY <1>5 DEF PickFirst, NoOrder
  <2> QED BY <1>2, <1>3, <2>1, <2>2 DEF FInv, PlanFits, Fits, Net, Ordering
<1>6. CASE Register \/ Prepare \/ Number
  <2>1. Fits(order) /\ pc' \in {"prepare", "number", "send"}
    BY <1>6 DEF Register, Prepare, Number, FInv, PlanFits, Ordering
  <2>2. UNCHANGED <<order.target, order.diff, order.amount>>
    BY <1>6 DEF Register, Prepare, Number, TInv, CommitOK, OrderRecords
  <2> QED BY <1>2, <1>3, <2>1, <2>2 DEF FInv, PlanFits, Fits, Net, Ordering
<1> QED BY <1>1, <1>3, <1>4, <1>5, <1>6 DEF FInv

LEMMA SendFits ==
  ASSUME Calm, TInv, HInv, FInv, Send \/ ReadBefore
  PROVE  FInv'
<1>1. UNCHANGED <<plan, target, confirm, actual, position, order.target, order.diff, order.amount>>
  BY DEF Send, ReadBefore, TInv, CommitOK, OrderRecords
<1>2. pc \in Ordering /\ pc' \in {"before", "wait"} /\ pc # "filled"
  BY DEF Send, ReadBefore, Ordering
<1>3. PlanFits'
  BY <1>1, <1>2 DEF FInv, PlanFits, Fits, Ordering
<1>4. pc' = "wait" => position' = actual'
  BY <1>1 DEF Send, ReadBefore, HInv, Held
<1>5. OnTarget'
  BY <1>1, <1>2, <1>4 DEF FInv, OnTarget
<1> QED BY <1>3, <1>5 DEF FInv

LEMMA SettleFits ==
  ASSUME TInv, NoDust, HInv, FInv, SettleForked \/ SettleBraked \/ SettleFilled \/ BookFill
  PROVE  FInv'
<1>1. position \in Int /\ actual \in Int /\ order.before \in Int /\ order.delta \in Int
  BY DEF TInv, ChainOK, GridOK, CommitOK, OrderRecords
<1>2. CASE SettleForked \/ SettleBraked
  BY <1>2, TargetStays DEF SettleForked, SettleBraked, FInv, PlanFits, Ordering, Unsent, Planning
<1>3. CASE SettleFilled
  <2>1. /\ pc = "settle" /\ pc' = "filled" /\ confirm' = plan /\ target' = order.target
        /\ position' = position /\ position # order.before
    BY <1>1, <1>3 DEF SettleFilled, MovedBy
  <2>2. order.target = Net(plan) /\ position = order.target * UnitNotional
    BY <2>1 DEF FInv, PlanFits, OnTarget, Fits, Ordering, HInv, Held
  <2>3. OnTarget'
    BY <2>1, <2>2 DEF OnTarget
  <2> QED BY <2>1, <2>3 DEF FInv, PlanFits, Ordering
<1>4. CASE BookFill
  <2>1. /\ pc = "filled" /\ pc' = "tail" /\ actual' = actual + order.delta
        /\ UNCHANGED <<target, confirm, position>>
    BY <1>1, <1>4 DEF BookFill, NoDust
  <2>2. actual' = target * UnitNotional
    BY <2>1 DEF FInv, OnTarget, HInv, Held
  <2> QED BY <2>1, <2>2 DEF FInv, PlanFits, OnTarget, Ordering
<1> QED BY <1>2, <1>3, <1>4

(* The trade that a block makes of the order is the whole of it.           *)
LEMMA MineFits ==
  ASSUME Calm, WholeFills, TInv, HInv, SInv, FInv, Mine
  PROVE  FInv'
<1>1. UNCHANGED <<plan, target, confirm, actual, cands, attempt, order, pc>>
  BY DEF Mine
<1>2. pc = "wait" /\ mempool' = {} /\ OwnMined = {}
  BY MineHolds, CalmIsUndisturbed
<1>3. position = actual /\ actual = target * UnitNotional /\ Fits(order)
  BY <1>2 DEF HInv, Held, FInv, OnTarget, PlanFits, Ordering
<1>4. PICK tx \in mempool : MineTrade(tx) \/ MineBraked(tx) \/ MineVoid(tx)
  BY DEF Mine
<1>5. position' = position \/ position' = order.target * UnitNotional
  <2>1. CASE MineTrade(tx) /\ position' # position
    <3>1. PICK a \in Fillable(tx) : position' = position + a
      BY <2>1 DEF MineTrade
    <3>2. tx.kind = "direct"
      BY <2>1 DEF MineTrade, Live, HInv, Quiet
    <3>3. a = order.amount
      BY <1>2, <3>2 DEF Fillable, WholeFills, SInv
    <3>4. target \in Int /\ order.target \in Int /\ order.diff \in Int
      BY DEF TInv, GridOK, CommitOK, OrderRecords
    <3>5. target * UnitNotional + (order.target - target) * UnitNotional = order.target * UnitNotional
      BY <3>4, UnitIsPositive
    <3> QED BY <1>3, <3>1, <3>3, <3>5 DEF Fits
  <2>2. CASE MineBraked(tx) \/ MineVoid(tx)
    BY <2>2 DEF MineBraked, MineVoid
  <2> QED BY <1>4, <2>1, <2>2
<1>6. OnTarget'
  BY <1>1, <1>2, <1>3, <1>5 DEF FInv, OnTarget
<1> QED BY <1>1, <1>6 DEF FInv, PlanFits, Fits

LEMMA BesideFits ==
  ASSUME FInv,
         UNCHANGED <<plan, target, confirm, actual, position, cands, attempt, order, pc>>
  PROVE  FInv'
BY DEF FInv, PlanFits, OnTarget, Fits

LEMMA PollFits ==
  ASSUME TInv, FInv, NEW o \in Orders, PollReturns(o)
  PROVE  FInv'
<1>1. UNCHANGED <<plan, target, confirm, actual, position, cands, attempt>>
  BY DEF PollReturns
<1>2. CASE UNCHANGED <<pc, order>>
  BY <1>1, <1>2, BesideFits
<1>3. CASE pc = "wait" /\ pc' = "settle" /\ \E t : order' = [order EXCEPT !.traded = t]
  <2>1. UNCHANGED <<order.target, order.diff, order.amount>>
    BY <1>3 DEF TInv, CommitOK, OrderRecords
  <2> QED BY <1>1, <1>3, <2>1 DEF FInv, PlanFits, OnTarget, Fits, Ordering
<1>4. \/ UNCHANGED <<pc, order>>
      \/ pc = "wait" /\ pc' = "settle" /\ \E t : order' = [order EXCEPT !.traded = t]
  BY DEF PollReturns
<1> QED BY <1>2, <1>3, <1>4

LEMMA NextFInv == Calm /\ WholeFills /\ TInv /\ NoDust /\ HInv /\ SInv /\ FInv /\ [Next]_vars
                      => FInv'
<1> SUFFICES ASSUME Calm, WholeFills, TInv, NoDust, HInv, SInv, FInv, [Next]_vars PROVE FInv'
  OBVIOUS
<1>1. CASE CalmTurn
  BY <1>1, CalmFaults, CalmIsUndisturbed, LoopFits, FoundFits, NoPathFits, TurnFits, SendFits, SettleFits
     DEF CalmTurn
<1>2. CASE Block \/ Cancel
  BY <1>2, BesideFits DEF Block, Cancel
<1>3. CASE Mine
  BY <1>3, MineFits
<1>4. CASE \E o \in Orders : PollReturns(o)
  BY <1>4, PollFits
<1>5. CASE BuyOrSell \/ Pause
  BY <1>5, BesideFits DEF BuyOrSell, Pause, Command
<1>6. CASE UNCHANGED vars
  BY <1>6, BesideFits DEF vars
<1> QED BY <1>1, <1>2, <1>3, <1>4, <1>5, <1>6, CalmStep DEF CalmMeanwhile

----------------------------------------------------------------------------
(* Orders that fill whole leave whole notionals on the books.              *)
Notionals == \E n \in Int : actual = n * UnitNotional

LEMMA NextNotionals ==
  ASSUME Calm, TInv, HInv, Notionals, TInv', FInv', [Next]_vars
  PROVE  Notionals'
<1>1. CASE pc' # "filled"
  BY <1>1 DEF FInv, OnTarget, TInv, GridOK, Notionals
<1>2. CASE pc' = "filled"
  <2>1. ASSUME CalmTurn PROVE UNCHANGED actual
    <3>1. pc' \notin Unsent
      BY <1>2 DEF Unsent, Planning
    <3> QED BY <2>1, <3>1, TurnPlans DEF Send, ReadBefore, SettleFilled
  <2>2. ASSUME CalmMeanwhile PROVE UNCHANGED actual
    BY <2>2 DEF CalmMeanwhile, Block, Cancel, Mine, PollReturns, BuyOrSell, Pause, Command
  <2>3. UNCHANGED actual
    BY <2>1, <2>2, CalmStep DEF vars
  <2> QED BY <2>3 DEF Notionals
<1> QED BY <1>1, <1>2

LEMMA NotionalsNoDust ==
  ASSUME TInv, Notionals
  PROVE  NoDust
<1> SUFFICES ASSUME Opens PROVE actual = 0
  BY DEF NoDust
<1>1. PICK n \in Int : actual = n * UnitNotional
  BY DEF Notionals
<1>2. CASE n >= 1
  <2>1. n * UnitNotional >= UnitNotional
    BY <1>2, UnitIsPositive
  <2> QED BY <1>1, <2>1, UnitIsPositive DEF Opens, Gap
<1>3. CASE n <= -1
  <2>1. n * UnitNotional <= -UnitNotional
    BY <1>3, UnitIsPositive
  <2> QED BY <1>1, <2>1, UnitIsPositive DEF Opens, Gap
<1>4. CASE n = 0
  BY <1>1, <1>4, UnitIsPositive
<1> QED BY <1>2, <1>3, <1>4

LEMMA SmallUnitsNoDust ==
  ASSUME UnitNotional <= 100, TInv
  PROVE  NoDust
BY UnitIsPositive DEF NoDust, Opens, Gap, TInv, GridOK

LEMMA WholeInvariance ==
  ASSUME Calm, WholeFills
  PROVE  Spec => [](TInv /\ AInv /\ HInv /\ SInv /\ FInv /\ Notionals)
<1>1. Init => Notionals
  <2>1. 0 = 0 * UnitNotional
    BY UnitIsPositive
  <2> QED BY <2>1 DEF Init, Notionals
<1>2. TInv /\ HInv /\ Notionals /\ TInv' /\ FInv' /\ [Next]_vars => Notionals'
  BY NextNotionals
<1>3. TInv /\ Notionals => NoDust
  BY NotionalsNoDust
<1> QED BY <1>1, <1>2, <1>3, CalmIsUndisturbed, InitTInv, NextTInv, InitAInv, NextAInv, InitHInv, NextHInv,
           InitSInv, NextSInv, InitFInv, NextFInv, PTL DEF Spec

(* Nothing too small to count can be left: it would be less than a unit of *)
(* the amounts, or orders fill whole.                                      *)
Dustless == UnitNotional <= 100 \/ WholeFills

LEMMA CalmInvariance ==
  ASSUME Calm, Dustless
  PROVE  Spec => [](TInv /\ AInv /\ HInv /\ SInv /\ NoDust)
<1>1. CASE UnitNotional <= 100
  <2>1. TInv => NoDust
    BY <1>1, SmallUnitsNoDust
  <2> QED BY <2>1, CalmIsUndisturbed, InitTInv, NextTInv, InitAInv, NextAInv, InitHInv, NextHInv,
             InitSInv, NextSInv, PTL DEF Spec
<1>2. CASE WholeFills
  <2>1. TInv /\ Notionals => NoDust
    BY NotionalsNoDust
  <2> QED BY <1>2, <2>1, WholeInvariance, PTL
<1> QED BY <1>1, <1>2 DEF Dustless

(* Between orders the bot has booked what the contract holds, however much *)
(* of an order was filled, braked, reverted or replaced by a cancel.       *)
BookedIsHeld == pc \in {"top", "sell", "pick"} => actual = position /\ mempool = {}

THEOREM BooksFollowChain == ASSUME Calm, Dustless PROVE Spec => []BookedIsHeld
<1>1. HInv => BookedIsHeld
  BY DEF HInv, Held, OwnOnly, BookedIsHeld, Unsent, Planning
<1> QED BY <1>1, CalmInvariance, PTL

(* The same while the operator adds and removes notionals during orders:   *)
(* the fill then confirms a plan that was not ordered, but what is booked  *)
(* is still what was traded.                                               *)
THEOREM EditsKeepBooks ==
  ASSUME Undisturbed, UnitNotional <= 100
  PROVE  Spec => []BookedIsHeld
<1>1. HInv => BookedIsHeld
  BY DEF HInv, Held, OwnOnly, BookedIsHeld, Unsent, Planning
<1>2. TInv => NoDust
  BY SmallUnitsNoDust
<1> QED BY <1>1, <1>2, InitTInv, NextTInv, InitAInv, NextAInv, InitHInv, NextHInv, PTL DEF Spec

(* Orders that fill whole leave the booked position, the contract's, the   *)
(* target and the confirmed counters in agreement, whichever route was     *)
(* found, shortened, retried, braked, reverted or cancelled before.        *)
THEOREM BooksAreRight == ASSUME Calm, WholeFills PROVE Spec => []BooksAgree
<1>1. HInv /\ FInv => BooksAgree
  BY DEF HInv, Held, FInv, OnTarget, BooksAgree, Unsent, Planning
<1> QED BY <1>1, WholeInvariance, PTL

----------------------------------------------------------------------------
(* A market that shows some spreads and no gain both ways at once.         *)
NoFreeLunch == Spreads # {} /\ \A s \in Spreads : s.on + s.off <= 0

(* The edge of the grid exists: the table has a last row that is reached.  *)
LEMMA EdgeBounds ==
  ASSUME Spreads # {}
  PROVE  Edge \in Nat /\ \A x \in Spreads : Build(x.on) <= Edge /\ Build(x.off) <= Edge
<1> DEFINE S == {x.on : x \in Spreads} \cup {x.off : x \in Spreads}
           B == {Build(s) : s \in S}
           Top(e) == \A x \in Spreads : Build(x.on) <= e /\ Build(x.off) <= e
<1>1. S \subseteq Int /\ S # {}
  BY CycleConstants
<1>2. PICK s \in S : \A r \in S : Build(r) <= Build(s)
  BY <1>1, MostIsBuilt
<1>3. Build(s) \in B /\ Top(Build(s))
  BY <1>2
<1>4. Edge = CHOOSE e \in B : Top(e)
  BY DEF Edge
<1> HIDE DEF B, Top
<1>5. Edge \in B /\ Top(Edge)
  BY <1>3, <1>4
<1>6. Edge \in Nat
  BY <1>1, <1>5, EdgesAreNaturals DEF B
<1> QED BY <1>5, <1>6 DEF Top

OnGrid == Inside(plan, Edge) /\ Inside(confirm, Edge)

LEMMA InitOnGrid == ASSUME NoFreeLunch PROVE Init => OnGrid
BY EdgeBounds DEF NoFreeLunch, Init, OnGrid, Inside, BothSides, Flat, Net, Gap

LEMMA AskedInside ==
  ASSUME NoFreeLunch, TInv, target = Net(confirm), Inside(confirm, Edge),
         NEW way \in Ways, NEW from \in Position, Inside(from, Edge)
  PROVE  Inside(Asked(way, from), Edge)
BY EdgeBounds, OneNotionalStaysInside DEF NoFreeLunch, Asked, TInv, GridOK

LEMMA UpdateInside ==
  ASSUME NoFreeLunch, TInv, Inside(confirm, Edge), NEW s \in Spreads
  PROVE  Inside(UpdatePosition(confirm, s.on, s.off), Edge)
<1>1. s.on \in Int /\ s.off \in Int /\ s.on + s.off <= 0
  BY CycleConstants DEF NoFreeLunch
<1> QED BY <1>1, EdgeBounds, UpdateStaysInside DEF NoFreeLunch, TInv, GridOK

LEMMA LoopOnGrid ==
  ASSUME Calm, NoFreeLunch, TInv, FInv, OnGrid,
         \/ \E p \in Paths : LoopPath(p)
         \/ FoundPath \/ NoPath
  PROVE  OnGrid'
<1>1. confirm' = confirm /\ Inside(confirm, Edge) /\ Inside(plan, Edge) /\ target = Net(confirm)
      /\ plan \in Position /\ confirm \in Position
  BY DEF LoopPath, FoundPath, NoPath, OnGrid, FInv, OnTarget, TInv, GridOK
<1>2. ASSUME NEW p, NEW way \in Ways, NEW from \in Position, Inside(from, Edge),
             TryPaths(p, way, from)
      PROVE  OnGrid'
  BY <1>1, <1>2, AskedInside DEF TryPaths, OnGrid
<1>3. CASE UNCHANGED plan \/ plan' = confirm
  BY <1>1, <1>3 DEF OnGrid
<1>4. CASE \E p \in Paths : LoopPath(p)
  <2>1. PICK p \in Paths : LoopPath(p)
    BY <1>4
  <2>2. CASE TryPaths(p, "whole", plan)
    BY <1>1, <1>2, <2>2, ThreeWays
  <2>3. CASE \E s \in Spreads : TryPaths(p, "whole", UpdatePosition(confirm, s.on, s.off))
    BY <1>1, <1>2, <2>3, UpdatedPlan, UpdateInside, ThreeWays
  <2> QED BY <2>1, <2>2, <2>3 DEF LoopPath
<1>5. CASE FoundPath
  BY <1>1, <1>2, <1>3, <1>5, ThreeWays DEF FoundPath
<1>6. CASE NoPath
  <2>1. \A from \in PlansFound : from \in Position /\ Inside(from, Edge)
    BY <1>1 DEF PlansFound
  <2> QED BY <1>2, <1>3, <1>6, <2>1, ThreeWays, CalmFaults, CalmIsUndisturbed DEF NoPath
<1> QED BY <1>4, <1>5, <1>6

LEMMA NextOnGrid == Calm /\ NoFreeLunch /\ TInv /\ HInv /\ FInv /\ OnGrid /\ [Next]_vars => OnGrid'
<1> SUFFICES ASSUME Calm, NoFreeLunch, TInv, HInv, FInv, OnGrid, [Next]_vars PROVE OnGrid'
  OBVIOUS
<1>1. CASE (\E p \in Paths : LoopPath(p)) \/ FoundPath \/ NoPath
  BY <1>1, LoopOnGrid
<1>2. CASE SettleBraked \/ SettleFilled
  BY <1>2 DEF SettleBraked, SettleFilled, OnGrid
<1>3. ~ResetInTryPaths
  BY DEF FInv, PlanFits, ResetInTryPaths
<1>4. CASE UNCHANGED <<plan, confirm>>
  BY <1>4 DEF OnGrid
<1>5. ASSUME CalmTurn
      PROVE  \/ UNCHANGED <<plan, confirm>> \/ SettleBraked \/ SettleFilled
             \/ (\E p \in Paths : LoopPath(p)) \/ FoundPath \/ NoPath
  BY <1>3, <1>5 DEF CalmTurn, BeginTurn, SkipPath, PickNone, PickFirst, Decline, Register,
     TopUpThrows, InputFails, Prepare, Number, Send, ReadBefore, SettleForked, BookFill, EndTurn
<1>6. ASSUME CalmMeanwhile PROVE UNCHANGED <<plan, confirm>>
  BY <1>6 DEF CalmMeanwhile, Block, Cancel, Mine, PollReturns, BuyOrSell, Pause, Command
<1>7. UNCHANGED vars => UNCHANGED <<plan, confirm>>
  BY DEF vars
<1> QED BY <1>1, <1>2, <1>4, <1>5, <1>6, <1>7, CalmStep

LEMMA GapOfProduct ==
  ASSUME NEW n \in Int, NEW e \in Int, NEW u \in Int, u > 0, Gap(n) <= e
  PROVE  Gap(n * u) <= e * u
<1>1. n <= e /\ -n <= e
  BY DEF Gap
<1>2. n * u <= e * u /\ (-n) * u <= e * u
  BY <1>1
<1>3. (-n) * u = -(n * u) /\ n * u \in Int /\ e * u \in Int
  OBVIOUS
<1> QED BY <1>2, <1>3 DEF Gap

(* The position stays between the edges of the grid, with or without an    *)
(* order under way: no order adds to what an earlier one has brought, and  *)
(* none cut down to one notional overshoots.                               *)
THEOREM GridIsKept == ASSUME Calm, WholeFills, NoFreeLunch PROVE Spec => []WithinGrid
<1>1. ASSUME TInv, HInv, FInv, OnGrid PROVE WithinGrid
  <2>1. \/ position = target * UnitNotional
        \/ pc \in Ordering /\ position = order.target * UnitNotional
    BY <1>1 DEF HInv, Quiet, Held, Unsent, Planning, FInv, OnTarget, Ordering
  <2>2. target = Net(confirm) /\ (pc \in Ordering => order.target = Net(plan))
    BY <1>1 DEF FInv, OnTarget, PlanFits, Fits
  <2>3. PICK n \in {Net(plan), Net(confirm)} : position = n * UnitNotional
    BY <2>1, <2>2
  <2>4. n \in Int /\ Gap(n) <= Edge
    BY <1>1, NetIsInt DEF TInv, GridOK, OnGrid, Inside
  <2>5. Edge \in Int
    BY EdgeBounds DEF NoFreeLunch
  <2>6. Gap(n * UnitNotional) <= Edge * UnitNotional
    BY <2>4, <2>5, GapOfProduct, UnitIsPositive
  <2> QED BY <2>3, <2>6 DEF WithinGrid
<1> QED BY <1>1, WholeInvariance, InitOnGrid, NextOnGrid, PTL DEF Spec

----------------------------------------------------------------------------
(* The steps that book nothing leave the booked position alone: a reset    *)
(* finds in the contract what is booked.                                   *)
LEMMA ActualStays ==
  ASSUME Calm, TInv, HInv, Proceed \/ Meanwhile
  PROVE  actual' = actual
<1>1. pc \notin {"boot", "stopped"} /\ handler = "none"
  BY DEF HInv, Quiet, Unsent, Planning
<1>2. CASE CancelPending \/ Boot \/ BeginTurn \/ \E p \in Paths : SkipPath(p) \/ LoopPath(p)
  BY <1>2 DEF CancelPending, Boot, BeginTurn, SkipPath, LoopPath
<1>3. CASE FoundPath \/ TopUpThrows \/ NoPath \/ PickNone \/ PickFirst \/ InputFails
  BY <1>3 DEF FoundPath, TopUpThrows, NoPath, PickNone, PickFirst, InputFails
<1>4. CASE ResetInTryPaths
  <2>1. position = actual
    BY <1>4 DEF ResetInTryPaths, HInv, Held, Unsent, Planning
  <2> QED BY <1>4, <2>1 DEF ResetInTryPaths, ResetActualPositionConfirm
<1>5. CASE Prepare \/ Number \/ PrepareFails \/ Send \/ SendFails \/ ReadBefore \/ BeforeFails
  BY <1>5 DEF Prepare, Number, PrepareFails, Send, SendFails, ReadBefore, BeforeFails, Abort
<1>6. CASE SettleForked \/ SettleBraked \/ SettleFilled \/ SettleFails \/ BookFails
  BY <1>6 DEF SettleForked, SettleBraked, SettleFilled, SettleFails, BookFails, GiveUp
<1>7. CASE EndTurn \/ EndTurnFails
  BY <1>7 DEF EndTurn, EndTurnFails
<1>8. CASE Meanwhile
  <2>1. CASE Timer \/ Block \/ Cancel \/ Chase \/ Mine
    BY <2>1 DEF Timer, Block, Cancel, Chase, Mine, GiveUp
  <2>2. CASE \E o \in Orders : PollReturns(o) \/ RelayReceipt(o) \/ ChaseAnswered(o)
    BY <2>2 DEF PollReturns, RelayReceipt, ChaseAnswered
  <2>3. CASE Operator
    BY <1>1, <2>3 DEF Operator, Add, Cut, BuyOrSell, Pause, BeginView, EndView, BeginReset,
       EndReset, Command, Calm
  <2> QED BY <1>8, <2>1, <2>2, <2>3 DEF Meanwhile
<1> QED BY <1>2, <1>3, <1>4, <1>5, <1>6, <1>7, <1>8 DEF Proceed
----------------------------------------------------------------------------
LEMMA FirstIsNat == First \in Nat
BY CycleConstants DEF First

(* The chain as the contract.  No number is beyond the orders registered:  *)
(* the next one to be read is above what they have spent, unless a chase   *)
(* was mined before the order's own number was read, and then the order's  *)
(* account nonce is gone and it is never sent.  Chases of another pair's   *)
(* numbers add what those numbers may be.                                  *)
InReach ==
  /\ spent <= First + order.no
  /\ \A tx \in mempool : tx.nonce <= First + order.no

Ahead == pc = "prepare" => spent < First + order.no /\ \A tx \in mempool : tx.nonce < First + order.no

ChaseInReach == Sending => order.chase <= First + order.no

ReadInReach ==
  /\ pc = "number" =>
       /\ spent < First + order.no \/ ~Unused
       /\ \A tx \in mempool : tx.nonce < First + order.no \/ tx.account = order.account
  /\ pc = "send" => order.nonce <= First + order.no \/ ~Unused

KInv ==
  /\ InReach /\ Ahead /\ ChaseInReach /\ ReadInReach
  /\ IsFiniteSet(mined)

LEMMA InitKInv == Init => KInv
<1>1. Init => NoOrder(0).no = 0
  BY DEF NoOrder
<1> QED BY <1>1, FirstIsNat, FS_EmptySet DEF Init, KInv, InReach, Ahead, ChaseInReach, ReadInReach, Sending,
      Committing

(* What the numbers are about, typed.                                      *)
LEMMA NumbersTyped ==
  ASSUME TInv
  PROVE  /\ spent \in Nat /\ account \in Nat
         /\ order.no \in 0..MaxOrders /\ order.no \in Nat
         /\ order.nonce \in Nat /\ order.chase \in Nat /\ order.account \in Nat
         /\ \A tx \in mempool : tx.nonce \in Nat /\ tx.account \in Nat
BY CycleConstants DEF TInv, ChainOK, CommitOK, OrderRecords, Txs

(* The order goes on or is over, and nothing is sent, read or mined.       *)
LEMMA SameNumbers ==
  ASSUME TInv, KInv, UNCHANGED chainVars, UNCHANGED order.no,
         pc' \notin {"prepare", "number", "send"} \/ UNCHANGED <<pc, order>>,
         Sending' => Sending /\ order'.chase = order.chase
  PROVE  KInv'
BY DEF KInv, InReach, Ahead, ChaseInReach, ReadInReach, Unused, Sending, chainVars

LEMMA RegisterInReach ==
  ASSUME TInv, KInv, Register
  PROVE  KInv'
<1>1. UNCHANGED chainVars /\ pc' = "prepare" /\ order'.no = order.no + 1
  BY DEF Register, TInv, CommitOK, OrderRecords
<1>2. InReach' /\ Ahead'
  BY <1>1, NumbersTyped, FirstIsNat DEF KInv, InReach, Ahead, chainVars
<1> QED BY <1>1, <1>2 DEF KInv, ChaseInReach, ReadInReach, Sending, chainVars

LEMMA PrepareInReach ==
  ASSUME TInv, NInv, KInv, Prepare
  PROVE  KInv'
<1>1. /\ UNCHANGED chainVars /\ pc = "prepare" /\ pc' \in {"number", "send"}
      /\ order'.no = order.no /\ order'.nonce = order.nonce /\ order'.chase \in Nat
      /\ order'.chase <= First \/ order'.chase = spent + 1
  BY CycleConstants DEF Prepare, FirstNonces, First, TInv, ChainOK, CommitOK, OrderRecords
<1>2. order.nonce = 0
  BY <1>1 DEF NInv, Unnumbered, Early
<1>3. spent < First + order.no /\ \A tx \in mempool : tx.nonce < First + order.no
  BY <1>1 DEF KInv, Ahead
<1>4. ChaseInReach'
  BY <1>1, <1>3, NumbersTyped, FirstIsNat DEF ChaseInReach
<1>5. ReadInReach'
  BY <1>1, <1>2, <1>3, NumbersTyped, FirstIsNat DEF ReadInReach, chainVars
<1> QED BY <1>1, <1>4, <1>5 DEF KInv, InReach, Ahead, chainVars

LEMMA NumberInReach ==
  ASSUME TInv, KInv, Number
  PROVE  KInv'
<1>1. /\ UNCHANGED chainVars /\ pc = "number" /\ pc' = "send"
      /\ order'.no = order.no /\ order'.nonce = spent + 1 /\ order'.chase = order.chase
      /\ order'.account = order.account
  BY DEF Number, TInv, CommitOK, OrderRecords
<1>2. spent < First + order.no \/ ~Unused
  BY <1>1 DEF KInv, ReadInReach
<1>3. Unused' <=> Unused
  BY <1>1 DEF Unused, chainVars
<1>4. ReadInReach'
  BY <1>1, <1>2, <1>3, NumbersTyped, FirstIsNat DEF ReadInReach
<1>5. ChaseInReach'
  BY <1>1 DEF KInv, ChaseInReach, Sending, Committing
<1> QED BY <1>1, <1>4, <1>5 DEF KInv, InReach, Ahead, chainVars

(* What is sent bears the number of the order or the one kept for a chase. *)
LEMMA SendInReach ==
  ASSUME TInv, KInv, Send \/ SendFails
  PROVE  KInv'
<1>1. \A tx \in mempool' : tx \in mempool \/ (tx.nonce = order.nonce /\ Unused)
  BY DEF Send, SendFails, Copies, Transaction
<1>2. /\ pc = "send" /\ pc' \in {"before", "tail"}
      /\ UNCHANGED <<spent, mined, order>>
  BY DEF Send, SendFails, Abort
<1>3. order.nonce <= First + order.no \/ ~Unused
  BY <1>2 DEF KInv, ReadInReach
<1>4. InReach'
  BY <1>1, <1>2, <1>3 DEF KInv, InReach
<1> QED BY <1>2, <1>4 DEF KInv, Ahead, ChaseInReach, ReadInReach, Sending, Committing

LEMMA ChaseKeepsReach ==
  ASSUME TInv, KInv, Chase
  PROVE  KInv'
<1>1. \A tx \in mempool' : tx \in mempool
                           \/ (tx.nonce = order.chase /\ tx.account = order.account)
  BY DEF Chase, Chased
<1>2. Sending /\ pc # "prepare" /\ UNCHANGED <<spent, account, mined, pc, order>>
  BY DEF Chase, TInv, ReleasedAfterCommit, Sending
<1>3. order.chase <= First + order.no
  BY <1>2 DEF KInv, ChaseInReach
<1>4. InReach'
  BY <1>1, <1>2, <1>3 DEF KInv, InReach
<1>5. ReadInReach'
  BY <1>1, <1>2 DEF KInv, ReadInReach, Unused
<1> QED BY <1>2, <1>4, <1>5 DEF KInv, Ahead, ChaseInReach, Sending

LEMMA CancelInReach ==
  ASSUME TInv, KInv, Cancel \/ CancelPending
  PROVE  KInv'
<1>1. UNCHANGED <<spent, mined, pc, order>> /\ pc \notin {"prepare", "number", "send"}
  BY DEF Cancel, CancelPending, commitVars
<1>2. \A tx \in mempool' : tx \in mempool \/ tx.nonce = 0
  <2>1. \A tx \in Txs : /\ EmptyTransfer(tx).nonce = 0
                        /\ [EmptyTransfer(tx) EXCEPT !.account = account].nonce = 0
    BY DEF EmptyTransfer
  <2>2. mempool \subseteq Txs
    BY DEF TInv, ChainOK
  <2> QED BY <2>1, <2>2 DEF Cancel, CancelPending
<1>3. InReach'
  BY <1>1, <1>2, NumbersTyped, FirstIsNat DEF KInv, InReach
<1> QED BY <1>1, <1>3 DEF KInv, Ahead, ChaseInReach, ReadInReach, Sending

LEMMA BlockInReach ==
  ASSUME TInv, KInv, Block
  PROVE  KInv'
<1>1. UNCHANGED <<spent, account, mined, pc, order>>
  BY DEF Block
<1>2. ASSUME NEW t \in mempool,
             NEW u, u = [t EXCEPT !.ttl = IF @ < 0 THEN @ ELSE @ - 1]
      PROVE  u.nonce = t.nonce /\ u.account = t.account
  BY <1>2 DEF TInv, ChainOK, Txs
<1>3. \A u \in mempool' : \E t \in mempool : u.nonce = t.nonce /\ u.account = t.account
  BY <1>2 DEF Block
<1> QED BY <1>1, <1>3 DEF KInv, InReach, Ahead, ChaseInReach, ReadInReach, Sending, Unused

(* A chase that is mined while the order's number is being read takes the  *)
(* order's account nonce with it.                                          *)
LEMMA MineInReach ==
  ASSUME TInv, AInv, KInv, Mine
  PROVE  KInv'
<1>1. PICK tx \in mempool, a \in Int :
        /\ Include(tx, a)
        /\ tx.account = account
        /\ UNCHANGED <<spent, position>> \/ spent' = tx.nonce
  BY MineCases
<1>2. /\ account' = account + 1 /\ mempool' \subseteq mempool /\ UNCHANGED <<pc, order>>
      /\ mined' = mined \cup
           {[order |-> tx.order, kind |-> tx.kind, nonce |-> tx.nonce, amount |-> a]}
  BY <1>1 DEF Include, Mine, commitVars
<1>3. spent' = spent \/ spent' = tx.nonce
  BY <1>1
<1>4. InReach' /\ Ahead'
  BY <1>2, <1>3 DEF KInv, InReach, Ahead
<1>5. Unused' => Unused /\ tx.account # order.account
  BY <1>1, <1>2, NumbersTyped, FirstIsNat DEF Unused
<1>6. ReadInReach'
  BY <1>2, <1>3, <1>5 DEF KInv, ReadInReach
<1>7. IsFiniteSet(mined')
  BY <1>2, FS_AddElement DEF KInv
<1> QED BY <1>2, <1>4, <1>6, <1>7 DEF KInv, ChaseInReach, Sending

LEMMA NextKInv == TInv /\ NInv /\ AInv /\ KInv /\ [Next]_vars => KInv'
<1> SUFFICES ASSUME TInv, NInv, AInv, KInv, [Next]_vars PROVE KInv'
  OBVIOUS
<1>1. ReleasedAfterCommit /\ ReleasedAfterCommit'
  BY NextTInv DEF TInv
<1>2. \A n : NoOrder(n).no = n
  BY DEF NoOrder
<1>3. CASE Turn
  <2>1. CASE (\E p \in Paths : LoopPath(p)) \/ FoundPath \/ NoPath
    <3>1. pc \notin Committing
      BY <2>1 DEF LoopPath, FoundPath, NoPath, Committing, Paths
    <3>2. UNCHANGED <<chainVars, waiting, order>>
      BY <2>1 DEF LoopPath, FoundPath, NoPath, commitVars
    <3>3. pc' \notin Committing
      BY <1>1, <3>1, <3>2 DEF ReleasedAfterCommit
    <3> QED BY <3>2, <3>3, SameNumbers DEF Sending, Committing
  <2>2. CASE BeginTurn \/ TopUpThrows \/ ResetInTryPaths \/ PickNone \/ Boot
               \/ \E p \in Paths : SkipPath(p)
    BY <2>2, SameNumbers DEF BeginTurn, TopUpThrows, ResetInTryPaths, PickNone, Boot, SkipPath, Leave, Throw,
       Sending, Committing, Paths, commitVars
  <2>3. CASE PickFirst
    <3>1. order'.no = order.no
      BY <1>2, <2>3 DEF PickFirst, NoOrder
    <3> QED BY <2>3, <3>1, SameNumbers DEF PickFirst, Sending, Committing
  <2>4. CASE InputFails \/ Decline \/ EndTurn \/ EndTurnFails
    <3>1. order'.no = order.no
      BY <1>2, <2>4 DEF InputFails, Decline, EndTurn, EndTurnFails
    <3> QED BY <2>4, <3>1, SameNumbers DEF InputFails, Decline, EndTurn, EndTurnFails, Throw,
          Sending, Committing
  <2>5. CASE PrepareFails \/ BeforeFails \/ SettleForked \/ SettleBraked \/ SettleFails
               \/ BookFill \/ BookFails
    BY <2>5, SameNumbers DEF PrepareFails, BeforeFails, SettleForked, SettleBraked, SettleFails,
       BookFill, BookFails, Abort, GiveUp, Sending, Committing
  <2>6. CASE ReadBefore \/ SettleFilled
    <3>1. UNCHANGED <<order.no, order.chase>>
      BY <2>6 DEF ReadBefore, SettleFilled, TInv, CommitOK, OrderRecords
    <3> QED BY <2>6, <3>1, SameNumbers DEF ReadBefore, SettleFilled, Sending, Committing
  <2>7. CASE Register \/ Prepare \/ Number \/ Send \/ SendFails \/ CancelPending
    BY <2>7, RegisterInReach, PrepareInReach, NumberInReach, SendInReach, CancelInReach
  <2> QED BY <1>3, <2>1, <2>2, <2>3, <2>4, <2>5, <2>6, <2>7 DEF Turn, Proceed
<1>4. CASE Timer
  BY <1>4, SameNumbers DEF Timer, GiveUp, Sending, Committing
<1>5. CASE Block \/ Cancel \/ Chase \/ Mine
  BY <1>5, BlockInReach, CancelInReach, ChaseKeepsReach, MineInReach
<1>6. CASE \E o \in Orders : PollReturns(o)
  <2>1. UNCHANGED chainVars /\ UNCHANGED <<order.no, order.chase>>
        /\ (UNCHANGED <<pc, order>> \/ (pc = "wait" /\ pc' = "settle"))
    BY <1>6 DEF PollReturns, TInv, CommitOK, OrderRecords
  <2> QED BY <2>1, SameNumbers DEF Sending, Committing
<1>7. CASE \E o \in Orders : RelayReceipt(o) \/ ChaseAnswered(o)
  BY <1>7, SameNumbers DEF RelayReceipt, ChaseAnswered, Sending
<1>8. CASE Operator
  BY <1>8, SameNumbers DEF Operator, Add, Cut, BuyOrSell, Pause, BeginView, EndView, BeginReset,
     EndReset, Command, commitVars, Sending
<1>9. CASE Crash
  BY <1>2, <1>9, SameNumbers DEF Crash, Sending, Committing
<1>10. CASE UNCHANGED vars
  BY <1>10, SameNumbers DEF vars, chainVars, Sending
<1> QED BY <1>3, <1>4, <1>5, <1>6, <1>7, <1>8, <1>9, <1>10 DEF Next, Meanwhile

----------------------------------------------------------------------------
(* The contract's state as the chain has it.                               *)
Trades(n) == {r \in mined : r.nonce = n /\ r.amount # 0}
Record    == [p \in {0} |-> [nonce |-> spent, position0 |-> position, position1 |-> -position]]
Fills     == [p \in {0} |-> [n \in 1..LastNumber |-> Cardinality(Trades(n))]]

LEMMA InitIsContract == Init => Contract!Init
<1> SUFFICES ASSUME Init PROVE Contract!Init
  OBVIOUS
<1>1. 0..(1 - 1) = {0}
  OBVIOUS
<1>2. spent = 0 /\ position = 0 /\ mined = {}
  BY DEF Init
<1>3. \A n \in 1..LastNumber : Cardinality(Trades(n)) = 0
  BY <1>2, FS_EmptySet DEF Trades
<1>4. -position = 0
  <2>1. position \in Int
    BY <1>2
  <2>2. \A n \in Int : -n = 0 - n
    OBVIOUS
  <2>3. 0 - position = 0
    BY <1>2
  <2> QED BY <2>1, <2>2, <2>3
<1>5. Record = [i \in 0..(1 - 1) |-> [nonce |-> 0, position0 |-> 0, position1 |-> 0]]
  BY <1>1, <1>2, <1>4 DEF Record
<1>6. Fills = [p \in 0..(1 - 1) |-> [n \in 1..LastNumber |-> 0]]
  BY <1>1, <1>3 DEF Fills
<1> QED BY <1>5, <1>6 DEF Contract!Init, Contract!PairIds, Contract!NoFills, Contract!Numbers,
      Record, Fills, Trades

(* What leaves the pair and the trades alone is no step of the contract.   *)
LEMMA ContractStutters ==
  ASSUME UNCHANGED <<spent, position>>, \A n \in 1..LastNumber : Trades(n)' = Trades(n)
  PROVE  UNCHANGED Contract!vars
BY DEF Contract!vars, Trades

LEMMA NumbersInReach ==
  ASSUME TInv, KInv, NEW tx \in mempool, tx.nonce \in Nat, tx.nonce > 0
  PROVE  tx.nonce \in 1..LastNumber
BY FirstIsNat, CycleConstants DEF KInv, InReach, TInv, CommitOK, OrderRecords, LastNumber

(* A call with a number that is still open.                                *)
LEMMA MineIsCall ==
  ASSUME TInv, NInv, KInv, Reach \in Int, Gap(position) <= Reach, Gap(position)' <= Reach,
         NEW tx \in mempool, NEW a \in Int, Include(tx, a), Live(tx), tx.nonce # 0,
         spent' = tx.nonce, position' = position + a
  PROVE  \E result \in Contract!Results : Contract!placeOrderCall(0, spent', result)
<1> DEFINE n == tx.nonce
           q == [done |-> IF a # 0 THEN "traded" ELSE "braked", amount0 |-> a]
           r == [order |-> tx.order, kind |-> tx.kind, nonce |-> n, amount |-> a]
<1>1. /\ n \in Nat /\ n > 0 /\ spent \in Nat /\ spent < n /\ position \in Int
  BY NumbersTyped DEF Live, TInv, ChainOK
<1>2. n \in 1..LastNumber
  BY <1>1, NumbersInReach
<1>3. /\ position \in -Reach..Reach /\ position + a \in -Reach..Reach
      /\ -position - a \in -Reach..Reach /\ -(position + a) = -position - a
      /\ a \in -2 * Reach..2 * Reach
  BY <1>1 DEF Gap
<1>4. q \in Contract!Results
  BY <1>3 DEF Contract!Results
<1>5. /\ mined' = mined \cup {r} /\ r.nonce = n /\ r.amount = a
      /\ \A m \in mined : m.nonce = n => m.amount = 0
  BY <1>1 DEF Include, NInv, TradedIsSpent, TInv, ChainOK, Receipts
<1> HIDE DEF r
<1>6. \A m \in 1..LastNumber : Trades(m)' = IF m = n /\ a # 0 THEN Trades(m) \cup {r} ELSE Trades(m)
  BY <1>5 DEF Trades
<1>7. \A m \in 1..LastNumber : Cardinality(Trades(m)') =
        IF m = n /\ a # 0 THEN Cardinality(Trades(m)) + 1 ELSE Cardinality(Trades(m))
  <2>1. \A m \in 1..LastNumber : IsFiniteSet(Trades(m))
    BY FS_Subset DEF KInv, Trades
  <2>2. a # 0 => r \notin Trades(n)
    BY <1>5 DEF Trades
  <2> QED BY <1>6, <2>1, <2>2, FS_AddElement
<1>8. q.amount0 = a /\ q.done # "reverted" /\ (q.done = "traded" <=> a # 0)
  OBVIOUS
<1> HIDE DEF q
<1>9. Fills' = [Fills EXCEPT ![0][n] = IF q.done = "traded" THEN @ + 1 ELSE @]
  BY <1>2, <1>7, <1>8 DEF Fills
<1> DEFINE b == [nonce |-> n, position0 |-> position + a, position1 |-> -position - a]
<1>10. Contract!Booked(Record[0], n, q.amount0) = b
  BY <1>8 DEF Contract!Booked, Record
<1>11. Record' = [Record EXCEPT ![0] = b]
  BY <1>3 DEF Record
<1>12. b.position0 \in -Reach..Reach /\ b.position1 \in -Reach..Reach
  BY <1>3
<1> HIDE DEF b
<1>13. 0 \in DOMAIN Record /\ ~(Record[0].nonce >= n)
  BY <1>1 DEF Record
<1>14. Contract!GuardedCall(0, n, q)
  BY <1>8, <1>9, <1>10, <1>11, <1>12, <1>13 DEF Contract!GuardedCall, Contract!Listed,
     Contract!Stale, Contract!Positions, Record, Fills, Trades
<1>15. Contract!placeOrderCall(0, n, q)
  BY <1>1, <1>14 DEF Contract!placeOrderCall
<1> QED BY <1>4, <1>15

LEMMA StepIsCall ==
  ASSUME TInv, NInv, KInv, Reach \in Int, Gap(position) <= Reach, Gap(position)' <= Reach,
         [Next]_vars
  PROVE  [\E result \in Contract!Results :
            Contract!placeOrderCall(0, spent', result)]_Contract!vars
<1>1. CASE Mine
  <2>1. PICK tx \in mempool, a \in Int :
          /\ Include(tx, a)
          /\ \/ UNCHANGED <<spent, position>>
             \/ Live(tx) /\ tx.nonce # 0 /\ spent' = tx.nonce /\ position' = position + a
          /\ Live(tx) \/ a = 0
          /\ a # 0 /\ tx.nonce # 0 => spent' = tx.nonce
    BY <1>1, MineCases
  <2>2. CASE Live(tx) /\ tx.nonce # 0 /\ spent' = tx.nonce /\ position' = position + a
    BY <2>1, <2>2, MineIsCall
  <2>3. CASE UNCHANGED <<spent, position>>
    <3>1. a = 0 \/ tx.nonce = 0
      BY <2>1, <2>3, NumbersTyped DEF Live
    <3> DEFINE r == [order |-> tx.order, kind |-> tx.kind, nonce |-> tx.nonce, amount |-> a]
    <3>2. mined' = mined \cup {r} /\ r.nonce = tx.nonce /\ r.amount = a
      BY <2>1 DEF Include
    <3> HIDE DEF r
    <3>3. \A n \in 1..LastNumber : n # 0
      OBVIOUS
    <3>4. \A n \in 1..LastNumber : Trades(n)' = Trades(n)
      BY <3>1, <3>2, <3>3 DEF Trades
    <3> QED BY <2>3, <3>4, ContractStutters
  <2> QED BY <2>1, <2>2, <2>3
<1>2. UNCHANGED <<spent, position, mined>> => UNCHANGED Contract!vars
  BY ContractStutters DEF Trades
<1> QED BY <1>1, <1>2, OnlyMineMoves

(* The grid has an edge if the market shows anything, and positions a      *)
(* bound.                                                                  *)
LEMMA ReachIsInt == ASSUME Spreads # {} PROVE Reach \in Int
<1>1. Edge \in Int
  BY EdgeBounds
<1> QED BY <1>1, CycleConstants DEF Reach

(* As long as the position does not overflow its field, all that the       *)
(* bot's transactions do to the contract, in whatever order, under         *)
(* whatever faults, commands and crashes they are sent and mined, is what  *)
(* a call of placeOrderCall may do.                                        *)
THEOREM ChainIsContract ==
  ASSUME Spreads # {}
  PROVE  Spec /\ [](Gap(position) <= Reach) => CallsContract
<1>1. TInv /\ NInv /\ KInv /\ Gap(position) <= Reach /\ (Gap(position) <= Reach)' /\ [Next]_vars
        => [\E result \in Contract!Results :
              Contract!placeOrderCall(0, spent', result)]_Contract!vars
  BY StepIsCall, ReachIsInt
<1> QED BY <1>1, InitIsContract, InitTInv, NextTInv, InitNInv, NextNInv, InitAInv, NextAInv,
      InitKInv, NextKInv, PTL DEF Spec, CallsContract

(* In a calm run the position does not come near the bound, so the chain   *)
(* is the contract without further conditions.                             *)
THEOREM CalmChainIsContract ==
  ASSUME Calm, WholeFills, NoFreeLunch, MaxOrders # 0
  PROVE  Spec => CallsContract
<1>1. ASSUME TInv, WithinGrid PROVE Gap(position) <= Reach
  <2> DEFINE e == Edge * UnitNotional
             m == MaxOrders
             c == MaxCommands
             u == UnitNotional
  <2>1. /\ Edge \in Nat /\ m \in Nat /\ m > 0 /\ c \in Nat /\ u \in Nat
    BY EdgeBounds, CycleConstants DEF NoFreeLunch
  <2>2. Gap(position) \in Nat /\ Gap(position) <= e
    BY <1>1, GapIsNat DEF TInv, ChainOK, WithinGrid
  <2> DEFINE k == (Edge + c) * u
  <2>3. k = e + c * u /\ c * u \in Nat /\ e \in Nat
    BY <2>1
  <2>4. Reach = 2 * m * (Edge + c) * u
    BY DEF Reach
  <2>5. 2 * m * (Edge + c) * u = (2 * m) * k
    BY <2>1
  <2> HIDE DEF e, m, c, u, k
  <2>6. (2 * m) * k = k + (2 * m - 1) * k /\ (2 * m - 1) * k \in Nat
    BY <2>1, <2>3
  <2> QED BY <2>2, <2>3, <2>4, <2>5, <2>6
<1>2. Spreads # {}
  BY DEF NoFreeLunch
<1>3. Spec => [](Gap(position) <= Reach)
  BY <1>1, GridIsKept, InitTInv, NextTInv, PTL DEF Spec
<1> QED BY <1>2, <1>3, ChainIsContract, PTL

----------------------------------------------------------------------------
(* The ledger of the numbers that the bot's transactions bear.             *)
Fate(n) == IF Trades(n) # {} THEN "traded" ELSE IF n <= spent THEN "dead" ELSE "open"
Fates   == [p \in {0} |-> [n \in 1..LastNumber |-> Fate(n)]]

OrderLedger == INSTANCE NonceLedger WITH PairIds <- {0}, Numbers <- 1..LastNumber, status <- Fates

(* Each number trades at most once or dies, for good, and those it passes  *)
(* over with it: as long as the owner of the contract leaves the pair alone, the   *)
(* chain keeps the promise of NonceLedger without rewrites.                *)
KeepsOwnLedger ==
  /\ OrderLedger!Init
  /\ [][\E n \in 1..LastNumber : OrderLedger!Trade(0, n) \/ OrderLedger!Void(0, n)]_Fates

LEMMA InitIsLedger == Init => OrderLedger!Init
<1> SUFFICES ASSUME Init PROVE \A n \in 1..LastNumber : Fate(n) = "open"
  BY DEF OrderLedger!Init, Fates
<1>1. \A n \in 1..LastNumber : n > 0
  OBVIOUS
<1> QED BY <1>1 DEF Init, Fate, Trades

(* What ends is a number above the last one spent.                         *)
LEMMA MineEndsNumber ==
  ASSUME TInv, NInv, KInv,
         NEW tx \in mempool, NEW a \in Int, Include(tx, a), Live(tx), tx.nonce # 0, spent' = tx.nonce
  PROVE  OrderLedger!End(0, tx.nonce, IF a # 0 THEN "traded" ELSE "dead")
<1> DEFINE n == tx.nonce
           how == IF a # 0 THEN "traded" ELSE "dead"
           r == [order |-> tx.order, kind |-> tx.kind, nonce |-> n, amount |-> a]
<1>1. n \in Nat /\ spent \in Nat /\ n > spent
  BY NumbersTyped DEF Live
<1>2. n \in 1..LastNumber
  BY <1>1, NumbersInReach
<1>3. \A m \in 1..LastNumber : m \in Int /\ m > 0
  OBVIOUS
<1>4. mined' = mined \cup {r} /\ r.nonce = n /\ r.amount = a
  BY DEF Include
<1>5. \A q \in mined : q.nonce = n => q.amount = 0
  BY <1>1 DEF NInv, TradedIsSpent, TInv, ChainOK, Receipts
<1> HIDE DEF r
<1>6. Fate(n) = "open" /\ Fate(n)' = how
  BY <1>1, <1>4, <1>5 DEF Fate, Trades
<1>7. ASSUME NEW m \in 1..LastNumber, m # n
      PROVE  Fate(m)' = IF m < n /\ Fate(m) = "open" THEN "dead" ELSE Fate(m)
  <2>1. Trades(m)' = Trades(m)
    BY <1>4, <1>7 DEF Trades
  <2>2. (m <= spent' <=> m < n) /\ (m <= spent => m < n)
    BY <1>1, <1>3, <1>7
  <2> QED BY <2>1, <2>2 DEF Fate
<1>8. Fates' = [Fates EXCEPT ![0] =
        [m \in 1..LastNumber |-> IF m = n THEN how
                          ELSE IF m < n /\ @[m] = "open" THEN "dead" ELSE @[m]]]
  <2> HIDE DEF n, how
  <2>1. \A m \in 1..LastNumber : Fate(m)' = IF m = n THEN how
                          ELSE IF m < n /\ Fates[0][m] = "open" THEN "dead" ELSE Fates[0][m]
    BY <1>6, <1>7 DEF Fates
  <2>2. Fates' = [p \in {0} |-> [m \in 1..LastNumber |-> Fate(m)']]
    BY DEF Fates
  <2> QED BY <2>1, <2>2 DEF Fates
<1>9. Fates[0][n] = "open"
  BY <1>2, <1>6 DEF Fates
<1> QED BY <1>8, <1>9 DEF OrderLedger!End

(* For every set of faults and commands, every crash and any number of     *)
(* copies: what becomes of the numbers is what the ledger allows.          *)
THEOREM OrdersKeepLedger == Spec => KeepsOwnLedger
<1>1. TInv /\ NInv /\ KInv /\ [Next]_vars
        => [\E n \in 1..LastNumber : OrderLedger!Trade(0, n) \/ OrderLedger!Void(0, n)]_Fates
  <2> SUFFICES ASSUME TInv, NInv, KInv, [Next]_vars
               PROVE  [\E n \in 1..LastNumber : OrderLedger!Trade(0, n) \/ OrderLedger!Void(0, n)]_Fates
    OBVIOUS
  <2>1. ASSUME UNCHANGED spent, \A n \in 1..LastNumber : Trades(n)' = Trades(n) PROVE UNCHANGED Fates
    BY <2>1 DEF Fates, Fate
  <2>2. CASE Mine
    <3>1. PICK tx \in mempool, a \in Int :
            /\ Include(tx, a)
            /\ \/ UNCHANGED <<spent, position>>
               \/ Live(tx) /\ tx.nonce # 0 /\ spent' = tx.nonce /\ position' = position + a
            /\ Live(tx) \/ a = 0
            /\ a # 0 /\ tx.nonce # 0 => spent' = tx.nonce
      BY <2>2, MineCases
    <3>2. CASE Live(tx) /\ tx.nonce # 0 /\ spent' = tx.nonce
      <4>1. tx.nonce \in 1..LastNumber
        BY <3>1, <3>2, NumbersTyped, NumbersInReach
      <4>2. OrderLedger!End(0, tx.nonce, IF a # 0 THEN "traded" ELSE "dead")
        BY <3>1, <3>2, MineEndsNumber
      <4> QED BY <4>1, <4>2 DEF OrderLedger!Trade, OrderLedger!Void
    <3>3. CASE UNCHANGED <<spent, position>>
      <4>1. a = 0 \/ tx.nonce = 0
        BY <3>1, <3>3, NumbersTyped DEF Live
      <4>2. \A n \in 1..LastNumber : n # 0
        OBVIOUS
      <4> DEFINE r == [order |-> tx.order, kind |-> tx.kind, nonce |-> tx.nonce, amount |-> a]
      <4>3. mined' = mined \cup {r} /\ r.nonce = tx.nonce /\ r.amount = a
        BY <3>1 DEF Include
      <4> HIDE DEF r
      <4>4. \A n \in 1..LastNumber : Trades(n)' = Trades(n)
        BY <4>1, <4>2, <4>3 DEF Trades
      <4> QED BY <2>1, <3>3, <4>4
    <3> QED BY <3>1, <3>2, <3>3
  <2>3. CASE UNCHANGED <<spent, position, mined>>
    BY <2>1, <2>3 DEF Trades
  <2> QED BY <2>2, <2>3, OnlyMineMoves
<1> QED BY <1>1, InitIsLedger, InitTInv, NextTInv, InitNInv, NextNInv, InitAInv, NextAInv,
      InitKInv, NextKInv, PTL DEF Spec, KeepsOwnLedger
=============================================================================
