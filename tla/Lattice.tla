------------------------------ MODULE Lattice ------------------------------
(***************************************************************************)
(* The arithmetic of the position grid: which position a price spread asks *)
(* for, and how an order that is too big is cut down to one notional.      *)
(*                                                                         *)
(* The strategy keeps two non-negative counters of notionals per market,   *)
(* the position built while the exchange was dearer than the chain (pos,   *)
(* OnOverOffPositivePosition) and the opposite one (neg,                   *)
(* OnOverOffNegativePosition).  What the bot wants to hold is pos - neg.   *)
(*                                                                         *)
(* A spread is an integer here: the source's floating-point profit rate in *)
(* units of the smallest difference between two thresholds of the table.   *)
(***************************************************************************)
EXTENDS Integers, Sequences

CONSTANT LatticeTable   \* constants.ts LatticeTable, or what `set` replaced it by

(* What the shipped table satisfies.  `set LatticeTable=` checks no more   *)
(* of it than the length, so an operator may type in one that breaks it.   *)
LatticeAssumption ==
  /\ LatticeTable \in Seq([Threshold : Nat, PositionBuild : Nat, PositionReduce : Nat])
  /\ Len(LatticeTable) > 0
  /\ LatticeTable[1].Threshold = 0 /\ LatticeTable[1].PositionBuild = 0
  /\ \A i, j \in 1..Len(LatticeTable) : i < j =>
       /\ LatticeTable[i].Threshold < LatticeTable[j].Threshold
       /\ LatticeTable[i].PositionBuild <= LatticeTable[j].PositionBuild
       /\ LatticeTable[i].PositionReduce <= LatticeTable[j].PositionReduce
  /\ \A i \in 1..Len(LatticeTable) :
       LatticeTable[i].PositionBuild <= LatticeTable[i].PositionReduce

ASSUME TableIsLattice == LatticeAssumption

Position == [pos : Int, neg : Int]
Flat     == [pos |-> 0, neg |-> 0]
Net(p)   == p.pos - p.neg
Gap(n)   == IF n < 0 THEN -n ELSE n

----------------------------------------------------------------------------
(* The row of the table a spread reaches: the last one whose threshold is  *)
(* not above it.                                                           *)
Reached(spread, i) ==
  /\ LatticeTable[i].Threshold <= spread
  /\ \A j \in 1..Len(LatticeTable) : i < j => spread < LatticeTable[j].Threshold

GetNotioinalByProfitPrice(spread) ==
  IF spread < 0
    THEN [Threshold |-> 0, PositionBuild |-> 0, PositionReduce |-> 0]
    ELSE LatticeTable[CHOOSE i \in 1..Len(LatticeTable) : Reached(spread, i)]

Build(spread)  == GetNotioinalByProfitPrice(spread).PositionBuild
Reduce(spread) == GetNotioinalByProfitPrice(spread).PositionReduce

(* A counter outside the band [build, reduce] moves to the nearer edge.    *)
(* The source tests the lower edge first.                                  *)
IntoBand(held, build, reduce) ==
  IF build > held THEN build ELSE IF reduce < held THEN reduce ELSE held

(* Mutant: the reducing side of a spread without its minus sign.           *)
UpdateUnsigned(confirm, on, off) ==
  [pos |-> IntoBand(confirm.pos, Build(off), Reduce(on)),
   neg |-> IntoBand(confirm.neg, Build(on),  Reduce(off))]

(* UpdatePosition: start again from the confirmed counters, then move each *)
(* into the band its two spreads give it.  `on` is the gain of selling on  *)
(* chain and buying on the exchange, `off` the gain of the opposite trade. *)
UpdatePosition(confirm, on, off) ==
  [pos |-> IntoBand(confirm.pos, Build(off), Reduce(-on)),
   neg |-> IntoBand(confirm.neg, Build(on),  Reduce(-off))]

----------------------------------------------------------------------------
(* Mutant: a reduction of neg cut down the wrong way.                      *)
ShrinkWrongWay(plan, confirm, target) ==
  IF plan.pos > confirm.pos
    THEN [plan EXCEPT !.pos = @ + (IF Net(plan) - target > 1 THEN -1 ELSE 1)]
    ELSE [plan EXCEPT !.neg = @ + 1]

(* One turn of the loop of tryPaths(onlyOneNotional): move the plan one    *)
(* notional nearer to the executed target.                                 *)
ShrinkStep(plan, confirm, target) ==
  LET raised == plan.pos > confirm.pos
  IN  IF Net(plan) - target > 1
        THEN IF raised THEN [plan EXCEPT !.pos = @ - 1] ELSE [plan EXCEPT !.neg = @ + 1]
        ELSE IF raised THEN [plan EXCEPT !.pos = @ + 1] ELSE [plan EXCEPT !.neg = @ - 1]

(* Mutant: one turn too many.                                              *)
NoNotional(plan, confirm, target) ==
  LET diff == Net(plan) - target
  IN  IF diff > 0 THEN [plan EXCEPT !.pos = @ - diff] ELSE [plan EXCEPT !.neg = @ + diff]

(* The whole loop in one step: what it leaves in the plan.  `far` is the   *)
(* number of turns it takes, `back` how many of them undo a raise of pos.  *)
OneNotional(plan, confirm, target) ==
  LET diff   == Net(plan) - target
      far    == Gap(diff) - 1
      raise  == plan.pos - confirm.pos
      back   == IF raise < far THEN IF raise < 0 THEN 0 ELSE raise ELSE far
  IN  IF diff > 1
        THEN [pos |-> plan.pos - back, neg |-> plan.neg + (far - back)]
      ELSE IF diff < -1
        THEN IF raise > 0 THEN [plan EXCEPT !.pos = @ + far]
                          ELSE [plan EXCEPT !.neg = @ - far]
      ELSE plan
=============================================================================
