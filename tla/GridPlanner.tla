---------------------------- MODULE GridPlanner ----------------------------
(***************************************************************************)
(* The planning half of a trade cycle, on its own: Loop moves the plan by  *)
(* the current spreads (UpdatePosition), tryPaths may have to cut the      *)
(* planned order down to one notional, and an order either fills (the plan *)
(* becomes the confirmed position and the target) or is given up (the plan *)
(* goes back to the confirmed position).  The loop of tryPaths is taken    *)
(* turn by turn here; OrderCycle uses the closed form OneNotional.         *)
(***************************************************************************)
EXTENDS Lattice

CONSTANT Spreads        \* the pairs [on, off] of spreads the market may show

(* Selling on chain and buying on the exchange cannot gain at the same     *)
(* time as the opposite trade: both pay the two bid/ask gaps and the fees. *)
ASSUME SpreadsAreArbitrageFree ==
  \A s \in Spreads : s \in [on : Int, off : Int] /\ s.on + s.off <= 0

VARIABLES
  confirm,   \* the position the executed orders have brought (...Confirm)
  plan,      \* the position asked for (OnOverOffPositivePosition, ...Negative...)
  target,    \* gridConfig.TargetNotional
  spread,    \* the spreads UpdatePosition last used
  asked,     \* the plan as the loop of tryPaths found it
  pc         \* "idle", or "shrink" inside that loop

vars == <<confirm, plan, target, spread, asked, pc>>

Diff == Net(plan) - target

Init ==
  /\ confirm = Flat /\ plan = Flat /\ target = 0 /\ asked = Flat
  /\ spread \in Spreads
  /\ pc = "idle"

Update(s) ==
  /\ pc = "idle"
  /\ plan' = UpdatePosition(confirm, s.on, s.off)
  /\ spread' = s
  /\ asked' = plan'
  /\ UNCHANGED <<confirm, target, pc>>

BeginShrink ==
  /\ pc = "idle" /\ Gap(Diff) > 1
  /\ pc' = "shrink"
  /\ asked' = plan
  /\ UNCHANGED <<confirm, plan, target, spread>>

Shrink ==
  /\ pc = "shrink" /\ Gap(Diff) > 1
  /\ plan' = ShrinkStep(plan, confirm, target)
  /\ UNCHANGED <<confirm, target, spread, asked, pc>>

(* Mutant: the loop ends only when nothing is left of the order.           *)
EndAtZero ==
  /\ pc = "shrink" /\ Gap(Diff) < 1
  /\ pc' = "idle"
  /\ UNCHANGED <<confirm, plan, target, spread, asked>>

EndShrink ==
  /\ pc = "shrink" /\ Gap(Diff) <= 1
  /\ pc' = "idle"
  /\ UNCHANGED <<confirm, plan, target, spread, asked>>

(* Mutant: the plan is confirmed and the target left behind.               *)
FillWithoutTarget ==
  /\ pc = "idle" /\ Diff # 0
  /\ confirm' = plan
  /\ UNCHANGED <<plan, target, spread, asked, pc>>

Fill ==
  /\ pc = "idle" /\ Diff # 0
  /\ confirm' = plan
  /\ target' = Net(plan)
  /\ UNCHANGED <<plan, spread, asked, pc>>

Rollback ==
  /\ pc = "idle"
  /\ plan' = confirm
  /\ UNCHANGED <<confirm, target, spread, asked, pc>>

Next ==
  \/ \E s \in Spreads : Update(s)
  \/ BeginShrink \/ Shrink \/ EndShrink
  \/ Fill \/ Rollback

(* The loop is plain synchronous code: once entered it runs.               *)
Spec == Init /\ [][Next]_vars /\ WF_vars(Shrink) /\ WF_vars(EndShrink)

----------------------------------------------------------------------------
(* The counter pos never falls below zero, though the loop of tryPaths     *)
(* takes from it; nothing keeps it from taking neg below.                  *)
Counters == [pos : Nat, neg : Int]

TypeOK ==
  /\ confirm \in Counters /\ plan \in Counters /\ asked \in Counters
  /\ target \in Int
  /\ spread \in Spreads
  /\ pc \in {"idle", "shrink"}

(* The loop of tryPaths lowers the size of the order and never its side:   *)
(* wherever it stands, the order has the sign of the one that was asked    *)
(* for, is no larger, and is at least one notional.                        *)
ShrinkKeepsSide ==
  pc = "shrink" =>
    LET want == Net(asked) - target
    IN  IF want > 0 THEN 1 <= Diff /\ Diff <= want ELSE want <= Diff /\ Diff <= -1

(* Wherever the loop stands, finishing it in one step gives what doing the *)
(* whole of it in one step from the asked plan gives: the closed form that *)
(* OrderCycle uses is the loop.                                            *)
LoopIsOneNotional ==
  pc = "shrink" =>
    /\ OneNotional(plan, confirm, target) = OneNotional(asked, confirm, target)
    /\ Gap(Diff) <= 1 => plan = OneNotional(asked, confirm, target)

(* The grid does not churn: when the order that fills is the whole of what *)
(* UpdatePosition asked for, the same spreads ask for nothing more.        *)
FilledIsSettled ==
  [][(Fill /\ plan = UpdatePosition(confirm, spread.on, spread.off)) =>
       UpdatePosition(confirm', spread.on, spread.off) = confirm']_vars

(* A plan is never long on both counters at once, so that one order cannot *)
(* be half a build and half a reduction.                                   *)
OneSided == ~(plan.pos > 0 /\ plan.neg > 0)

(* Filling an order, whole or cut down, leaves less to do at the same      *)
(* spreads than there was: repeated one-notional orders get there.         *)
Remaining(c, t) == Gap(Net(UpdatePosition(c, spread.on, spread.off)) - t)

FillsConverge ==
  [][(Fill /\ asked = UpdatePosition(confirm, spread.on, spread.off)) =>
       Remaining(confirm', target') < Remaining(confirm, target)]_vars

(* The loop of tryPaths ends.                                              *)
ShrinkEnds == pc = "shrink" ~> pc = "idle"
=============================================================================
