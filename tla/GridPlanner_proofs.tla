------------------------- MODULE GridPlanner_proofs -------------------------
(***************************************************************************)
(* The properties of the planner for every table that satisfies            *)
(* LatticeAssumption and every set of spreads without a gain both ways.    *)
(***************************************************************************)
EXTENDS GridPlanner, Lattice_proofs

LEMMA SpreadTypes ==
  ASSUME NEW s \in Spreads
  PROVE  s.on \in Int /\ s.off \in Int /\ s.on + s.off <= 0
BY SpreadsAreArbitrageFree

LEMMA CountersArePositions == TypeOK => {confirm, plan, asked} \subseteq Position
BY DEF TypeOK, Counters, Position

(* pos is lowered only above its confirmed value, which is not negative.   *)
LEMMA ShrinkKeepsCounters ==
  ASSUME NEW p \in Counters, NEW c \in Counters, NEW t \in Int
  PROVE  ShrinkStep(p, c, t) \in Counters
BY DEF ShrinkStep, Counters, Net

LEMMA UpdateKeepsCounters ==
  ASSUME NEW c \in Counters, NEW on \in Int, NEW off \in Int
  PROVE  UpdatePosition(c, on, off) \in Counters
<1>1. /\ Build(off) \in Nat /\ Reduce(-on) \in Nat
      /\ Build(on) \in Nat /\ Reduce(-off) \in Nat
  BY EdgesAreNaturals
<1> QED BY <1>1 DEF UpdatePosition, IntoBand, Counters

LEMMA InitTypeOK == Init => TypeOK
BY DEF Init, TypeOK, Flat, Counters

LEMMA NextTypeOK == TypeOK /\ [Next]_vars => TypeOK'
<1> SUFFICES ASSUME TypeOK, [Next]_vars PROVE TypeOK'
  OBVIOUS
<1>1. ASSUME NEW s \in Spreads, Update(s) PROVE TypeOK'
  BY <1>1, SpreadTypes, UpdateKeepsCounters DEF Update, TypeOK
<1>2. CASE BeginShrink
  BY <1>2 DEF BeginShrink, TypeOK
<1>3. CASE Shrink
  BY <1>3, ShrinkKeepsCounters DEF Shrink, TypeOK
<1>4. CASE EndShrink
  BY <1>4 DEF EndShrink, TypeOK
<1>5. CASE Fill
  BY <1>5 DEF Fill, TypeOK, Net, Counters
<1>6. CASE Rollback
  BY <1>6 DEF Rollback, TypeOK
<1>7. CASE UNCHANGED vars
  BY <1>7 DEF vars, TypeOK
<1> QED BY <1>1, <1>2, <1>3, <1>4, <1>5, <1>6, <1>7 DEF Next

(* The counter pos stays a natural, whatever orders are cut down.          *)
THEOREM PlannerTypeCorrect == Spec => []TypeOK
BY InitTypeOK, NextTypeOK, PTL DEF Spec

----------------------------------------------------------------------------
(* One turn of the loop of tryPaths: one notional nearer, the same end.    *)
LEMMA ShrinkStepGains ==
  ASSUME NEW p \in Position, NEW c \in Position, NEW t \in Int, Gap(Net(p) - t) > 1
  PROVE  LET d == Net(p) - t
             q == ShrinkStep(p, c, t)
         IN  /\ d > 1 => Net(q) - t = d - 1
             /\ d < -1 => Net(q) - t = d + 1
BY DEF ShrinkStep, Position, Net, Gap

LEMMA ShrinkStepSameEnd ==
  ASSUME NEW p \in Position, NEW c \in Position, NEW t \in Int, Gap(Net(p) - t) > 1
  PROVE  OneNotional(ShrinkStep(p, c, t), c, t) = OneNotional(p, c, t)
<1> DEFINE d == Net(p) - t
           q == ShrinkStep(p, c, t)
           e == Net(q) - t
<1>1. /\ p = [pos |-> p.pos, neg |-> p.neg] /\ p.pos \in Int /\ p.neg \in Int
      /\ c.pos \in Int
  BY DEF Position
<1>2. d > 1 \/ d < -1
  BY <1>1 DEF Gap, Net
<1> DEFINE plus == [p EXCEPT !.pos = @ + 1]
           minus == [p EXCEPT !.neg = @ - 1]
<1>7. /\ plus = [pos |-> p.pos + 1, neg |-> p.neg]
      /\ minus = [pos |-> p.pos, neg |-> p.neg - 1]
  BY <1>1
<1>8. ASSUME d < -1 PROVE ~(Net(p) - t > 1)
  BY <1>1, <1>8 DEF Net
<1>3. CASE d > 1 /\ p.pos > c.pos
  <2>1. q = [pos |-> p.pos - 1, neg |-> p.neg]
    BY <1>1, <1>3 DEF ShrinkStep
  <2> QED BY <1>1, <1>3, <2>1 DEF OneNotional, Net, Gap
<1>4. CASE d > 1 /\ ~(p.pos > c.pos)
  <2>1. q = [pos |-> p.pos, neg |-> p.neg + 1]
    BY <1>1, <1>4 DEF ShrinkStep
  <2> QED BY <1>1, <1>4, <2>1 DEF OneNotional, Net, Gap
<1>5. CASE d < -1 /\ p.pos > c.pos
  <2>1. q = [pos |-> p.pos + 1, neg |-> p.neg]
    BY <1>5, <1>7, <1>8 DEF ShrinkStep
  <2> QED BY <1>1, <1>5, <2>1 DEF OneNotional, Net, Gap
<1>6. CASE d < -1 /\ ~(p.pos > c.pos)
  <2>1. q = [pos |-> p.pos, neg |-> p.neg - 1]
    BY <1>6, <1>7, <1>8 DEF ShrinkStep
  <2> QED BY <1>1, <1>6, <2>1 DEF OneNotional, Net, Gap
<1> QED BY <1>2, <1>3, <1>4, <1>5, <1>6

LEMMA OneNotionalOfSmall ==
  ASSUME NEW p, NEW c, NEW t, Net(p) - t \in Int, Gap(Net(p) - t) <= 1
  PROVE  OneNotional(p, c, t) = p
BY DEF OneNotional, Gap

(* What the loop keeps while it runs.                                      *)
IInv == TypeOK /\ ShrinkKeepsSide /\ LoopIsOneNotional

LEMMA DiffIsInt ==
  ASSUME TypeOK
  PROVE  Net(plan) - target \in Int /\ Net(asked) - target \in Int
BY CountersArePositions DEF TypeOK, Net, Position

LEMMA InitIInv == Init => IInv
BY InitTypeOK DEF Init, IInv, ShrinkKeepsSide, LoopIsOneNotional

LEMMA NextIInv == IInv /\ [Next]_vars => IInv'
<1> SUFFICES ASSUME IInv, [Next]_vars PROVE ShrinkKeepsSide' /\ LoopIsOneNotional'
  BY NextTypeOK DEF IInv
<1>1. CASE pc' # "shrink"
  BY <1>1 DEF ShrinkKeepsSide, LoopIsOneNotional
<1>2. CASE BeginShrink
  <2>1. /\ pc' = "shrink" /\ plan' = plan /\ target' = target /\ confirm' = confirm /\ asked' = plan
        /\ Gap(Net(plan) - target) > 1 /\ Net(plan) - target \in Int
    BY <1>2, DiffIsInt DEF BeginShrink, Diff, IInv
  <2>2. ShrinkKeepsSide'
    BY <2>1 DEF ShrinkKeepsSide, Diff, Gap
  <2>3. LoopIsOneNotional'
    BY <2>1 DEF LoopIsOneNotional, Diff, Gap
  <2> QED BY <2>2, <2>3
<1>3. CASE Shrink
  <2> DEFINE d == Net(plan) - target
             e == Net(plan') - target
             want == Net(asked) - target
  <2>1. /\ pc = "shrink" /\ plan' = ShrinkStep(plan, confirm, target)
        /\ target' = target /\ confirm' = confirm /\ asked' = asked /\ pc' = pc
        /\ Gap(d) > 1
    BY <1>3 DEF Shrink, Diff
  <2>2. d \in Int /\ want \in Int /\ plan \in Position /\ confirm \in Position /\ target \in Int
    BY DiffIsInt, CountersArePositions DEF IInv, TypeOK
  <2>3. plan' \in Position /\ e \in Int
    BY NextTypeOK, <2>1, <2>2 DEF IInv, TypeOK, Counters, Net, Position
  <2>4. (d > 1 => e = d - 1) /\ (d < -1 => e = d + 1)
    BY <2>1, <2>2, ShrinkStepGains
  <2>5. IF want > 0 THEN 1 <= d /\ d <= want ELSE want <= d /\ d <= -1
    BY <2>1 DEF IInv, ShrinkKeepsSide, Diff
  <2>6. d > 1 \/ d < -1
    BY <2>1, <2>2 DEF Gap
  <2>7. IF want > 0 THEN 1 <= e /\ e <= want ELSE want <= e /\ e <= -1
    <3> HIDE DEF d, e, want
    <3> QED BY <2>2, <2>3, <2>4, <2>5, <2>6
  <2>8. ShrinkKeepsSide'
    BY <2>1, <2>7 DEF ShrinkKeepsSide, Diff
  <2>9. OneNotional(plan', confirm, target) = OneNotional(asked, confirm, target)
    BY <2>1, <2>2, ShrinkStepSameEnd DEF IInv, LoopIsOneNotional
  <2>10. Gap(e) <= 1 => plan' = OneNotional(asked, confirm, target)
    BY <2>3, <2>9, OneNotionalOfSmall
  <2>11. LoopIsOneNotional'
    BY <2>1, <2>9, <2>10 DEF LoopIsOneNotional, Diff
  <2> QED BY <2>8, <2>11
<1>4. CASE UNCHANGED vars
  BY <1>4 DEF vars, IInv, ShrinkKeepsSide, LoopIsOneNotional, Diff
<1>5. (\E s \in Spreads : Update(s)) \/ EndShrink \/ Fill \/ Rollback => pc' # "shrink"
  BY DEF Update, EndShrink, Fill, Rollback
<1> QED BY <1>1, <1>2, <1>3, <1>4, <1>5 DEF Next

LEMMA Invariance == Spec => []IInv
BY InitIInv, NextIInv, PTL DEF Spec

(* The loop of tryPaths never turns an order round nor enlarges it.        *)
THEOREM LoopKeepsSide == Spec => []ShrinkKeepsSide
<1>1. IInv => ShrinkKeepsSide
  BY DEF IInv
<1> QED BY <1>1, Invariance, PTL

(* The loop of tryPaths computes OneNotional.                              *)
THEOREM LoopComputesOneNotional == Spec => []LoopIsOneNotional
<1>1. IInv => LoopIsOneNotional
  BY DEF IInv
<1> QED BY <1>1, Invariance, PTL

(* Each turn of the loop takes one notional off the order, and nothing     *)
(* comes between the turns: it ends after as many of them as the order was *)
(* too large by.  What ShrinkEnds needs besides is that it is run.         *)
TurnsTakeOneOff == [][pc = "shrink" => pc' = "idle" \/ Gap(Diff') = Gap(Diff) - 1]_vars

THEOREM LoopCloses == Spec => TurnsTakeOneOff
<1>1. IInv /\ [Next]_vars => [pc = "shrink" => pc' = "idle" \/ Gap(Diff') = Gap(Diff) - 1]_vars
  <2> SUFFICES ASSUME IInv, Next, pc = "shrink"
               PROVE  pc' = "idle" \/ Gap(Diff') = Gap(Diff) - 1
    OBVIOUS
  <2>1. Shrink \/ EndShrink
    BY DEF Next, Update, BeginShrink, Fill, Rollback
  <2>2. CASE Shrink
    <3> DEFINE d == Net(plan) - target
               e == Net(plan') - target
    <3>1. plan' = ShrinkStep(plan, confirm, target) /\ target' = target /\ Gap(d) > 1
      BY <2>2 DEF Shrink, Diff
    <3>2. d \in Int /\ plan \in Position /\ confirm \in Position /\ target \in Int
      BY DiffIsInt, CountersArePositions DEF IInv, TypeOK
    <3>3. (d > 1 => e = d - 1) /\ (d < -1 => e = d + 1)
      BY <3>1, <3>2, ShrinkStepGains
    <3>4. Gap(e) = Gap(d) - 1
      <4> HIDE DEF d, e
      <4> QED BY <3>1, <3>2, <3>3 DEF Gap
    <3> QED BY <3>1, <3>4 DEF Diff
  <2>3. CASE EndShrink
    BY <2>3 DEF EndShrink
  <2> QED BY <2>1, <2>2, <2>3
<1> QED BY <1>1, Invariance, PTL DEF Spec, TurnsTakeOneOff

(* After a whole order has filled, the same spreads ask for nothing more.  *)
THEOREM GridSettles == Spec => FilledIsSettled
<1>1. ASSUME TypeOK, Fill, plan = UpdatePosition(confirm, spread.on, spread.off)
      PROVE  UpdatePosition(confirm', spread.on, spread.off) = confirm'
  <2>1. confirm \in Position /\ spread \in Spreads /\ confirm' = plan
    BY <1>1, CountersArePositions DEF TypeOK, Fill
  <2>2. UpdatePosition(plan, spread.on, spread.off) = plan
    BY <1>1, <2>1, SpreadTypes, UpdateIsStable
  <2> QED BY <2>1, <2>2
<1>2. TypeOK => ((Fill /\ plan = UpdatePosition(confirm, spread.on, spread.off)) =>
                   UpdatePosition(confirm', spread.on, spread.off) = confirm')
  BY <1>1
<1> QED BY <1>2, PlannerTypeCorrect, PTL DEF FilledIsSettled

----------------------------------------------------------------------------
(* A turn of the loop raises neg only on the way back to a confirmed neg,  *)
(* and pos only above a confirmed pos that is smaller.                     *)
LEMMA ShrinkIsOneSided ==
  ASSUME NEW p \in Counters, NEW c \in Counters, NEW t \in Int, t = Net(c),
         ~BothSides(p), ~BothSides(c), Gap(Net(p) - t) > 1
  PROVE  ~BothSides(ShrinkStep(p, c, t))
<1>1. /\ p.pos \in Nat /\ p.neg \in Int /\ c.pos \in Nat /\ c.neg \in Int
      /\ p = [pos |-> p.pos, neg |-> p.neg]
  BY DEF Counters
<1>2. CASE Net(p) - t > 1
  <2>1. ShrinkStep(p, c, t) = IF p.pos > c.pos THEN [pos |-> p.pos - 1, neg |-> p.neg]
                                               ELSE [pos |-> p.pos, neg |-> p.neg + 1]
    BY <1>1, <1>2 DEF ShrinkStep
  <2>2. CASE p.pos > c.pos
    BY <1>1, <2>1, <2>2 DEF BothSides
  <2>3. CASE ~(p.pos > c.pos)
    <3>1. c.neg - p.neg > 1
      BY <1>1, <1>2, <2>3 DEF Net
    <3> QED BY <1>1, <2>1, <2>3, <3>1 DEF BothSides
  <2> QED BY <2>2, <2>3
<1>3. CASE Net(p) - t < -1
  <2>1. ShrinkStep(p, c, t) = IF p.pos > c.pos THEN [pos |-> p.pos + 1, neg |-> p.neg]
                                               ELSE [pos |-> p.pos, neg |-> p.neg - 1]
    <3>1. ~(Net(p) - t > 1)
      BY <1>1, <1>3 DEF Net
    <3> QED BY <1>1, <3>1 DEF ShrinkStep
  <2> QED BY <1>1, <2>1 DEF BothSides
<1> QED BY <1>1, <1>2, <1>3 DEF Net, Gap

(* Both counters that orders are made of are on one side, and the target   *)
(* is what the confirmed ones add up to.                                   *)
SidesInv == TypeOK /\ ~BothSides(plan) /\ ~BothSides(confirm) /\ target = Net(confirm)

LEMMA NextSidesInv == SidesInv /\ [Next]_vars => SidesInv'
<1> SUFFICES ASSUME SidesInv, [Next]_vars
             PROVE  ~BothSides(plan)' /\ ~BothSides(confirm)' /\ target' = Net(confirm)'
  BY NextTypeOK DEF SidesInv
<1> USE DEF SidesInv
<1>1. ASSUME NEW s \in Spreads, Update(s)
      PROVE  ~BothSides(plan)' /\ ~BothSides(confirm)' /\ target' = Net(confirm)'
  <2>1. ~BothSides(UpdatePosition(confirm, s.on, s.off))
    <3>1. confirm.pos \in Nat /\ confirm.neg \in Int
      BY DEF TypeOK, Counters
    <3> QED BY <3>1, SpreadTypes, UpdateIsOneSided
  <2> QED BY <1>1, <2>1 DEF Update
<1>2. CASE Shrink
  <2>1. ~BothSides(ShrinkStep(plan, confirm, target))
    BY <1>2, ShrinkIsOneSided DEF TypeOK, Shrink, Diff
  <2> QED BY <1>2, <2>1 DEF Shrink
<1>3. CASE BeginShrink \/ EndShrink
  BY <1>3 DEF BeginShrink, EndShrink
<1>4. CASE Fill \/ Rollback
  BY <1>4 DEF Fill, Rollback
<1>5. CASE UNCHANGED vars
  BY <1>5 DEF vars
<1> QED BY <1>1, <1>2, <1>3, <1>4, <1>5 DEF Next

(* No plan is ever long on both counters: with spreads that offer no gain  *)
(* both ways, for every table, and whatever orders were cut down before.   *)
THEOREM PlanIsOneSided == Spec => []OneSided
<1>1. Init => SidesInv
  BY InitTypeOK DEF Init, SidesInv, BothSides, Flat, Net
<1>2. SidesInv => OneSided
  BY DEF SidesInv, BothSides, OneSided
<1> QED BY <1>1, <1>2, NextSidesInv, PTL DEF Spec

----------------------------------------------------------------------------
(* A counter off its new value moves back towards it, and not past it.     *)
LEMMA BandPullsBack ==
  ASSUME NEW held \in Int, NEW build \in Int, NEW reduce \in Int, build <= reduce, NEW n \in Int
  PROVE  LET u == IntoBand(held, build, reduce)
             v == IntoBand(n, build, reduce)
         IN  /\ n <= u => n <= v /\ v <= u
             /\ n >= u => u <= v /\ v <= n
BY DEF IntoBand

(* What is left to do after an order that was cut down is no more than     *)
(* what was cut off, whichever counter the loop took it from.              *)
LEMMA CutOffIsLeft ==
  ASSUME NEW c \in Position, NEW on \in Int, NEW off \in Int, on + off <= 0
  PROVE  LET u == UpdatePosition(c, on, off)
             p == OneNotional(u, c, Net(c))
             diff == Net(u) - Net(c)
         IN  Gap(diff) > 1 => Gap(Net(UpdatePosition(p, on, off)) - Net(p)) < Gap(diff)
<1> DEFINE t == Net(c)
           u == UpdatePosition(c, on, off)
           p == OneNotional(u, c, t)
           v == UpdatePosition(p, on, off)
           diff == Net(u) - t
           far == Gap(diff) - 1
<1>1. /\ c.pos \in Int /\ c.neg \in Int /\ t \in Int
      /\ u \in Position /\ u.pos \in Int /\ u.neg \in Int
      /\ p \in Position /\ p.pos \in Int /\ p.neg \in Int
      /\ v \in Position /\ v.pos \in Int /\ v.neg \in Int
  <2>1. c.pos \in Int /\ c.neg \in Int /\ t \in Int
    BY DEF Position, Net
  <2>2. u \in Position
    BY UpdateIsPosition
  <2>3. p \in Position
    BY <2>1, <2>2, OneNotionalIsPosition
  <2>4. v \in Position
    BY <2>3, UpdateIsPosition
  <2> QED BY <2>1, <2>2, <2>3, <2>4 DEF Position
<1>2. /\ p.pos <= u.pos => p.pos <= v.pos /\ v.pos <= u.pos
      /\ p.pos >= u.pos => u.pos <= v.pos /\ v.pos <= p.pos
      /\ p.neg <= u.neg => p.neg <= v.neg /\ v.neg <= u.neg
      /\ p.neg >= u.neg => u.neg <= v.neg /\ v.neg <= p.neg
  <2>1. Build(off) <= Reduce(-on) /\ Build(on) <= Reduce(-off)
    BY EdgesAreMonotone, BandIsNotEmpty, EdgesAreNaturals
  <2>2. /\ Build(off) \in Int /\ Reduce(-on) \in Int
        /\ Build(on) \in Int /\ Reduce(-off) \in Int
    BY EdgesAreNaturals
  <2>3. /\ u.pos = IntoBand(c.pos, Build(off), Reduce(-on))
        /\ u.neg = IntoBand(c.neg, Build(on), Reduce(-off))
        /\ v.pos = IntoBand(p.pos, Build(off), Reduce(-on))
        /\ v.neg = IntoBand(p.neg, Build(on), Reduce(-off))
    BY DEF UpdatePosition
  <2> HIDE DEF u, p, v
  <2> QED BY <1>1, <2>1, <2>2, <2>3, BandPullsBack
<1>3. ASSUME diff > 1
      PROVE  \E back \in Int : /\ 0 <= back /\ back <= far
                               /\ p.pos = u.pos - back /\ p.neg = u.neg + (far - back)
  <2> DEFINE raise == u.pos - c.pos
             back == IF raise < far THEN IF raise < 0 THEN 0 ELSE raise ELSE far
  <2>1. p = [pos |-> u.pos - back, neg |-> u.neg + (far - back)]
    BY <1>3 DEF OneNotional
  <2>2. raise \in Int /\ far \in Int /\ 0 <= far
    BY <1>1, <1>3 DEF Gap, Net
  <2>3. back \in Int /\ 0 <= back /\ back <= far
    BY <2>2
  <2> QED BY <2>1, <2>3
<1>4. ASSUME diff < -1
      PROVE  \/ p.pos = u.pos + far /\ p.neg = u.neg
             \/ p.pos = u.pos /\ p.neg = u.neg - far
  <2>1. ~(diff > 1) /\ diff < -1 /\ u = [pos |-> u.pos, neg |-> u.neg]
    BY <1>1, <1>4 DEF Net, Position
  <2>2. p = IF u.pos - c.pos > 0 THEN [pos |-> u.pos + far, neg |-> u.neg]
                                 ELSE [pos |-> u.pos, neg |-> u.neg - far]
    BY <2>1 DEF OneNotional
  <2> QED BY <2>2
<1>5. /\ Net(v) - Net(p) = (v.pos - p.pos) - (v.neg - p.neg)
      /\ diff \in Int
  BY <1>1 DEF Net
<1>6. far = Gap(diff) - 1
  OBVIOUS
<1> HIDE DEF u, p, v, diff, far
<1>7. ASSUME diff > 1 PROVE Gap(Net(v) - Net(p)) < Gap(diff)
  <2>1. far \in Int /\ 0 <= far /\ far < Gap(diff)
    BY <1>5, <1>6, <1>7 DEF Gap
  <2>2. 0 <= Net(v) - Net(p) /\ Net(v) - Net(p) <= far
    BY <1>1, <1>2, <1>3, <1>5, <1>7, <2>1
  <2> QED BY <1>1, <1>5, <2>1, <2>2 DEF Gap
<1>8. ASSUME diff < -1 PROVE Gap(Net(v) - Net(p)) < Gap(diff)
  <2>1. far \in Int /\ 0 <= far /\ far < Gap(diff)
    BY <1>5, <1>6, <1>8 DEF Gap
  <2>2. -far <= Net(v) - Net(p) /\ Net(v) - Net(p) <= 0
    BY <1>1, <1>2, <1>4, <1>5, <1>8, <2>1
  <2> QED BY <1>1, <1>5, <2>1, <2>2 DEF Gap
<1>9. Gap(diff) > 1 => Gap(Net(v) - Net(p)) < Gap(diff)
  BY <1>5, <1>7, <1>8 DEF Gap
<1> QED BY <1>9 DEF u, p, v, diff

(* Between turns an open plan is the one asked for, or what the loop made  *)
(* of it: a rollback or a fill leaves nothing open.                        *)
OpenPlan == pc = "idle" /\ Diff # 0 => plan \in {asked, OneNotional(asked, confirm, target)}

PlanInv == IInv /\ SidesInv /\ OpenPlan

LEMMA NextOpenPlan == IInv /\ SidesInv /\ OpenPlan /\ [Next]_vars => OpenPlan'
<1> SUFFICES ASSUME IInv, SidesInv, OpenPlan, [Next]_vars PROVE OpenPlan'
  OBVIOUS
<1>1. ASSUME NEW s \in Spreads, Update(s) PROVE OpenPlan'
  BY <1>1 DEF Update, OpenPlan
<1>2. CASE BeginShrink \/ Shrink
  BY <1>2 DEF BeginShrink, Shrink, OpenPlan
<1>3. CASE EndShrink
  BY <1>3 DEF EndShrink, OpenPlan, IInv, LoopIsOneNotional
<1>4. CASE Fill \/ Rollback
  <2>1. confirm' = plan' /\ target' = Net(plan') /\ plan' \in Counters
    BY <1>4 DEF Fill, Rollback, SidesInv, TypeOK
  <2>2. Net(plan') - target' = 0
    BY <2>1 DEF Counters, Net
  <2> QED BY <2>2 DEF OpenPlan, Diff
<1>5. CASE UNCHANGED vars
  BY <1>5 DEF vars, OpenPlan, Diff
<1> QED BY <1>1, <1>2, <1>3, <1>4, <1>5 DEF Next

(* Filling any order the planner offers, whole or cut down to a notional,  *)
(* leaves less to do at the same spreads, also where the loop has taken    *)
(* the difference from the wrong counter.                                  *)
THEOREM FillsGetThere == Spec => FillsConverge
<1>1. Init => PlanInv
  <2>1. Init => Diff = 0
    BY DEF Init, Diff, Net, Flat
  <2>2. Init => SidesInv
    BY InitTypeOK DEF Init, SidesInv, BothSides, Flat, Net
  <2> QED BY <2>1, <2>2, InitIInv DEF PlanInv, OpenPlan
<1>2. PlanInv /\ [Next]_vars => PlanInv'
  BY NextIInv, NextSidesInv, NextOpenPlan DEF PlanInv
<1>3. ASSUME PlanInv, Fill, asked = UpdatePosition(confirm, spread.on, spread.off)
      PROVE  Remaining(confirm', target') < Remaining(confirm, target)
  <2> DEFINE u == UpdatePosition(confirm, spread.on, spread.off)
             w == UpdatePosition(plan, spread.on, spread.off)
  <2>1. /\ confirm \in Position /\ plan \in Position /\ asked \in Position
        /\ spread.on \in Int /\ spread.off \in Int /\ spread.on + spread.off <= 0
        /\ target = Net(confirm) /\ target \in Int
    BY <1>3, CountersArePositions, SpreadTypes DEF PlanInv, SidesInv, TypeOK
  <2>2. /\ confirm' = plan /\ target' = Net(plan) /\ spread' = spread
        /\ pc = "idle" /\ Diff # 0
    BY <1>3 DEF Fill
  <2>3. plan = u \/ plan = OneNotional(u, confirm, target)
    BY <1>3, <2>2 DEF PlanInv, OpenPlan
  <2>4. /\ Remaining(confirm', target') = Gap(Net(w) - Net(plan))
        /\ Remaining(confirm, target) = Gap(Net(u) - target)
    BY <2>2 DEF Remaining
  <2>5. Net(u) \in Int /\ Net(u) - target \in Int
    BY <1>3, <2>1 DEF Net, Position
  <2>6. CASE plan = u
    <3>1. w = plan
      BY <2>1, <2>6, UpdateIsStable
    <3>2. Net(w) - Net(plan) = 0 /\ Net(u) - target # 0
      BY <2>1, <2>2, <2>5, <2>6, <3>1 DEF Diff
    <3> QED BY <2>4, <2>5, <3>2 DEF Gap
  <2>7. CASE plan # u
    <3>1. Gap(Net(u) - target) > 1
      <4>1. Gap(Net(u) - target) \in Int
        BY <2>5 DEF Gap
      <4> QED BY <2>3, <2>5, <2>7, <4>1, OneNotionalOfSmall
    <3>2. plan = OneNotional(u, confirm, Net(confirm))
      BY <2>1, <2>3, <2>7
    <3> QED BY <2>1, <2>4, <3>1, <3>2, CutOffIsLeft
  <2> QED BY <2>6, <2>7
<1>4. PlanInv => ((Fill /\ asked = UpdatePosition(confirm, spread.on, spread.off)) =>
                    Remaining(confirm', target') < Remaining(confirm, target))
  BY <1>3
<1> QED BY <1>1, <1>2, <1>4, PTL DEF Spec, FillsConverge
=============================================================================
