----------------------------- MODULE ProfitLoss -----------------------------
(***************************************************************************)
(* The profit and loss that commitTrending (SpotDx.ts) books with a fill,  *)
(* and the loss at which it stops, added to the trade cycle.  This is one  *)
(* life of the process; what it finds saved is the initial state.          *)
(*                                                                         *)
(* A level is a price of token0 in token1.  Money is counted in units of   *)
(* amounts times levels, and averages are exact.                           *)
(***************************************************************************)
EXTENDS OrderCycle

CONSTANTS
  Levels,      \* the prices at which orders may be filled
  One,         \* units of amounts that make one token0
  BookedPNL       \* RealizedPNL of the saved configuration

ASSUME ProfitConstants ==
  /\ Levels \subseteq Nat \ {0}
  /\ One \in Nat \ {0}
  /\ BookedPNL \in Int

VARIABLES
  realized,   \* RealizedPNL
  entry,      \* PositionEntryLevel
  level,      \* NewLevel, the level of the last fill
  start,      \* StartRealizedPNL; 0 stands for "not known yet"
  origin,     \* history: the first RealizedPNL other than 0; 0 until there is one
  paid,       \* what the fills paid for token0, less what they got for it
  span        \* the levels at which the position now open was built

books  == <<realized, entry, level, start, origin, paid, span>>
plVars == <<vars, books>>

----------------------------------------------------------------------------
(* Fractions in lowest terms.                                              *)
CommonDivisors(n, d) == {m \in 1..d : n % m = 0 /\ d % m = 0}

GCD(n, d) ==
  LET common == CommonDivisors(n, d)
  IN  CHOOSE m \in common : \A k \in common : k <= m

Ratio(n, d) ==
  LET sign == IF d < 0 THEN -1 ELSE 1
      g    == GCD(sign * n, sign * d)
  IN  [n |-> (sign * n) \div g, d |-> (sign * d) \div g]

Whole(n)     == [n |-> n, d |-> 1]
Plus(x, y)   == Ratio(x.n * y.d + y.n * x.d, x.d * y.d)
Times(k, x)  == Ratio(k * x.n, x.d)
Minus(x, y)  == Plus(x, Times(-1, y))
AtMost(x, y) == x.n * y.d <= y.n * x.d

PLInit ==
  /\ Init
  /\ realized = Whole(BookedPNL) /\ start = Whole(0)
  /\ origin = Whole(BookedPNL)
  /\ entry = Whole(0) /\ level = 0
  /\ paid = 0 /\ span = {}

----------------------------------------------------------------------------
(* Mutant: the loss is counted from the last order, not the first.         *)
StartedAnew == realized

(* The loss is counted from what was booked when the first order came, or  *)
(* the first one to find something other than nothing.                     *)
Started == IF start = Whole(0) THEN realized ELSE start

(* A fifth of a notional lost, and nothing held.                           *)
TooMuchLost ==
  /\ target = 0
  /\ ~AtMost(Times(5, Minus(Started, realized)), Whole(UnitNotional * level))

Begun == start' = Started /\ UNCHANGED <<realized, entry, level, origin, paid, span>>

DeclineShort == Decline /\ "short" \in Faults /\ UNCHANGED books
DeclineLoss == Decline /\ Divides(order) /\ TooMuchLost /\ Begun
Place == Register /\ ~TooMuchLost /\ Begun

----------------------------------------------------------------------------
(* The side of the order; and the four ways to book a fill, in the order   *)
(* in which they are tried.  NewAmount is counted in notionals and         *)
(* ActualPosition in tokens.                                               *)
Side == IF order.amount < 0 THEN -1 ELSE 1

Adds == ~Opens /\ actual * Side > 0

(* Mutant: a position is never seen to change its side.                    *)
NeverFlips == FALSE

Flips == ~Opens /\ ~Adds /\ Side * order.delta * One > Gap(actual) * UnitNotional

Mean(p) == Ratio(actual * entry.n + order.delta * p * entry.d,
                 entry.d * (actual + order.delta))

(* Mutant: a reduction realizes the gain of all that is held.              *)
GainOfAll(p) == IF Opens \/ Adds THEN Whole(0) ELSE Times(actual, Minus(Whole(p), entry))

Gain(p) ==
  IF Opens \/ Adds THEN Whole(0)
  ELSE Times(IF Flips THEN actual ELSE -order.delta, Minus(Whole(p), entry))

(* The fill of BookFill at level p.                                        *)
BookProfit(p) ==
  /\ realized' = Plus(realized, Gain(p))
  /\ entry' = IF Opens \/ Flips THEN Whole(p) ELSE IF Adds THEN Mean(p) ELSE entry
  /\ level' = p
  /\ UNCHANGED start
  /\ origin' = IF origin = Whole(0) THEN realized' ELSE origin
  /\ paid' = paid + order.delta * p
  /\ span' = IF actual * actual' <= 0 THEN {p}
             ELSE IF Gap(actual) < Gap(actual') THEN span \cup {p} ELSE span

FillAt(p) == BookFill /\ BookProfit(p)

PLNext ==
  \/ \E p \in Levels : FillAt(p)
  \/ DeclineShort \/ DeclineLoss \/ Place
  \/ (Proceed \/ Meanwhile) /\ UNCHANGED books

PLSpec == PLInit /\ [][PLNext]_plVars
PLFairSpec == PLSpec /\ Fairness

----------------------------------------------------------------------------
(* Whatever the sequence of fills, and whichever way each of them was      *)
(* booked, the realized profit and the position at its entry level account *)
(* for all the money that was paid and received.                           *)
BooksBalance == Minus(Times(actual, entry), realized) = Whole(paid - BookedPNL)

(* PositionEntryLevel, "the average holding price" (constants.ts:551),     *)
(* lies between levels at which the position now held was built: nothing   *)
(* of a position that was closed or turned round is left in it.            *)
EntryWasTraded ==
  actual # 0 => \E low, high \in span : AtMost(Whole(low), entry) /\ AtMost(entry, Whole(high))

(* A process that has lost more than a fifth of a notional since the first *)
(* result it knows of places no order from an empty position any more,     *)
(* however the loss is spread over round trips (the stop-loss of           *)
(* commitTrending).  The first result is the RealizedPNL it was started    *)
(* with, or, if that is 0, what its first gain or loss made of it: such a  *)
(* first loss is not counted, however large it is.                         *)
LossEndsTrading ==
  [][Place /\ target = 0 =>
       AtMost(Times(5, Minus(origin, realized)), Whole(UnitNotional * level))]_plVars
=============================================================================

