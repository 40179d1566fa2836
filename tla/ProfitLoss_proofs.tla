-------------------------- MODULE ProfitLoss_proofs --------------------------
(***************************************************************************)
(* The trade cycle with its profit and loss implements the trade cycle,    *)
(* so what is proved of that holds here; the stop-loss binds; and in calm  *)
(* runs the books balance, at an entry level that was traded.              *)
(***************************************************************************)
EXTENDS ProfitLoss, OrderCycle_proofs

LEMMA StepIsCycleStep == [PLNext]_plVars => [Next]_vars
<1> SUFFICES ASSUME [PLNext]_plVars PROVE [Next]_vars
  OBVIOUS
<1>1. CASE (\E p \in Levels : FillAt(p)) \/ DeclineShort \/ DeclineLoss \/ Place
  BY <1>1 DEF FillAt, DeclineShort, DeclineLoss, Place, Next, Turn
<1>2. CASE (Proceed \/ Meanwhile) /\ UNCHANGED books
  BY <1>2 DEF Next, Turn
<1>3. CASE UNCHANGED plVars
  BY <1>3 DEF plVars
<1> QED BY <1>1, <1>2, <1>3 DEF PLNext

(* Booking profit and loss, and refusing orders for it, only picks among   *)
(* the behaviours of the trade cycle.                                      *)
THEOREM ProfitKeepsCycle == PLSpec => Spec
<1>1. PLInit => Init
  BY DEF PLInit
<1> QED BY <1>1, StepIsCycleStep, PTL DEF PLSpec, Spec

----------------------------------------------------------------------------
(* No order is registered but by Register.                                 *)
LEMMA ProceedRegistersNone ==
  ASSUME TInv, ~waiting, Proceed
  PROVE  ~waiting'
<1> USE DEF commitVars
<1>1. CASE CancelPending \/ Boot \/ BeginTurn \/ \E p \in Paths : SkipPath(p) \/ LoopPath(p)
  BY <1>1 DEF CancelPending, Boot, BeginTurn, SkipPath, LoopPath
<1>2. CASE \/ FoundPath \/ TopUpThrows \/ NoPath \/ ResetInTryPaths
           \/ PickNone \/ PickFirst \/ InputFails
  BY <1>2 DEF FoundPath, TopUpThrows, NoPath, ResetInTryPaths, PickNone, PickFirst, InputFails
<1>3. CASE Prepare \/ Number \/ PrepareFails \/ Send \/ SendFails \/ ReadBefore \/ BeforeFails
  BY <1>3 DEF Prepare, Number, PrepareFails, Send, SendFails, ReadBefore, BeforeFails, Abort, Release
<1>4. CASE SettleForked \/ SettleBraked \/ SettleFilled \/ SettleFails \/ BookFails
  BY <1>4 DEF SettleForked, SettleBraked, SettleFilled, SettleFails, BookFails, GiveUp, Release
<1>5. CASE EndTurn \/ EndTurnFails
  BY <1>5 DEF EndTurn, EndTurnFails
<1> QED BY <1>1, <1>2, <1>3, <1>4, <1>5 DEF Proceed

LEMMA MeanwhileRegistersNone ==
  ASSUME TInv, ~waiting, Meanwhile
  PROVE  ~waiting'
<1> USE DEF commitVars
<1>1. CASE Timer \/ Block \/ Cancel \/ Chase \/ Mine
  BY <1>1 DEF Timer, Block, Cancel, Chase, Mine, GiveUp, Release
<1>2. CASE \E o \in Orders : PollReturns(o) \/ RelayReceipt(o) \/ ChaseAnswered(o)
  BY <1>2 DEF PollReturns, RelayReceipt, ChaseAnswered
<1>3. CASE Operator
  BY <1>3 DEF Operator, Add, Cut, BuyOrSell, Pause, BeginView, EndView, BeginReset, EndReset,
     Command
<1> QED BY <1>1, <1>2, <1>3 DEF Meanwhile

(* The loss is counted from the first result there is: until an order has  *)
(* found it that is the one on the books, and an order under way has not.  *)
StartKnown ==
  \/ start = Whole(0) /\ origin = realized /\ (waiting => realized = Whole(0))
  \/ start # Whole(0) /\ start = origin

LEMMA NextStartKnown ==
  ASSUME TInv, StartKnown, [PLNext]_plVars
  PROVE  StartKnown'
<1>1. Started = origin
  BY DEF StartKnown, Started
<1>2. CASE \E p \in Levels : FillAt(p)
  <2>1. pc = "filled" /\ start' = start /\ ~waiting'
        /\ origin' = IF origin = Whole(0) THEN realized' ELSE origin
    BY <1>2 DEF FillAt, BookProfit, BookFill
  <2>2. waiting
    BY <2>1 DEF TInv, ReleasedAfterCommit, Committing
  <2> QED BY <2>1, <2>2 DEF StartKnown, Whole
<1>3. CASE DeclineLoss \/ Place
  <2>1. start' = origin /\ UNCHANGED <<realized, origin>>
    BY <1>1, <1>3 DEF DeclineLoss, Place, Begun
  <2>2. start' = Whole(0) => start = Whole(0)
    BY <2>1 DEF StartKnown
  <2> QED BY <2>1, <2>2 DEF StartKnown, Whole
<1>4. CASE DeclineShort
  BY <1>4 DEF DeclineShort, Decline, books, StartKnown, Whole
<1>5. CASE (Proceed \/ Meanwhile) /\ UNCHANGED books
  BY <1>5, ProceedRegistersNone, MeanwhileRegistersNone DEF books, StartKnown, Whole
<1>6. CASE UNCHANGED plVars
  BY <1>6 DEF plVars, vars, books, StartKnown, Whole
<1> QED BY <1>2, <1>3, <1>4, <1>5, <1>6 DEF PLNext

(* Whatever the configuration it was started with, a process that has lost *)
(* a fifth of a notional since the first result it knows of places no      *)
(* order when flat, over any sequence of orders, gains and losses.  The    *)
(* loss that is the first result itself, of a process started with none,   *)
(* is not among what it has lost since.                                    *)
THEOREM StopLossBinds == PLSpec => LossEndsTrading
<1>1. PLInit => TInv /\ StartKnown
  <2>1. PLInit => TInv
    BY InitTInv DEF PLInit
  <2>2. PLInit => StartKnown
    BY DEF PLInit, Init, StartKnown
  <2> QED BY <2>1, <2>2
<1>2. TInv /\ StartKnown /\ [PLNext]_plVars => TInv' /\ StartKnown'
  BY NextTInv, StepIsCycleStep, NextStartKnown
<1>3. StartKnown => Started = origin
  BY DEF StartKnown, Started
<1>4. StartKnown => (Place /\ target = 0 =>
        AtMost(Times(5, Minus(origin, realized)), Whole(UnitNotional * level)))
  BY <1>3 DEF Place, TooMuchLost
<1>5. StartKnown /\ [PLNext]_plVars =>
        [Place /\ target = 0 =>
           AtMost(Times(5, Minus(origin, realized)), Whole(UnitNotional * level))]_plVars
  BY <1>4
<1> QED BY <1>1, <1>2, <1>5, PTL DEF PLSpec, LossEndsTrading

----------------------------------------------------------------------------
(* Fractions.                                                              *)
LEMMA GreatestDivisor ==
  ASSUME NEW n \in Int, NEW d \in Nat \ {0}
  PROVE  /\ GCD(n, d) \in 1..d /\ n % GCD(n, d) = 0 /\ d % GCD(n, d) = 0
         /\ \A k \in CommonDivisors(n, d) : k <= GCD(n, d)
<1>1. 1 \in CommonDivisors(n, d) /\ CommonDivisors(n, d) \subseteq 1..d
  BY DEF CommonDivisors
<1>2. \E m \in CommonDivisors(n, d) : \A k \in CommonDivisors(n, d) : k <= m
  BY <1>1, LastOfRange
<1>3. GCD(n, d) \in CommonDivisors(n, d) /\ \A k \in CommonDivisors(n, d) : k <= GCD(n, d)
  BY <1>2 DEF GCD
<1> QED BY <1>3 DEF CommonDivisors

LEMMA CancelFactor ==
  ASSUME NEW g \in Int, g # 0, NEW x \in Int, NEW y \in Int, g * x = g * y
  PROVE  x = y
<1>1. g * (x - y) = 0
  OBVIOUS
<1>2. x - y = 0
  BY <1>1
<1> QED BY <1>2

LEMMA Divided ==
  ASSUME NEW x \in Int, NEW g \in Nat \ {0}, x % g = 0
  PROVE  x \div g \in Int /\ x = g * (x \div g)
OBVIOUS

(* A fraction in lowest terms is the fraction it was made of.              *)
Fractions == [n : Int, d : Nat \ {0}]

LEMMA RatioValue ==
  ASSUME NEW n \in Int, NEW d \in Int, d # 0
  PROVE  /\ Ratio(n, d) \in Fractions
         /\ Ratio(n, d).n * d = n * Ratio(n, d).d
<1> DEFINE sign == IF d < 0 THEN -1 ELSE 1
           N == sign * n
           D == sign * d
           g == GCD(N, D)
           r == Ratio(n, d)
<1>1. N \in Int /\ D \in Nat \ {0} /\ N * d = n * D
  <2>1. CASE d < 0
    <3>1. sign = -1
      BY <2>1
    <3>2. N = -n /\ D = -d
      BY <3>1
    <3> HIDE DEF N, D
    <3>3. (-n) * d = n * (-d)
      OBVIOUS
    <3> QED BY <2>1, <3>2, <3>3
  <2>2. CASE d > 0
    <3>1. sign = 1
      BY <2>2
    <3>2. N = n /\ D = d
      BY <3>1
    <3> HIDE DEF N, D
    <3> QED BY <2>2, <3>2
  <2> QED BY <2>1, <2>2
<1>2. r = [n |-> N \div g, d |-> D \div g]
  BY DEF Ratio
<1> HIDE DEF N, D
<1>3. g \in Nat \ {0} /\ N % g = 0 /\ D % g = 0
  BY <1>1, GreatestDivisor
<1> HIDE DEF g, r
<1>4. /\ r.n \in Int /\ N = g * r.n
      /\ r.d \in Int /\ D = g * r.d
  BY <1>1, <1>2, <1>3, Divided
<1>5. r.d > 0
  BY <1>1, <1>3, <1>4
<1>6. g * (r.n * d) = g * (n * r.d)
  <2>1. g * (r.n * d) = N * d
    BY <1>3, <1>4
  <2>2. g * (n * r.d) = n * D
    BY <1>3, <1>4
  <2> QED BY <1>1, <2>1, <2>2
<1>7. r.n * d = n * r.d
  <2> DEFINE x == r.n * d
             y == n * r.d
  <2>1. x \in Int /\ y \in Int /\ g \in Int /\ g # 0 /\ g * x = g * y
    BY <1>3, <1>4, <1>6
  <2> HIDE DEF x, y
  <2>2. x = y
    BY <2>1, CancelFactor
  <2> QED BY <2>2 DEF x, y
<1>8. r = [n |-> r.n, d |-> r.d]
  BY <1>2
<1> QED BY <1>4, <1>5, <1>7, <1>8 DEF r, Fractions
LEMMA MultipleDivided ==
  ASSUME NEW k \in Int, NEW g \in Nat \ {0}, NEW x \in Int, x = k * g
  PROVE  x % g = 0 /\ x \div g = k
<1> DEFINE q == x \div g
           r == x % g
<1>1. q \in Int /\ r \in Int /\ 0 <= r /\ r < g /\ x = g * q + r
  OBVIOUS
<1> HIDE DEF q, r
<1>2. g * (k - q) = r
  BY <1>1
<1>3. CASE k - q >= 1
  <2>1. g * (k - q) >= g
    BY <1>1, <1>3
  <2> QED BY <1>1, <1>2, <2>1
<1>4. CASE k - q <= -1
  <2>1. g * (k - q) <= -g
    BY <1>1, <1>4
  <2> QED BY <1>1, <1>2, <2>1
<1>5. CASE k - q = 0
  BY <1>1, <1>2, <1>5 DEF q, r
<1> QED BY <1>1, <1>3, <1>4, <1>5

(* Of a multiple of its denominator nothing but the factor is left.        *)
LEMMA RatioIsWhole ==
  ASSUME NEW k \in Int, NEW d \in Int, d # 0
  PROVE  Ratio(k * d, d) = Whole(k)
<1> DEFINE n == k * d
           r == Ratio(n, d)
           sign == IF d < 0 THEN -1 ELSE 1
           D == sign * d
<1>1. D \in Nat \ {0} /\ sign * n = k * D /\ sign * n \in Int
  <2>1. CASE d < 0
    <3>1. (-1) * (k * d) = k * ((-1) * d)
      OBVIOUS
    <3> QED BY <2>1, <3>1
  <2>2. CASE d > 0
    BY <2>2
  <2> QED BY <2>1, <2>2
<1> DEFINE N == sign * n
<1>2. r = [n |-> N \div GCD(N, D), d |-> D \div GCD(N, D)]
  BY DEF Ratio
<1> HIDE DEF N, D, n, r
<1>3. N \in Int /\ N = k * D
  BY <1>1 DEF N
<1>4. N % D = 0 /\ D % D = 0 /\ N \div D = k /\ D \div D = 1
  <2>1. D \in Int /\ D = 1 * D /\ D \in Nat \ {0}
    BY <1>1
  <2> QED BY <1>3, <2>1, MultipleDivided
<1>5. D \in CommonDivisors(N, D)
  BY <1>1, <1>4 DEF CommonDivisors
<1>6. GCD(N, D) = D
  <2>1. N \in Int /\ D \in Nat \ {0}
    BY <1>1, <1>3
  <2>2. GCD(N, D) \in 1..D /\ D <= GCD(N, D)
    BY <2>1, <1>5, GreatestDivisor
  <2> QED BY <2>1, <2>2
<1>7. r = Whole(k)
  BY <1>2, <1>4, <1>6 DEF Whole
<1> QED BY <1>7 DEF r, n

(* The fraction x is n / d, whatever terms it is written in.               *)
Worth(x, n, d) == x.n * d = n * x.d

LEMMA CancelBoth ==
  ASSUME NEW k \in Int, k # 0, NEW a \in Int, NEW b \in Int, NEW c \in Int, NEW d \in Int,
         k * (a * b) = k * (c * d)
  PROVE  a * b = c * d
<1>1. a * b \in Int /\ c * d \in Int
  OBVIOUS
<1> DEFINE x == a * b
           y == c * d
<1>2. x \in Int /\ y \in Int /\ k * x = k * y
  BY <1>1
<1> HIDE DEF x, y
<1>3. x = y
  BY <1>2, CancelFactor
<1> QED BY <1>3 DEF x, y

LEMMA SameWorth ==
  ASSUME NEW x \in Fractions, NEW n \in Int, NEW d \in Int, d # 0, Worth(x, n, d),
         NEW m \in Int, NEW e \in Int, n * e = m * d
  PROVE  Worth(x, m, e)
<1> DEFINE xn == x.n
           xd == x.d
<1>1. xn \in Int /\ xd \in Int /\ xn * d = n * xd
  BY DEF Fractions, Worth
<1> HIDE DEF xn, xd
<1>2. d * (xn * e) = e * (xn * d)
  BY <1>1
<1>3. e * (xn * d) = e * (n * xd)
  BY <1>1
<1>4. e * (n * xd) = xd * (n * e)
  BY <1>1
<1>5. xd * (n * e) = xd * (m * d)
  OBVIOUS
<1>6. xd * (m * d) = d * (m * xd)
  BY <1>1
<1>7. d * (xn * e) = d * (m * xd)
  BY <1>2, <1>3, <1>4, <1>5, <1>6
<1>8. xn * e = m * xd
  BY <1>1, <1>7, CancelBoth
<1> QED BY <1>8 DEF Worth, xn, xd

LEMMA WorthItself ==
  ASSUME NEW x \in Fractions
  PROVE  x.n \in Int /\ x.d \in Int /\ x.d > 0 /\ Worth(x, x.n, x.d)
BY DEF Fractions, Worth

LEMMA WorthOfRatio ==
  ASSUME NEW n \in Int, NEW d \in Int, d # 0
  PROVE  Ratio(n, d) \in Fractions /\ Worth(Ratio(n, d), n, d)
BY RatioValue DEF Worth

LEMMA WorthOfWhole ==
  ASSUME NEW k \in Int
  PROVE  Whole(k) \in Fractions /\ Worth(Whole(k), k, 1)
BY DEF Whole, Worth, Fractions

LEMMA ProductNotZero ==
  ASSUME NEW a \in Int, NEW b \in Int, a # 0, b # 0
  PROVE  a * b \in Int /\ a * b # 0
OBVIOUS

LEMMA WorthOfTimes ==
  ASSUME NEW x \in Fractions, NEW n \in Int, NEW d \in Int, d # 0, Worth(x, n, d), NEW k \in Int
  PROVE  Times(k, x) \in Fractions /\ Worth(Times(k, x), k * n, d)
<1> DEFINE xn == x.n
           xd == x.d
<1>1. xn \in Int /\ xd \in Int /\ xd # 0 /\ xn * d = n * xd
  BY DEF Fractions, Worth
<1>2. Times(k, x) = Ratio(k * xn, xd)
  BY DEF Times
<1> HIDE DEF xn, xd
<1>3. k * xn \in Int /\ k * n \in Int
  BY <1>1
<1>4. Times(k, x) \in Fractions /\ Worth(Times(k, x), k * xn, xd)
  BY <1>1, <1>2, <1>3, WorthOfRatio
<1>5. (k * xn) * d = (k * n) * xd
  <2>1. (k * xn) * d = k * (xn * d)
    BY <1>1
  <2>2. k * (n * xd) = (k * n) * xd
    BY <1>1
  <2> QED BY <1>1, <2>1, <2>2
<1> QED BY <1>1, <1>3, <1>4, <1>5, SameWorth

LEMMA WorthOfPlus ==
  ASSUME NEW x \in Fractions, NEW n \in Int, NEW d \in Int, d # 0, Worth(x, n, d),
         NEW y \in Fractions, NEW m \in Int, NEW e \in Int, e # 0, Worth(y, m, e)
  PROVE  Plus(x, y) \in Fractions /\ Worth(Plus(x, y), n * e + m * d, d * e)
<1> DEFINE xn == x.n
           xd == x.d
           yn == y.n
           yd == y.d
<1>1. /\ xn \in Int /\ xd \in Int /\ xd # 0 /\ xn * d = n * xd
      /\ yn \in Int /\ yd \in Int /\ yd # 0 /\ yn * e = m * yd
  BY DEF Fractions, Worth
<1>2. Plus(x, y) = Ratio(xn * yd + yn * xd, xd * yd)
  BY DEF Plus
<1> HIDE DEF xn, xd, yn, yd
<1>3. /\ xn * yd + yn * xd \in Int /\ xd * yd \in Int /\ xd * yd # 0
      /\ n * e + m * d \in Int /\ d * e \in Int
  BY <1>1, ProductNotZero
<1>4. Plus(x, y) \in Fractions /\ Worth(Plus(x, y), xn * yd + yn * xd, xd * yd)
  BY <1>2, <1>3, WorthOfRatio
<1>5. (xn * yd + yn * xd) * (d * e) = (n * e + m * d) * (xd * yd)
  <2>1. (xn * yd + yn * xd) * (d * e) = (xn * d) * (yd * e) + (yn * e) * (xd * d)
    BY <1>1
  <2>2. (n * xd) * (yd * e) + (m * yd) * (xd * d) = (n * e + m * d) * (xd * yd)
    BY <1>1
  <2> QED BY <1>1, <2>1, <2>2
<1> QED BY <1>3, <1>4, <1>5, SameWorth

LEMMA WorthOfMinus ==
  ASSUME NEW x \in Fractions, NEW n \in Int, NEW d \in Int, d # 0, Worth(x, n, d),
         NEW y \in Fractions, NEW m \in Int, NEW e \in Int, e # 0, Worth(y, m, e)
  PROVE  Minus(x, y) \in Fractions /\ Worth(Minus(x, y), n * e - m * d, d * e)
<1>1. Times(-1, y) \in Fractions /\ Worth(Times(-1, y), -m, e)
  <2>1. (-1) * m = -m
    OBVIOUS
  <2>2. -1 \in Int
    OBVIOUS
  <2>3. \A k \in Int : Times(k, y) \in Fractions /\ Worth(Times(k, y), k * m, e)
    BY WorthOfTimes
  <2> HIDE DEF Times
  <2> QED BY <2>1, <2>2, <2>3
<1>2. Plus(x, Times(-1, y)) \in Fractions /\ Worth(Plus(x, Times(-1, y)), n * e + (-m) * d, d * e)
  BY <1>1, WorthOfPlus
<1>3. n * e + (-m) * d = n * e - m * d
  OBVIOUS
<1> QED BY <1>2, <1>3 DEF Minus

(* A difference that is worth an integer is written as one.                *)
LEMMA MinusIsWhole ==
  ASSUME NEW x \in Fractions, NEW y \in Fractions, NEW k \in Int, Worth(Minus(x, y), k, 1)
  PROVE  Minus(x, y) = Whole(k)
<1> DEFINE w == Times(-1, y)
           n == x.n * w.d + w.n * x.d
           d == x.d * w.d
<1>1. w \in Fractions
  <2>1. \A f \in Int : Times(f, y) \in Fractions
    <3>1. y.n \in Int /\ y.d \in Int /\ y.d # 0 /\ Worth(y, y.n, y.d)
      BY WorthItself
    <3> QED BY <3>1, WorthOfTimes
  <2> QED BY <2>1
<1> HIDE DEF w
<1>2. n \in Int /\ d \in Int /\ d # 0
  BY <1>1, ProductNotZero DEF Fractions
<1>3. Minus(x, y) = Ratio(n, d)
  BY DEF Minus, Plus, w
<1> HIDE DEF n, d
<1> DEFINE z == Ratio(n, d)
<1>4. z \in Fractions /\ z.n * d = n * z.d /\ z.n * 1 = k * z.d
  BY <1>2, <1>3, RatioValue DEF Worth
<1> DEFINE zn == z.n
           zd == z.d
<1>5. zn \in Int /\ zd \in Int /\ zd # 0 /\ zn * d = n * zd /\ zn = k * zd
  BY <1>4 DEF Fractions
<1> HIDE DEF zn, zd
<1>6. zd * n = zd * (k * d)
  <2>1. zd * (k * d) = (k * zd) * d
    BY <1>2, <1>5
  <2> QED BY <1>2, <1>5, <2>1
<1>7. n = k * d
  <2> DEFINE q == k * d
  <2>1. q \in Int /\ zd * n = zd * q
    BY <1>2, <1>6
  <2> HIDE DEF q
  <2>2. n = q
    BY <1>2, <1>5, <2>1, CancelFactor
  <2> QED BY <2>2 DEF q
<1>8. Ratio(k * d, d) = Whole(k)
  BY <1>2, RatioIsWhole
<1> QED BY <1>3, <1>7, <1>8
----------------------------------------------------------------------------
(* What is booked: the realized profit is the position at its entry level, *)
(* less the money that went into it.                                       *)
Money == paid - BookedPNL

BooksOK ==
  /\ realized \in Fractions /\ entry \in Fractions
  /\ paid \in Int /\ span \subseteq Levels

Balanced == Worth(realized, actual * entry.n - Money * entry.d, entry.d)

(* The fill that is about to be booked.                                    *)
FillOK ==
  /\ actual \in Int /\ order.delta \in Int /\ order.delta # 0
  /\ (order.delta > 0 <=> Side > 0) /\ Side \in {-1, 1}
  /\ Opens <=> actual = 0
  /\ actual' = actual + order.delta

LEMMA FillIsOK ==
  ASSUME TInv, SInv, NoDust, BookFill
  PROVE  FillOK
<1>1. actual \in Int /\ order.delta \in Int /\ order.amount \in Int
  BY DEF TInv, GridOK, CommitOK, OrderRecords
<1>2. Along(order.delta)
  BY DEF SInv, BookFill
<1>3. Opens <=> actual = 0
  BY <1>1, UnitIsPositive DEF NoDust, Opens, Gap
<1>4. actual' = actual + order.delta
  BY <1>1, <1>3 DEF BookFill
<1>5. order.delta # 0 /\ (order.delta > 0 <=> Side > 0) /\ Side \in {-1, 1}
  BY <1>1, <1>2 DEF Along, Side
<1> QED BY <1>1, <1>3, <1>4, <1>5 DEF FillOK

LEMMA LevelType == ASSUME NEW p \in Levels PROVE p \in Int /\ p > 0
BY ProfitConstants

(* What Mean returns when the fill adds to the position, in terms of what  *)
(* is held and what is added, without their side.                          *)
LEMMA MeanWorth ==
  ASSUME BooksOK, FillOK, Adds, NEW p \in Levels
  PROVE  /\ Mean(p) \in Fractions
         /\ Worth(Mean(p), actual * entry.n + order.delta * p * entry.d,
                  entry.d * (actual + order.delta))
         /\ Worth(Mean(p), Gap(actual) * entry.n + Gap(order.delta) * p * entry.d,
                  entry.d * (Gap(actual) + Gap(order.delta)))
         /\ actual + order.delta # 0
         /\ Gap(actual) > 0 /\ Gap(order.delta) > 0
<1> DEFINE a == actual
           b == order.delta
           n == entry.n
           d == entry.d
<1>1. a \in Int /\ b \in Int /\ n \in Int /\ d \in Int /\ d > 0 /\ p \in Int
  BY LevelType DEF FillOK, BooksOK, Fractions
<1>2. (a > 0 /\ b > 0) \/ (a < 0 /\ b < 0)
  BY DEF FillOK, Adds
<1>3. Mean(p) = Ratio(a * n + b * p * d, d * (a + b))
  BY DEF Mean
<1> HIDE DEF a, b, n, d
<1>4. /\ a * n + b * p * d \in Int /\ a + b \in Int /\ a + b # 0
      /\ d * (a + b) \in Int /\ d * (a + b) # 0
  BY <1>1, <1>2, ProductNotZero
<1>5. Mean(p) \in Fractions /\ Worth(Mean(p), a * n + b * p * d, d * (a + b))
  BY <1>3, <1>4, WorthOfRatio
<1>6. CASE a > 0 /\ b > 0
  <2>1. Gap(a) = a /\ Gap(b) = b
    BY <1>1, <1>6 DEF Gap
  <2> QED BY <1>1, <1>4, <1>5, <1>6, <2>1 DEF a, b, n, d
<1>7. CASE a < 0 /\ b < 0
  <2>1. Gap(a) = -a /\ Gap(b) = -b
    BY <1>1, <1>7 DEF Gap
  <2> DEFINE m == (-a) * n + (-b) * p * d
             e == d * ((-a) + (-b))
  <2>2. m \in Int /\ e \in Int
    BY <1>1
  <2>3. m = -(a * n + b * p * d) /\ e = -(d * (a + b))
    BY <1>1
  <2> HIDE DEF m, e
  <2>4. (a * n + b * p * d) * e = m * (d * (a + b))
    BY <1>4, <2>2, <2>3
  <2>5. Worth(Mean(p), m, e)
    BY <1>4, <1>5, <2>2, <2>4, SameWorth
  <2>6. Worth(Mean(p), (-a) * n + (-b) * p * d, d * ((-a) + (-b)))
    BY <2>5 DEF m, e
  <2> QED BY <1>1, <1>4, <1>5, <1>7, <2>1, <2>6 DEF a, b, n, d
<1> QED BY <1>2, <1>6, <1>7

(* The four ways to book a fill keep the balance.                          *)
LEMMA FillBalances ==
  ASSUME BooksOK, Balanced, FillOK, NEW p \in Levels, BookProfit(p)
  PROVE  BooksOK' /\ Balanced'
<1> DEFINE a == actual
           b == order.delta
           n == entry.n
           d == entry.d
           k == Money
<1>1. /\ a \in Int /\ b \in Int /\ n \in Int /\ d \in Int /\ d # 0 /\ p \in Int /\ k \in Int
      /\ actual' = a + b /\ Money' = k + b * p /\ paid' \in Int
  <2>1. a \in Int /\ b \in Int /\ n \in Int /\ d \in Int /\ d # 0 /\ p \in Int /\ actual' = a + b
    BY LevelType DEF FillOK, BooksOK, Fractions
  <2>2. paid \in Int /\ BookedPNL \in Int /\ k = paid - BookedPNL
    BY ProfitConstants DEF BooksOK, Money
  <2>3. b * p \in Int
    BY <2>1
  <2>4. paid' = paid + b * p /\ Money' = paid' - BookedPNL
    BY DEF BookProfit, Money
  <2> HIDE DEF a, b, n, d, k
  <2>5. paid' \in Int /\ k \in Int /\ Money' = k + b * p
    BY <2>2, <2>3, <2>4
  <2> QED BY <2>1, <2>5
<1>2. realized \in Fractions /\ Worth(realized, a * n - k * d, d)
  BY DEF BooksOK, Balanced
<1>3. Worth(entry, n, d) /\ entry \in Fractions
  BY DEF BooksOK, Worth
<1>4. span' \subseteq Levels
  BY DEF BookProfit, BooksOK
<1>5. realized' = Plus(realized, Gain(p))
  BY DEF BookProfit
<1>6. Whole(p) \in Fractions /\ Worth(Whole(p), p, 1) /\ Whole(p).n = p /\ Whole(p).d = 1
  BY <1>1, WorthOfWhole DEF Whole
<1>7. Whole(0) \in Fractions /\ Worth(Whole(0), 0, 1)
  BY WorthOfWhole
<1> DEFINE r == Plus(realized, Gain(p))
<1>8. ASSUME NEW m \in Int, NEW c \in Int, c # 0, Gain(p) \in Fractions, Worth(Gain(p), m, c),
             NEW nn \in Int, NEW dd \in Int, entry' \in Fractions, entry'.n = nn, entry'.d = dd,
             ((a * n - k * d) * c + m * d) * dd = ((a + b) * nn - (k + b * p) * dd) * (d * c)
      PROVE  BooksOK' /\ Balanced'
  <2> HIDE DEF a, b, n, d, k
  <2>1. a * n - k * d \in Int /\ d * c \in Int /\ d * c # 0
    BY <1>1, <1>8, ProductNotZero
  <2>2. r \in Fractions /\ Worth(r, (a * n - k * d) * c + m * d, d * c)
    BY <1>1, <1>2, <1>8, <2>1, WorthOfPlus
  <2>3. /\ (a * n - k * d) * c + m * d \in Int
        /\ (a + b) * nn - (k + b * p) * dd \in Int
    BY <1>1, <1>8, <2>1
  <2>4. Worth(r, (a + b) * nn - (k + b * p) * dd, dd)
    BY <1>8, <2>1, <2>2, <2>3, SameWorth
  <2>5. BooksOK'
    BY <1>1, <1>4, <1>5, <1>8, <2>2 DEF BooksOK
  <2> QED BY <1>1, <1>5, <1>8, <2>4, <2>5 DEF Balanced
<1>9. CASE Opens
  <2>1. a = 0 /\ Gain(p) = Whole(0) /\ entry' = Whole(p)
    BY <1>9 DEF FillOK, Gain, BookProfit
  <2> HIDE DEF a, b, n, d, k
  <2>2. ((a * n - k * d) * 1 + 0 * d) * 1 = ((a + b) * p - (k + b * p) * 1) * (d * 1)
    BY <1>1, <2>1
  <2> QED BY <1>1, <1>6, <1>7, <1>8, <2>1, <2>2
<1>10. CASE ~Opens /\ Adds
  <2>1. Gain(p) = Whole(0) /\ entry' = Mean(p)
    BY <1>10 DEF Gain, BookProfit, Flips
  <2>2. Mean(p) \in Fractions /\ Worth(Mean(p), a * n + b * p * d, d * (a + b))
    BY <1>10, MeanWorth
  <2> DEFINE nn == Mean(p).n
             dd == Mean(p).d
  <2>3. nn \in Int /\ dd \in Int /\ nn * (d * (a + b)) = (a * n + b * p * d) * dd
    BY <2>2 DEF Fractions, Worth
  <2> HIDE DEF a, b, n, d, k, nn, dd
  <2>4. ((a * n - k * d) * 1 + 0 * d) * dd = ((a + b) * nn - (k + b * p) * dd) * (d * 1)
    <3>1. ((a + b) * nn - (k + b * p) * dd) * (d * 1) = nn * (d * (a + b)) - (k + b * p) * dd * d
      BY <1>1, <2>3
    <3>2. (a * n + b * p * d) * dd - (k + b * p) * dd * d = ((a * n - k * d) * 1 + 0 * d) * dd
      BY <1>1, <2>3
    <3> QED BY <2>3, <3>1, <3>2
  <2> QED BY <1>7, <1>8, <2>1, <2>2, <2>3, <2>4 DEF nn, dd
<1>11. CASE ~Opens /\ ~Adds
  <2> DEFINE f == IF Flips THEN a ELSE -b
             x == Minus(Whole(p), entry)
  <2>1. Gain(p) = Times(f, x) /\ f \in Int
    BY <1>1, <1>11 DEF Gain
  <2>2. x \in Fractions /\ Worth(x, p * d - n * 1, 1 * d)
    BY <1>1, <1>3, <1>6, WorthOfMinus
  <2>3. p * d - n * 1 = p * d - n /\ p * d - n \in Int /\ 1 * d = d
    <3> HIDE DEF n, d
    <3> QED BY <1>1
  <2>4. x \in Fractions /\ Worth(x, p * d - n, d)
    BY <2>2, <2>3
  <2> HIDE DEF f, x
  <2>5. Gain(p) \in Fractions /\ Worth(Gain(p), f * (p * d - n), d)
    BY <1>1, <2>1, <2>3, <2>4, WorthOfTimes
  <2>6. f * (p * d - n) \in Int
    BY <2>1, <2>3
  <2>7. CASE Flips
    <3>1. f = a /\ entry' = Whole(p)
      BY <1>11, <2>7 DEF f, BookProfit
    <3>2. ((a * n - k * d) * d + (f * (p * d - n)) * d) * 1 = ((a + b) * p - (k + b * p) * 1) * (d * d)
      <4> HIDE DEF a, b, n, d, k
      <4> QED BY <1>1, <3>1
    <3> QED BY <1>1, <1>6, <1>8, <2>5, <2>6, <3>1, <3>2
  <2>8. CASE ~Flips
    <3>1. f = -b /\ entry' = entry
      BY <1>11, <2>8 DEF f, BookProfit
    <3>2. ((a * n - k * d) * d + (f * (p * d - n)) * d) * d = ((a + b) * n - (k + b * p) * d) * (d * d)
      <4> HIDE DEF a, b, n, d, k
      <4> QED BY <1>1, <3>1
    <3>3. entry' \in Fractions /\ entry'.n = n /\ entry'.d = d
      BY <1>3, <3>1
    <3> QED BY <1>1, <1>8, <2>5, <2>6, <3>2, <3>3
  <2> QED BY <2>7, <2>8
<1> QED BY <1>9, <1>10, <1>11
----------------------------------------------------------------------------
(* Nothing but a fill changes what is booked or the position.              *)
BookingInv == TInv /\ HInv /\ SInv /\ NoDust /\ BooksOK /\ Balanced

LEMMA OnlyFillsBook ==
  ASSUME Calm, TInv, HInv, [PLNext]_plVars, ~\E p \in Levels : FillAt(p)
  PROVE  UNCHANGED <<actual, realized, entry, paid, span>>
<1>1. CASE DeclineShort
  BY <1>1 DEF DeclineShort, Decline, books, gridVars
<1>2. CASE DeclineLoss \/ Place
  BY <1>2 DEF DeclineLoss, Place, Decline, Register, Begun, gridVars
<1>3. CASE (Proceed \/ Meanwhile) /\ UNCHANGED books
  BY <1>3, ActualStays DEF books
<1>4. CASE UNCHANGED plVars
  BY <1>4 DEF plVars, vars, books
<1> QED BY <1>1, <1>2, <1>3, <1>4 DEF PLNext

LEMMA InitBooks == PLInit => BooksOK /\ Balanced
<1> SUFFICES ASSUME PLInit PROVE BooksOK /\ Balanced
  OBVIOUS
<1>1. actual = 0 /\ paid = 0 /\ span = {} /\ realized = Whole(BookedPNL) /\ entry = Whole(0)
  BY DEF PLInit, Init
<1>2. Whole(BookedPNL) \in Fractions /\ Worth(Whole(BookedPNL), BookedPNL, 1)
  BY ProfitConstants, WorthOfWhole
<1>3. Whole(0) \in Fractions /\ Whole(0).n = 0 /\ Whole(0).d = 1
  BY WorthOfWhole DEF Whole
<1>4. actual * entry.n - Money * entry.d = BookedPNL
  BY <1>1, <1>3, ProfitConstants DEF Money
<1> QED BY <1>1, <1>2, <1>3, <1>4 DEF BooksOK, Balanced

LEMMA NextBooks ==
  ASSUME Calm, BookingInv, [PLNext]_plVars
  PROVE  BooksOK' /\ Balanced'
<1>1. CASE \E p \in Levels : FillAt(p)
  <2>1. PICK p \in Levels : BookFill /\ BookProfit(p)
    BY <1>1 DEF FillAt
  <2> QED BY <2>1, FillIsOK, FillBalances DEF BookingInv
<1>2. CASE ~\E p \in Levels : FillAt(p)
  <2>1. UNCHANGED <<actual, realized, entry, paid, span>>
    BY <1>2, OnlyFillsBook DEF BookingInv
  <2> QED BY <2>1 DEF BookingInv, BooksOK, Balanced, Money, Worth
<1> QED BY <1>1, <1>2

LEMMA BookingInvariance ==
  ASSUME Calm, Dustless
  PROVE  PLSpec => []BookingInv
<1>1. PLInit => BooksOK /\ Balanced
  BY InitBooks
<1>2. (TInv /\ HInv /\ SInv /\ NoDust) /\ (BooksOK /\ Balanced) /\ [PLNext]_plVars
        => (BooksOK /\ Balanced)'
  BY NextBooks DEF BookingInv
<1>3. PLSpec => [](TInv /\ AInv /\ HInv /\ SInv /\ NoDust)
  BY ProfitKeepsCycle, CalmInvariance
<1>4. TInv /\ AInv /\ HInv /\ SInv /\ NoDust => TInv /\ HInv /\ SInv /\ NoDust
  OBVIOUS
<1>5. (TInv /\ HInv /\ SInv /\ NoDust) /\ (BooksOK /\ Balanced) => BookingInv
  BY DEF BookingInv
<1> QED BY <1>1, <1>2, <1>3, <1>4, <1>5, PTL DEF PLSpec

LEMMA BalancedBalances == ASSUME BooksOK, Balanced, actual \in Int PROVE BooksBalance
<1> DEFINE a == actual
           n == entry.n
           d == entry.d
           k == Money
<1>1. /\ n \in Int /\ d \in Int /\ d # 0 /\ entry \in Fractions /\ realized \in Fractions
      /\ Worth(entry, n, d)
  BY WorthItself DEF BooksOK
<1>2. k \in Int /\ k = paid - BookedPNL
  BY ProfitConstants DEF BooksOK, Money
<1>3. Times(a, entry) \in Fractions /\ Worth(Times(a, entry), a * n, d)
  BY <1>1, WorthOfTimes
<1>4. Worth(realized, a * n - k * d, d)
  BY DEF Balanced
<1> HIDE DEF a, n, d, k
<1>5. a \in Int
  BY DEF a
<1>6. a * n \in Int /\ a * n - k * d \in Int /\ d * d \in Int /\ d * d # 0
  BY <1>1, <1>2, <1>5, ProductNotZero
<1> DEFINE x == Minus(Times(a, entry), realized)
           m == (a * n) * d - (a * n - k * d) * d
<1>7. x \in Fractions /\ Worth(x, m, d * d)
  BY <1>1, <1>3, <1>4, <1>6, WorthOfMinus
<1>8. m \in Int /\ m * 1 = k * (d * d)
  BY <1>1, <1>2, <1>5
<1> HIDE DEF x, m
<1>9. Worth(x, k, 1)
  BY <1>2, <1>6, <1>7, <1>8, SameWorth
<1>10. x = Whole(k)
  BY <1>1, <1>2, <1>3, <1>9, MinusIsWhole DEF x
<1> QED BY <1>2, <1>10 DEF x, a, BooksBalance

(* In a calm run, whatever the sequence of fills, levels and sizes, the    *)
(* profit that was booked and the position at its entry level account for  *)
(* all the money that changed hands: commitTrending takes the right one of *)
(* its four ways at every fill.                                            *)
THEOREM EveryFillBalances ==
  ASSUME Calm, Dustless
  PROVE  PLSpec => []BooksBalance
<1>1. BookingInv => BooksBalance
  BY BalancedBalances DEF BookingInv, TInv, GridOK
<1> QED BY <1>1, BookingInvariance, PTL

----------------------------------------------------------------------------
(* A fraction lies where what it is worth lies.                            *)
LEMMA CancelOrder ==
  ASSUME NEW g \in Int, g > 0, NEW x \in Int, NEW y \in Int, x * g <= y * g
  PROVE  x <= y
<1>1. CASE x > y
  <2>1. (x - y) * g > 0
    BY <1>1
  <2>2. (x - y) * g = x * g - y * g
    OBVIOUS
  <2> QED BY <2>1, <2>2
<1> QED BY <1>1

LEMMA Monotone ==
  ASSUME NEW g \in Int, g >= 0, NEW x \in Int, NEW y \in Int, x <= y
  PROVE  x * g <= y * g
<1>1. (y - x) * g >= 0
  OBVIOUS
<1>2. (y - x) * g = y * g - x * g
  OBVIOUS
<1> QED BY <1>1, <1>2

LEMMA Bounds ==
  ASSUME NEW x \in Fractions, NEW n \in Int, NEW d \in Int, d > 0, Worth(x, n, d), NEW q \in Int
  PROVE  /\ q * d <= n => AtMost(Whole(q), x)
         /\ n <= q * d => AtMost(x, Whole(q))
<1> DEFINE xn == x.n
           xd == x.d
<1>1. xn \in Int /\ xd \in Int /\ xd > 0 /\ xn * d = n * xd
  BY DEF Fractions, Worth
<1>2. (AtMost(Whole(q), x) <=> q * xd <= xn * 1) /\ (AtMost(x, Whole(q)) <=> xn * 1 <= q * xd)
  BY DEF AtMost, Whole
<1> HIDE DEF xn, xd
<1> DEFINE u == q * xd
           v == q * d
<1>3. u \in Int /\ v \in Int /\ u * d = v * xd
  BY <1>1
<1> HIDE DEF u, v
<1>4. ASSUME v <= n PROVE u <= xn
  <2>1. v * xd <= n * xd
    BY <1>1, <1>3, <1>4, Monotone
  <2>2. u * d <= xn * d
    BY <1>1, <1>3, <2>1
  <2> QED BY <1>1, <1>3, <2>2, CancelOrder
<1>5. ASSUME n <= v PROVE xn <= u
  <2>1. n * xd <= v * xd
    BY <1>1, <1>3, <1>5, Monotone
  <2>2. xn * d <= u * d
    BY <1>1, <1>3, <2>1
  <2> QED BY <1>1, <1>3, <2>2, CancelOrder
<1> QED BY <1>1, <1>2, <1>4, <1>5 DEF u, v

LEMMA BoundsOfSelf ==
  ASSUME NEW x \in Fractions, NEW q \in Int
  PROVE  /\ AtMost(Whole(q), x) <=> q * x.d <= x.n
         /\ AtMost(x, Whole(q)) <=> x.n <= q * x.d
BY DEF AtMost, Whole, Fractions

(* An average of what is held and what is added lies between the two.      *)
LEMMA Between ==
  ASSUME NEW A \in Int, A > 0, NEW B \in Int, B > 0, NEW n \in Int, NEW d \in Int, d > 0,
         NEW p \in Int, NEW q \in Int
  PROVE  /\ q * d <= n /\ q <= p => q * (d * (A + B)) <= A * n + B * p * d
         /\ n <= q * d /\ p <= q => A * n + B * p * d <= q * (d * (A + B))
<1> DEFINE e == q * d
           f == q
           c == B * d
<1>1. e \in Int /\ c \in Int /\ c >= 0
  OBVIOUS
<1>2. q * (d * (A + B)) = e * A + q * c
  OBVIOUS
<1>3. A * n + B * p * d = n * A + p * c
  OBVIOUS
<1>4. n * A \in Int /\ p * c \in Int /\ e * A \in Int /\ q * c \in Int
  OBVIOUS
<1> HIDE DEF e, c
<1>5. ASSUME e <= n, q <= p PROVE e * A + q * c <= n * A + p * c
  BY <1>1, <1>4, <1>5, Monotone
<1>6. ASSUME n <= e, p <= q PROVE n * A + p * c <= e * A + q * c
  BY <1>1, <1>4, <1>6, Monotone
<1> QED BY <1>2, <1>3, <1>5, <1>6 DEF e
----------------------------------------------------------------------------
LEMMA SmallerOf == ASSUME NEW x \in Levels, NEW y \in Levels
  PROVE \E z \in {x, y} : z <= x /\ z <= y
BY LevelType

LEMMA LargerOf == ASSUME NEW x \in Levels, NEW y \in Levels
  PROVE \E z \in {x, y} : x <= z /\ y <= z
BY LevelType

(* A fill that is taken to turn the position round, by an order larger     *)
(* than it as commitTrending measures them, and leaves it on its side; or  *)
(* one that turns it round and is not taken to.                            *)
Misjudged ==
  /\ BookFill /\ ~Opens /\ ~Adds /\ actual' # 0
  /\ ~(Flips <=> actual * actual' < 0)

(* A fill against the position that leaves it on its side leaves less.     *)
LEMMA LeavesLess ==
  ASSUME FillOK, ~Opens, ~Adds, actual' # 0, ~(actual * actual' < 0)
  PROVE  actual * actual' > 0 /\ ~(Gap(actual) < Gap(actual'))
<1> DEFINE a == actual
           b == order.delta
<1>1. a \in Int /\ b \in Int /\ a # 0 /\ b # 0 /\ actual' = a + b
  BY DEF FillOK
<1>2. (a > 0 /\ b < 0) \/ (a < 0 /\ b > 0)
  BY <1>1 DEF FillOK, Adds
<1> HIDE DEF a, b
<1>3. (a > 0 /\ a + b > 0 /\ a + b < a) \/ (a < 0 /\ a + b < 0 /\ a < a + b)
  <2>1. ASSUME a > 0, a + b < 0 PROVE a * (a + b) < 0
    BY <1>1, <2>1
  <2>2. ASSUME a < 0, a + b > 0 PROVE a * (a + b) < 0
    BY <1>1, <2>2
  <2>3. ~(a * (a + b) < 0) /\ a + b # 0
    BY <1>1 DEF a
  <2> QED BY <1>1, <1>2, <2>1, <2>2, <2>3
<1>4. a * (a + b) > 0
  BY <1>1, <1>3
<1>5. ~(Gap(a) < Gap(a + b))
  BY <1>1, <1>3 DEF Gap
<1> QED BY <1>1, <1>4, <1>5 DEF a

LEMMA FillKeepsEntry ==
  ASSUME BooksOK, FillOK, EntryWasTraded, NEW p \in Levels, BookFill, BookProfit(p), ~Misjudged
  PROVE  EntryWasTraded'
<1>1. p \in Int
  BY LevelType
<1>2. span \subseteq Levels /\ span \subseteq Int
  BY LevelType DEF BooksOK
<1>3. AtMost(Whole(p), Whole(p)) /\ AtMost(Whole(p), Whole(p))
  BY <1>1 DEF AtMost, Whole
<1>4. CASE entry' = Whole(p) /\ span' = {p}
  BY <1>3, <1>4 DEF EntryWasTraded, AtMost
<1>5. CASE Opens
  <2>1. actual * actual' <= 0 /\ entry' = Whole(p)
    BY <1>5 DEF FillOK, BookProfit
  <2> QED BY <1>4, <2>1 DEF BookProfit
<1>6. CASE ~Opens /\ Adds
  <2> DEFINE A == Gap(actual)
             B == Gap(order.delta)
             n == entry.n
             d == entry.d
             x == Mean(p)
  <2>1. /\ x \in Fractions /\ Worth(x, A * n + B * p * d, d * (A + B))
        /\ A > 0 /\ B > 0
    BY <1>6, MeanWorth
  <2>2. A \in Int /\ B \in Int /\ n \in Int /\ d \in Int /\ d > 0
    BY DEF FillOK, Gap, BooksOK, Fractions
  <2>3. entry' = x /\ span \cup {p} \subseteq Levels
    BY <1>2, <1>6 DEF BookProfit, Flips
  <2>4. p \in span' /\ span \subseteq span'
    <3>1. actual \in Int /\ order.delta \in Int /\ actual' = actual + order.delta
          /\ ((actual > 0 /\ order.delta > 0) \/ (actual < 0 /\ order.delta < 0))
      BY <1>6 DEF FillOK, Adds
    <3>2. Gap(actual) < Gap(actual') /\ actual * actual' > 0
      BY <3>1 DEF Gap
    <3> QED BY <3>1, <3>2 DEF BookProfit
  <2>5. PICK low \in span, high \in span : AtMost(Whole(low), entry) /\ AtMost(entry, Whole(high))
    BY <1>6 DEF EntryWasTraded, FillOK
  <2>6. low \in Int /\ high \in Int /\ low \in Levels /\ high \in Levels
    BY <1>2
  <2>7. low * d <= n /\ n <= high * d
    BY <2>5, <2>6, BoundsOfSelf DEF BooksOK
  <2>8. PICK l \in {low, p} : l <= low /\ l <= p
    BY <2>6, SmallerOf
  <2>9. PICK h \in {high, p} : high <= h /\ p <= h
    BY <2>6, LargerOf
  <2>10. l \in span' /\ h \in span' /\ l \in Int /\ h \in Int
    BY <1>1, <2>4, <2>6, <2>8, <2>9
  <2> HIDE DEF A, B, n, d, x
  <2>11. l * d <= n /\ n <= h * d
    <3>1. l * d <= low * d /\ high * d <= h * d
      BY <2>2, <2>6, <2>8, <2>9, <2>10, Monotone
    <3>2. l * d \in Int /\ low * d \in Int /\ high * d \in Int /\ h * d \in Int
      BY <2>2, <2>6, <2>10
    <3> QED BY <2>2, <2>7, <3>1, <3>2
  <2>12. /\ l * (d * (A + B)) <= A * n + B * p * d
         /\ A * n + B * p * d <= h * (d * (A + B))
    BY <1>1, <2>1, <2>2, <2>8, <2>9, <2>10, <2>11, Between
  <2>13. A * n + B * p * d \in Int /\ d * (A + B) \in Int /\ d * (A + B) > 0
    BY <1>1, <2>1, <2>2
  <2>14. AtMost(Whole(l), x) /\ AtMost(x, Whole(h))
    BY <2>1, <2>10, <2>12, <2>13, Bounds
  <2> QED BY <2>3, <2>10, <2>14 DEF EntryWasTraded, AtMost, Whole
<1>7. CASE ~Opens /\ ~Adds /\ Flips
  <2>1. actual' = 0 \/ actual * actual' < 0
    BY <1>7 DEF Misjudged
  <2>2. CASE actual' = 0
    BY <2>2 DEF EntryWasTraded
  <2>3. CASE actual * actual' < 0
    <3>1. actual * actual' \in Int
      BY DEF FillOK
    <3> QED BY <1>4, <1>7, <2>3, <3>1 DEF BookProfit
  <2> QED BY <2>1, <2>2, <2>3
<1>8. CASE ~Opens /\ ~Adds /\ ~Flips
  <2>1. entry' = entry
    BY <1>8 DEF BookProfit
  <2>2. CASE actual' = 0
    BY <2>2 DEF EntryWasTraded
  <2>3. CASE actual * actual' > 0 /\ ~(Gap(actual) < Gap(actual'))
    <3>1. actual # 0
      BY <1>8 DEF FillOK
    <3>2. actual * actual' \in Int
      BY DEF FillOK
    <3>3. span' = span
      BY <2>3, <3>2 DEF BookProfit
    <3> QED BY <2>1, <3>1, <3>3 DEF EntryWasTraded, AtMost, Whole
  <2> QED BY <1>8, <2>2, <2>3, LeavesLess DEF Misjudged
<1> QED BY <1>5, <1>6, <1>7, <1>8

LEMMA NextEntry ==
  ASSUME Calm, BookingInv, EntryWasTraded, [PLNext]_plVars, ~Misjudged
  PROVE  EntryWasTraded'
<1>1. CASE \E p \in Levels : FillAt(p)
  <2>1. PICK p \in Levels : BookFill /\ BookProfit(p)
    BY <1>1 DEF FillAt
  <2> QED BY <2>1, FillIsOK, FillKeepsEntry DEF BookingInv
<1>2. CASE ~\E p \in Levels : FillAt(p)
  <2>1. UNCHANGED <<actual, realized, entry, paid, span>>
    BY <1>2, OnlyFillsBook DEF BookingInv
  <2> QED BY <2>1 DEF EntryWasTraded, AtMost
<1> QED BY <1>1, <1>2

(* The entry level of a calm run keeps within the levels at which the      *)
(* position was built, averaging and all, through every step but a fill    *)
(* that is misjudged; and once the position is closed, it does so again.   *)
(* Such fills are what comes of comparing an order in notionals with a     *)
(* position in tokens.                                                     *)
THEOREM EntryStaysTraded ==
  ASSUME Calm, Dustless
  PROVE  PLSpec => [][EntryWasTraded /\ ~Misjudged => EntryWasTraded']_plVars
<1>1. BookingInv /\ [PLNext]_plVars => [EntryWasTraded /\ ~Misjudged => EntryWasTraded']_plVars
  BY NextEntry
<1> QED BY <1>1, BookingInvariance, PTL DEF PLSpec

(* Where a notional is one token0, no fill is misjudged.                   *)
LEMMA NoneMisjudged ==
  ASSUME TInv, SInv, NoDust, One = UnitNotional
  PROVE  ~Misjudged
<1> SUFFICES ASSUME Misjudged PROVE FALSE
  OBVIOUS
<1> DEFINE a == actual
           b == order.delta
           u == UnitNotional
<1>1. FillOK /\ ~Opens /\ ~Adds /\ actual' # 0 /\ ~(Flips <=> actual * actual' < 0)
  BY FillIsOK DEF Misjudged
<1>2. a \in Int /\ b \in Int /\ a # 0 /\ b # 0 /\ actual' = a + b /\ u \in Nat \ {0}
  BY <1>1, UnitIsPositive DEF FillOK
<1>3. (a > 0 /\ b < 0 /\ Side = -1) \/ (a < 0 /\ b > 0 /\ Side = 1)
  BY <1>1, <1>2 DEF FillOK, Adds
<1> DEFINE s == Side * b
           g == Gap(a)
<1>4. s \in Int /\ g \in Int /\ s > 0 /\ g > 0
      /\ (a > 0 => s = -b /\ g = a) /\ (a < 0 => s = b /\ g = -a)
  BY <1>2, <1>3 DEF Gap
<1> HIDE DEF s, g
<1>5. Flips <=> s > g
  <2>1. s * u > g * u <=> s > g
    BY <1>2, <1>4, Monotone, CancelOrder
  <2> QED BY <1>1, <2>1 DEF Flips, s, g
<1> HIDE DEF a, b, u
<1>6. ASSUME s > g PROVE a * (a + b) < 0
  <2>1. (a > 0 /\ a + b < 0) \/ (a < 0 /\ a + b > 0)
    BY <1>2, <1>3, <1>4, <1>6
  <2> QED BY <1>2, <2>1
<1>7. ASSUME ~(s > g) PROVE ~(a * (a + b) < 0)
  <2>1. a + b = 0 \/ (a > 0 /\ a + b > 0) \/ (a < 0 /\ a + b < 0)
    BY <1>2, <1>3, <1>4, <1>7
  <2> QED BY <1>2, <2>1
<1> QED BY <1>1, <1>2, <1>5, <1>6, <1>7 DEF a

(* There, then, the entry level never leaves the levels of the position.   *)
COROLLARY EntryAlwaysTraded ==
  ASSUME Calm, Dustless, One = UnitNotional
  PROVE  PLSpec => []EntryWasTraded
<1>1. PLInit => EntryWasTraded
  BY DEF PLInit, Init, EntryWasTraded
<1>2. BookingInv /\ EntryWasTraded /\ [PLNext]_plVars => EntryWasTraded'
  BY NextEntry, NoneMisjudged DEF BookingInv
<1> QED BY <1>1, <1>2, BookingInvariance, PTL DEF PLSpec
=============================================================================
