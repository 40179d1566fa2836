---------------------------- MODULE Market_proofs ----------------------------
(***************************************************************************)
(* The feed, for any number of markets: the ages stay what they are and a  *)
(* client always has a listener.  The quotes of one market, for any quotes *)
(* and any granularity of time: an open window has its timer, a due timer  *)
(* publishes, and what is published is not crossed.  The two modules stand *)
(* side by side here and share no variable.                                *)
(***************************************************************************)
EXTENDS MarketFeed, MarketQuotes, TLAPS

LEMMA OlderType == ASSUME NEW age \in Ages PROVE Older(age) \in Ages
BY DEF Ages, Old, Older

LEMMA NextTypeOK == TypeOK /\ [Next]_vars => TypeOK'
<1> SUFFICES ASSUME TypeOK, [Next]_vars PROVE TypeOK'
  OBVIOUS
<1>0. 0 \in Ages
  BY DEF Ages, Old
<1>1. CASE \E m \in Range, large \in BOOLEAN : Ticker(m, large)
  BY <1>0, <1>1 DEF TypeOK, Ticker
<1>2. CASE Block \/ ConfirmLogs \/ SyncBlocks
  BY <1>0, <1>2 DEF TypeOK, Block, ConfirmLogs, SyncBlocks, Synced, feed
<1>3. CASE \E i \in DOMAIN Markets : SyncMarket(i)
  <2>1. PICK i \in DOMAIN Markets : SyncMarket(i)
    BY <1>3
  <2>2. Markets[i] \in Range
    BY DEF Range
  <2>3. on' \subseteq Range /\ on' # {}
    BY <2>1, <2>2 DEF TypeOK, SyncMarket, listen
  <2>4. heard' \in [Range -> Ages] /\ client' \in Ages
    BY <1>0, <2>1 DEF TypeOK, SyncMarket, heardNow
  <2> QED BY <2>1, <2>3, <2>4 DEF TypeOK, SyncMarket
<1>4. CASE Plan \/ CommitEnds \/ Exchange \/ Node
  BY <1>4 DEF TypeOK, Plan, CommitEnds, Exchange, Node, feed
<1>5. CASE Minute
  BY <1>5, OlderType DEF TypeOK, Minute
<1>6. CASE UNCHANGED vars
  BY <1>6 DEF TypeOK, vars
<1> QED BY <1>1, <1>2, <1>3, <1>4, <1>5, <1>6 DEF Next

(* The ages keep their bounds, the sets their markets, and every client    *)
(* has at least one listener.                                              *)
THEOREM FeedTypeCorrect == Spec => []TypeOK
<1>1. Init => TypeOK
  <2>1. 0 \in Ages
    BY DEF Ages, Old
  <2> QED BY <2>1, MarketFeedConstants DEF Init, TypeOK
<1> QED BY <1>1, NextTypeOK, PTL DEF Spec

-----------------------------------------------------------------------------
(* The quotes of one market.  A window that is open was begun by a change  *)
(* and has its timer, which was set for the interval at one of the counts  *)
(* before the present one: that interval is not shorter than the present   *)
(* count's, and not longer than the whole window.                          *)
Timed ==
  /\ WindowHasTimer
  /\ since # None => since + timer >= Interval(times)

LEMMA IntervalShrinks ==
  ASSUME NEW n \in Nat
  PROVE  /\ Interval(n) \in 0..Window
         /\ Interval(n + 1) <= Interval(n)
<1> DEFINE d == 2 * n + 1
           a == Window \div d
           b == Window \div (d + 2)
<1>1. d \in Nat \ {0} /\ Window \in Nat /\ 2 * (n + 1) + 1 = d + 2
  BY MarketQuotesConstants
<1>2. a \in Nat /\ b \in Nat
  BY <1>1
<1>3. d * a <= Window /\ Window < d * a + d
  BY <1>1
<1>4. (d + 2) * b <= Window
  BY <1>1
<1>5. (d + 2) * b = d * b + 2 * b
  BY <1>1, <1>2
<1>6. d * b <= Window
  BY <1>1, <1>2, <1>4, <1>5
<1>7. b <= a
  <2> SUFFICES ASSUME b >= a + 1 PROVE FALSE
    BY <1>2
  <2>1. d * b >= d * (a + 1)
    BY <1>1, <1>2
  <2>2. d * (a + 1) = d * a + d
    BY <1>1, <1>2
  <2> QED BY <1>1, <1>2, <1>3, <1>6, <2>1, <2>2
<1>8. a <= Window
  <2>1. d * a >= a
    BY <1>1, <1>2
  <2> QED BY <1>1, <1>2, <1>3, <2>1
<1> QED BY <1>1, <1>2, <1>7, <1>8 DEF Interval

(* The average of two quotes that are not crossed is not crossed.          *)
Sane(q) == q = NoQuote \/ (0 < q.bid /\ q.bid <= q.ask)

LEMMA AverageIsSane ==
  ASSUME NEW t \in Prices, NEW q \in Prices, Sane(t), Sane(q), q = NoQuote => t = NoQuote
  PROVE  Average(t, q) \in Prices /\ Sane(Average(t, q))
<1>1. /\ Average(t, q) = [bid |-> Mean(t.bid, q.bid), ask |-> Mean(t.ask, q.ask)]
      /\ t.bid \in Nat /\ t.ask \in Nat /\ q.bid \in Nat /\ q.ask \in Nat
      /\ t = [bid |-> t.bid, ask |-> t.ask] /\ q = [bid |-> q.bid, ask |-> q.ask]
  BY DEF Prices, Average
<1>2. Mean(t.bid, q.bid) \in Nat /\ Mean(t.ask, q.ask) \in Nat
  BY <1>1 DEF Mean
<1>3. CASE t = NoQuote
  <2>1. Average(t, q) = q
    BY <1>1, <1>3 DEF Mean, NoQuote
  <2> QED BY <2>1
<1>4. CASE t # NoQuote
  <2>1. 0 < t.bid /\ t.bid <= t.ask /\ 0 < q.bid /\ q.bid <= q.ask
    BY <1>4 DEF Sane
  <2>2. 0 < Mean(t.bid, q.bid) /\ Mean(t.bid, q.bid) <= Mean(t.ask, q.ask)
    BY <1>1, <2>1 DEF Mean
  <2> QED BY <1>1, <1>2, <2>2 DEF Prices, Sane
<1> QED BY <1>3, <1>4

LEMMA QuotesAreSane ==
  /\ NoQuote \in Prices /\ Sane(NoQuote)
  /\ \A q \in Quotes : q \in Prices /\ Sane(q) /\ q # NoQuote
BY MarketQuotesConstants DEF Prices, Sane, NoQuote

QInv == QuoteTypeOK /\ Timed /\ Sane(trend) /\ Sane(priced)

(* One call of UpdateMarket, by a listener or by the timer.                *)
LEMMA UpdateMarketKeeps ==
  ASSUME QInv, NEW q \in Prices, NEW t \in Prices, Sane(q), Sane(t),
         q = NoQuote => t = NoQuote, UpdateMarket(q, t)
  PROVE  /\ since' \in 0..Window \cup {None} /\ timer' \in 0..Window \cup {None}
         /\ times' \in 0..MaxTimes
         /\ trend' \in Prices /\ Sane(trend') /\ priced' \in Prices /\ Sane(priced')
         /\ since' # None <=> timer' # None
         /\ since' # None => /\ since' + timer' <= Window
                             /\ since' + timer' >= Interval(times')
<1>0. None \notin Int /\ Window \in Nat
  BY MarketQuotesConstants
<1>1. CASE Throttled
  <2>1. times \in Nat /\ times < 3
    BY <1>1 DEF Throttled, QInv, QuoteTypeOK, MaxTimes
  <2>2. Interval(times) \in 0..Window /\ Interval(times + 1) <= Interval(times)
    BY <2>1, IntervalShrinks
  <2>2a. Interval(times + 1) \in 0..Window
    BY <2>1, IntervalShrinks
  <2>3. Elapsed \in 0..Window /\ Elapsed <= Interval(times)
    BY <1>0, <1>1, <2>2 DEF Throttled, Elapsed, QInv, QuoteTypeOK
  <2>4. Wait(q, t)
    BY <1>1 DEF UpdateMarket
  <2>5. since' = Elapsed /\ timer' = Interval(times) - Elapsed /\ times' = times + 1
    BY <2>4 DEF Wait
  <2>6. since' \in 0..Window /\ timer' \in 0..Window /\ since' + timer' = Interval(times)
    BY <1>0, <2>2, <2>3, <2>5
  <2>7. trend' \in Prices /\ Sane(trend') /\ priced' = priced
    BY <2>4, AverageIsSane DEF Wait
  <2>8. times' \in 0..MaxTimes
    BY <2>1, <2>5 DEF MaxTimes
  <2> QED BY <1>0, <2>2, <2>2a, <2>5, <2>6, <2>7, <2>8 DEF QInv, QuoteTypeOK
<1>2. CASE ~Throttled
  BY <1>2 DEF UpdateMarket, Publish, MaxTimes
<1> QED BY <1>1, <1>2

LEMMA QuoteStep == QInv /\ [NextQuote]_quoteVars => QInv'
<1> SUFFICES ASSUME QInv, [NextQuote]_quoteVars PROVE QInv'
  OBVIOUS
<1>0. None \notin Int /\ Window \in Nat
  BY MarketQuotesConstants
<1>1. ASSUME NEW q \in Quotes, QuoteTicker(q) PROVE QInv'
  <2>1. q \in Prices /\ Sane(q) /\ q # NoQuote /\ trend \in Prices /\ Sane(trend)
    BY QuotesAreSane DEF QInv, QuoteTypeOK
  <2>2. CASE q # last \/ times >= MaxTimes
    <3>1. UpdateMarket(q, trend) /\ last' = q /\ owed' = (since' # None)
      BY <1>1, <2>2 DEF QuoteTicker
    <3> QED BY <2>1, <3>1, UpdateMarketKeeps
            DEF QInv, QuoteTypeOK, Timed, WindowHasTimer
  <2>3. CASE ~(q # last \/ times >= MaxTimes)
    <3>1. times' = times + 1 /\ UNCHANGED <<last, since, trend, timer, priced, owed>>
      BY <1>1, <2>3 DEF QuoteTicker
    <3>2. times \in 0..MaxTimes /\ ~(times >= MaxTimes)
      BY <2>3 DEF QInv, QuoteTypeOK
    <3>2a. times \in Nat /\ times' \in 0..MaxTimes
      BY <3>1, <3>2 DEF MaxTimes
    <3>3. /\ Interval(times + 1) <= Interval(times)
          /\ Interval(times + 1) \in Int /\ Interval(times) \in Int
      BY <3>2a, IntervalShrinks
    <3>4. since # None => since + timer >= Interval(times + 1)
      BY <1>0, <3>3 DEF QInv, QuoteTypeOK, Timed, WindowHasTimer
    <3> QED BY <3>1, <3>2a, <3>4 DEF QInv, QuoteTypeOK, Timed, WindowHasTimer, Sane
  <2> QED BY <2>2, <2>3
<1>2. CASE Fire
  <2>1. trend \in Prices /\ Sane(trend) /\ NoQuote \in Prices /\ Sane(NoQuote)
    BY QuotesAreSane DEF QInv, QuoteTypeOK
  <2>2. UpdateMarket(trend, NoQuote) /\ last' = last /\ owed' = (since' # None)
    BY <1>2 DEF Fire
  <2> QED BY <2>1, <2>2, UpdateMarketKeeps DEF QInv, QuoteTypeOK, Timed, WindowHasTimer
<1>3. CASE Pass
  <2>1. /\ since \in 0..Window /\ since < Window /\ timer \in 0..Window /\ timer # 0
        /\ since' = since + 1 /\ timer' = timer - 1
        /\ UNCHANGED <<last, times, trend, priced, owed>>
    BY <1>3 DEF Pass, QInv, QuoteTypeOK, Timed, WindowHasTimer
  <2>2. /\ since' \in 0..Window /\ timer' \in 0..Window
        /\ since' + timer' = since + timer
    BY <1>0, <2>1
  <2> QED BY <1>0, <2>1, <2>2 DEF QInv, QuoteTypeOK, Timed, WindowHasTimer, Sane
<1>4. CASE UNCHANGED quoteVars
  BY <1>4 DEF quoteVars, QInv, QuoteTypeOK, Timed, WindowHasTimer, Sane
<1> QED BY <1>1, <1>2, <1>3, <1>4 DEF NextQuote

LEMMA QuoteStart == InitQuote => QInv
<1>1. NoQuote \in Prices /\ Sane(NoQuote) /\ 0 \in 0..MaxTimes
  BY QuotesAreSane DEF MaxTimes
<1> QED BY <1>1 DEF InitQuote, QInv, QuoteTypeOK, Timed, WindowHasTimer

(* The quotes, times and the timer keep their bounds.                      *)
THEOREM QuoteTypeCorrect == QuoteSpec => []QuoteTypeOK
<1>1. QInv => QuoteTypeOK
  BY DEF QInv
<1> QED BY <1>1, QuoteStart, QuoteStep, PTL DEF QuoteSpec

(* A change that waits to be published has a timer running, which ends its *)
(* window 300 ms after it was opened at the latest (UpdateMarket), for any *)
(* quotes and at any granularity of time.                                  *)
THEOREM OpenWindowHasTimer == QuoteSpec => []WindowHasTimer
<1>1. QInv => WindowHasTimer
  BY DEF QInv, Timed
<1> QED BY <1>1, QuoteStart, QuoteStep, PTL DEF QuoteSpec

(* A timer that is due publishes: it opens no window of its own.           *)
THEOREM DueTimerEndsWindow == QuoteSpec => DueWindowEnds
<1> DEFINE Ends == timer = 0 => timer' \in {0, None}
<1>1. QInv /\ [NextQuote]_quoteVars => [Ends]_quoteVars
  <2> SUFFICES ASSUME QInv, NextQuote, timer = 0 PROVE timer' \in {0, None}
    OBVIOUS
  <2>1. ~Throttled
    <3>1. None \notin Int /\ Window \in Nat /\ times \in Nat
      BY MarketQuotesConstants DEF QInv, QuoteTypeOK, MaxTimes
    <3>2. since \in 0..Window /\ since >= Interval(times)
      BY <3>1 DEF QInv, QuoteTypeOK, Timed, WindowHasTimer
    <3>3. Interval(times) \in Int
      BY <3>1, IntervalShrinks
    <3> QED BY <3>1, <3>2, <3>3 DEF Throttled
  <2>2. ~Pass
    BY DEF Pass
  <2>3. CASE \E q \in Quotes : QuoteTicker(q)
    BY <2>1, <2>3 DEF QuoteTicker, UpdateMarket, Publish
  <2>4. CASE Fire
    BY <2>1, <2>4 DEF Fire, UpdateMarket, Publish
  <2> QED BY <2>2, <2>3, <2>4 DEF NextQuote
<1> QED BY <1>1, QuoteStart, QuoteStep, PTL DEF QuoteSpec, DueWindowEnds

(* Averaging crosses no price: with quotes of the exchange that are not    *)
(* crossed, what UpdateMarket publishes is not.                            *)
THEOREM PriceIsNotCrossed == QuoteSpec => []NeverCrossed
<1>1. QInv => NeverCrossed
  BY DEF QInv, Sane, NeverCrossed
<1> QED BY <1>1, QuoteStart, QuoteStep, PTL DEF QuoteSpec
=============================================================================
