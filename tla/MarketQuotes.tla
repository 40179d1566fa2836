--------------------------- MODULE MarketQuotes ----------------------------
(***************************************************************************)
(* The quotes of one ftx market on their way from the ticker to the price  *)
(* the bot plans with: the listener of initCxMarket (SpotCx.ts) and the    *)
(* throttle of UpdateMarket (SpotEx.ts).  The first change opens a window; *)
(* the changes in it are averaged and published by a timer, unless one     *)
(* arrives when the window, shorter with every ticker, is already over, or *)
(* too many have come.  Prices are integers, averages rounded down; 0 is   *)
(* no price.  Time is counted in parts of a window, which is small against *)
(* everything else that happens.                                           *)
(***************************************************************************)
EXTENDS Integers

CONSTANTS
  Quotes,     \* the pairs of best prices [bid, ask] the exchange may send
  Window,     \* 300 ms, in units of time
  None        \* no time

ASSUME MarketQuotesConstants ==
  /\ Quotes \subseteq [bid : Nat \ {0}, ask : Nat \ {0}]
  /\ \A q \in Quotes : q.bid <= q.ask
  /\ Window \in Nat \ {0}
  /\ None \notin Int

NoQuote   == [bid |-> 0, ask |-> 0]
MaxTimes  == 3

VARIABLES
  last,        \* lastbid, lastask: the quote of the last change
  since,       \* time since lastUpdateTime, or None when that is 0
  times,       \* trendingTimes
  trend,       \* trendingBid, trendingAsk
  timer,       \* time until timeoutHandle fires, or None
  priced,      \* bidAfterAllCost, askAfterAllCost before costs: what is planned with
  owed         \* a change has come in that no price has been published for

quoteVars == <<last, since, times, trend, timer, priced, owed>>

InitQuote ==
  /\ last = NoQuote /\ trend = NoQuote /\ priced = NoQuote
  /\ since = None /\ timer = None
  /\ times = 0
  /\ owed = FALSE

----------------------------------------------------------------------------
Interval(n) == Window \div (2 * n + 1)

Elapsed == IF since = None THEN 0 ELSE since

(* Mutant: the length of the window does not depend on the tickers.        *)
ThrottledLong == times < MaxTimes /\ (since = None \/ since < Window)

Throttled == times < MaxTimes /\ (since = None \/ since < Interval(times))

(* (x || y) + y, halved.                                                   *)
Mean(x, y) == ((IF x = 0 THEN y ELSE x) + y) \div 2

Average(t, q) == [bid |-> Mean(t.bid, q.bid), ask |-> Mean(t.ask, q.ask)]

(* Mutant: the timer is not set again in a window that is open.            *)
WaitOnce(q, t) ==
  /\ since' = Elapsed
  /\ trend' = Average(t, q)
  /\ timer' = IF since = None THEN Interval(times) ELSE None
  /\ times' = times + 1
  /\ UNCHANGED priced

(* The change is averaged in, and the timer set for the end of the window. *)
Wait(q, t) ==
  /\ since' = Elapsed
  /\ trend' = Average(t, q)
  /\ timer' = Interval(times) - Elapsed
  /\ times' = times + 1
  /\ UNCHANGED priced

(* What was averaged in a window that ends without its timer stays.        *)
Publish(q, t) ==
  /\ since' = None /\ timer' = None
  /\ times' = 0
  /\ priced' = q
  /\ trend' = t

(* UpdateMarket with the average t; the timer, if any, is cleared.         *)
UpdateMarket(q, t) == IF Throttled THEN Wait(q, t) ELSE Publish(q, t)

(* 'ticker': a quote that is not a change only counts, and after three     *)
(* tickers it is taken for one.                                            *)
QuoteTicker(q) ==
  IF q # last \/ times >= MaxTimes
  THEN /\ last' = q
       /\ UpdateMarket(q, trend)
       /\ owed' = (since' # None)
  ELSE /\ times' = times + 1
       /\ UNCHANGED <<last, since, trend, timer, priced, owed>>

(* The timer takes the average and calls UpdateMarket with it.             *)
Fire ==
  /\ timer = 0
  /\ UpdateMarket(trend, NoQuote)
  /\ owed' = (since' # None)
  /\ UNCHANGED last

(* A timer that is due fires before time goes on.                          *)
Pass ==
  /\ since # None /\ timer # 0 /\ since < Window
  /\ since' = since + 1
  /\ timer' = IF timer = None THEN None ELSE timer - 1
  /\ UNCHANGED <<last, times, trend, priced, owed>>

NextQuote == (\E q \in Quotes : QuoteTicker(q)) \/ Fire \/ Pass

QuoteSpec == InitQuote /\ [][NextQuote]_quoteVars
FairQuoteSpec == QuoteSpec /\ WF_quoteVars(Fire) /\ WF_quoteVars(Pass)

----------------------------------------------------------------------------
Prices == [bid : Nat, ask : Nat]

QuoteTypeOK ==
  /\ last \in Quotes \cup {NoQuote} /\ trend \in Prices /\ priced \in Prices
  /\ since \in 0..Window \cup {None} /\ timer \in 0..Window \cup {None}
  /\ times \in 0..MaxTimes
  /\ owed \in BOOLEAN

(* While a change waits to be published a timer is running, and it ends    *)
(* the window within 300 ms of its first change, whatever comes in between *)
(* and however often it is set again (UpdateMarket).                       *)
WindowHasTimer ==
  /\ since # None <=> timer # None
  /\ owed <=> since # None
  /\ since # None => since + timer <= Window

(* A timer that is due ends its window: the interval UpdateMarket computes *)
(* when it is called by the timer, with the tickers counted meanwhile, is  *)
(* never longer than the one the timer was set for, so the average does    *)
(* not begin a window of its own.                                          *)
DueWindowEnds == [][timer = 0 => timer' \in {0, None}]_quoteVars

(* Whatever the timer averages, the price that is planned with is none yet *)
(* or one whose bid is not above its ask: from a crossed one the grid would *)
(* gain on both of its sides.                                              *)
NeverCrossed == priced = NoQuote \/ (0 < priced.bid /\ priced.bid <= priced.ask)

(* Every change is in a published price at last, although every further    *)
(* change clears the timer and sets it again.                              *)
ChangesArePublished == owed ~> ~owed
=============================================================================
