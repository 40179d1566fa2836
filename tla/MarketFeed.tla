---------------------------- MODULE MarketFeed -----------------------------
(***************************************************************************)
(* What the main loop waits for before it plans (Start.ts:484-595): a      *)
(* recent block, and from every market a recent ticker.  The markets of an *)
(* exchange share one client (SpotCx.ts), which is replaced when one of    *)
(* them has heard nothing for a minute; a market that is not on the new    *)
(* client hears nothing until it is silent itself.  Times are ages in      *)
(* minutes begun, so that what is Old is more than a minute back.  The     *)
(* first block and the ten seconds before the loop starts are over.        *)
(***************************************************************************)
EXTENDS Naturals, Sequences

CONSTANT Markets     \* loopSpotCxs, in order: markets of one exchange that is
                     \* repaired (binance or ftx)

Old   == 2
Ages  == 0..Old
Range == {Markets[i] : i \in DOMAIN Markets}

ASSUME MarketFeedConstants == Markets \in Seq(Range) /\ Range # {}

VARIABLES
  up,        \* the exchange sends tickers
  node,      \* the node answers
  client,    \* age of SpotCx._ws_binance or _ws_ftx
  on,        \* the markets with a 'ticker' listener on it
  heard,     \* age of lastTickerMsec, by market
  block,     \* age of lastBlockTime
  loopFlag,  \* the markets whose paths have something to plan
  busy       \* the loop awaits an order it commits

vars == <<up, node, client, on, heard, block, loopFlag, busy>>
feed == <<client, on, heard>>

Init ==
  /\ up \in BOOLEAN /\ node = TRUE
  /\ client = 0 /\ on = Range
  /\ heard = [m \in Range |-> 0]
  /\ block = 0
  /\ loopFlag = {}
  /\ busy = FALSE

----------------------------------------------------------------------------
(* A ticker of m.  Every listener of the client takes the time, before it  *)
(* looks whose ticker it is; SetLoopFlag passes over a small change of m.  *)
Ticker(m, large) ==
  /\ up /\ m \in on
  /\ heard' = [n \in Range |-> IF n \in on THEN 0 ELSE heard[n]]
  /\ loopFlag' = IF large THEN loopFlag \cup {m} ELSE loopFlag
  /\ UNCHANGED <<up, node, client, on, block, busy>>

(* 'block', for a number not seen before.                                  *)
Block ==
  /\ node
  /\ block' = 0
  /\ UNCHANGED <<up, node, feed, loopFlag, busy>>

(* The log subscription: UpdatePoolMap has every path planned again.       *)
ConfirmLogs ==
  /\ node
  /\ loopFlag' = Range
  /\ UNCHANGED <<up, node, feed, block, busy>>

----------------------------------------------------------------------------
Silent(m) == heard[m] = Old
FirstSilent(i) == Silent(Markets[i]) /\ \A j \in 1..(i - 1) : ~Silent(Markets[j])

(* Mutant: the blocks are asked for, and the time is not taken.            *)
SyncedUntimed == block' = block

(* SpotDx.Init: the latest block and price are read.                       *)
Synced == block' = 0

(* No block for a minute: Init of every pool, which fails without the node,*)
(* and then the next turn.                                                 *)
SyncBlocks ==
  /\ ~busy /\ block = Old /\ node
  /\ Synced
  /\ UNCHANGED <<up, node, feed, loopFlag, busy>>

(* Only a client of more than a minute is closed.                          *)
Replaces == client = Old

(* subscribeTicker and initCxMarket on the client of now.                  *)
listen(m) == on' = IF Replaces THEN {m} ELSE on \cup {m}

(* Mutant: every market is taken to have been heard.                       *)
heardAll(m) == heard' = [n \in Range |-> 0]

(* initCxMarket: lastTickerMsec is now, and nothing has been heard.        *)
heardNow(m) == heard' = [heard EXCEPT ![m] = 0]

(* initBinancePath, initFtxPath for the first market in order that has     *)
(* heard nothing for a minute, and then the next turn.                     *)
SyncMarket(i) ==
  /\ ~busy /\ block # Old /\ FirstSilent(i)
  /\ client' = IF Replaces THEN 0 ELSE client
  /\ listen(Markets[i])
  /\ heardNow(Markets[i])
  /\ UNCHANGED <<up, node, block, loopFlag, busy>>

Silence == block = Old \/ \E m \in Range : Silent(m)

(* A turn that waits for nothing: the paths that have a flag are planned,  *)
(* and an order is committed or not.                                       *)
Plan ==
  /\ ~busy /\ ~Silence /\ loopFlag # {}
  /\ loopFlag' = {}
  /\ busy' \in BOOLEAN
  /\ UNCHANGED <<up, node, feed, block>>

CommitEnds ==
  /\ busy /\ busy' = FALSE
  /\ UNCHANGED <<up, node, feed, block, loopFlag>>

----------------------------------------------------------------------------
Older(age) == IF age = Old THEN Old ELSE age + 1

(* The next minute.  The loop turns every millisecond, or every second if  *)
(* it waits, so nothing it could do is left undone, unless it awaits an    *)
(* order or the node does not answer.                                      *)
Minute ==
  /\ busy \/ (block = Old /\ ~node) \/ (~Silence /\ loopFlag = {})
  /\ client' = Older(client)
  /\ heard' = [m \in Range |-> Older(heard[m])]
  /\ block' = Older(block)
  /\ UNCHANGED <<up, node, on, loopFlag, busy>>

Exchange == up' = ~up /\ UNCHANGED <<node, feed, block, loopFlag, busy>>
Node == node' = ~node /\ UNCHANGED <<up, feed, block, loopFlag, busy>>

Next ==
  \/ \E m \in Range, large \in BOOLEAN : Ticker(m, large)
  \/ Block \/ ConfirmLogs
  \/ SyncBlocks \/ (\E i \in DOMAIN Markets : SyncMarket(i)) \/ Plan \/ CommitEnds
  \/ Minute \/ Exchange \/ Node

(* The loop's timers run, an order ends (OrderCycle: CommitEnds), and time *)
(* goes by.  Neither tickers nor blocks need ever come.                    *)
Fairness ==
  /\ WF_vars(SyncBlocks) /\ WF_vars(\E i \in DOMAIN Markets : SyncMarket(i))
  /\ WF_vars(Plan) /\ WF_vars(CommitEnds) /\ WF_vars(Minute)

Spec == Init /\ [][Next]_vars
FairSpec == Spec /\ Fairness

----------------------------------------------------------------------------
(* Ages, and a client that somebody listens to.                            *)
TypeOK ==
  /\ up \in BOOLEAN /\ node \in BOOLEAN /\ busy \in BOOLEAN
  /\ client \in Ages /\ block \in Ages
  /\ heard \in [Range -> Ages]
  /\ on \subseteq Range /\ on # {}
  /\ loopFlag \subseteq Range

(* A market that was left behind on a client that is closed, and hears     *)
(* nothing, is put on one that is open again and again: unless the node is *)
(* gone, in which case the loop does not look at the exchange.             *)
DeafIsHealed == <>[]node => \A m \in Range : []<>(m \in on)

(* What a ticker or a log has brought is planned, whatever is silent in    *)
(* between and for how long the loop awaits its orders.                    *)
ChangesArePlanned == <>[]node => \A m \in Range : m \in loopFlag ~> m \notin loopFlag
=============================================================================
