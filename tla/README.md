# A formal model of the XDX grid bot

This directory models the trading bot of this repository in TLA+, checks it with
TLC and proves what matters most of it with TLAPS. It covers what the bot decides
and records: how a price spread becomes a position, how an order is routed,
committed, followed, chased, given up and booked, what survives a crash, what the
contracts it calls guarantee, and how the streams it lives on (exchange, node,
relay) are repaired. Prices and the numeric search for a route are inputs.

## 1. The system

The bot holds a position in one token and lets it follow a *grid*: the further
the price on a centralised exchange (CX) is from the price on the chain (DX), the
more notionals it wants to hold. It is one Node.js process. A main loop plans and
commits; handlers for blocks, the relay and Telegram run between its awaits. The
orders go to a contract that numbers them.

| Component | Source | State | Operations | What makes it right |
|---|---|---|---|---|
| Lattice | `src/src/constants.ts` 525-620, `src/src/TokenPath.ts` 774-831, 1015-1035 | the table; counters `OnOverOffPositivePosition`/`...NegativePosition`, each as plan, `...Pending`, `...Confirm`; `TargetNotional` | `GetNotioinalByProfitPrice`, `UpdatePosition`, the one-notional loop of `tryPaths` | it settles at constant prices; a shortened order keeps its side; the loop ends |
| Main loop | `src/src/Start.ts` 484-606 | `waitCommitMap`, loop flags | refresh feeds, `Loop` of both paths, commit the first candidate | goes on for ever; commits what it has just found |
| Planning | `src/src/TokenPath.ts` 840-1347, 1486-1783 | locals of `tryPaths` | plan, top up, shorten, offer a candidate, put the plan back, reset | never orders a pending position twice, orders on the right path |
| Commit | `src/src/SpotDx.ts` 1628-2520 | `commitWaitingMap`, `waitForTransaction`, `replaceHashs`, `DiffNotional` | register, take numbers, send, wait, settle, book, save, all catches | released on every way out; books what was traded, once |
| Block and relay handlers | `src/src/SpotDx.ts` 807-1048 | the same maps | poll the receipt, cancel a late order, take the relay's hashes | do not confuse orders |
| Gas chase | `src/src/SpotDx.ts` 1439-1574 | gas prices, `replaceHashs` | resend at another gas price | takes the order's place: same account nonce (its number is read from pair 0) |
| Profit and loss | `src/src/SpotDx.ts` 1713-1726, 2229-2284 | `RealizedPNL`, `PositionEntryLevel`, `StartRealizedPNL` | book a fill, stop on a loss | position and profit account for what was paid; a loss stops the trading |
| Route choice | `src/src/TokenPath.ts` 2005-2154 | - | choose at most three routes, rate and encode them | sends what the contract will trade |
| Status file | `src/src/status.ts` | one JSON file | load, save | holds the books between orders |
| Pending cleanup | `src/src/transactions.ts` | - | cancel everything pending | nothing of an old life stays pending |
| Telegram bot | `src/src/telegram-bot.ts` | the grid configuration | view, pause, reset, set, add, cut, buy, sell | no command corrupts an order under way |
| SpotEx / SpotCx | `src/src/SpotEx.ts`, `src/src/SpotCx.ts` | market price, throttle and its timer, one client per exchange | `UpdateMarket`, ticker listeners, `initFtxPath`, `initBinancePath`, `ResetActualPositionConfirm` | every change is published and planned; a market left behind on a closed client is repaired; position reset to the chain's |
| TrendingCall | `src/contracts/TrendingCall.sol` | `_pairList[pair]`: nonce, position0, position1 | `placeOrderCall...`, `addPairList`, `updatePairData` | one trade per order number |
| PlaceOrder | `src/contracts/PlaceOrder.sol` | the table of pools | rank routes, split the order, trade or revert | never sells more than the order, cheapest first, not beyond the cutoff |
| V3LiquidityBot | `src/contracts/V3LiquidityBot.sol` | ticks and liquidity | move a liquidity range | the range follows the price |
| Relay link | `src/src/RoyClient.ts`, `src/src/RoyWebsocket.ts`, `src/src/SpotDx.ts` 781-806 | a socket, `_retryConnecting`, listeners | connect, close, retry, ping, subscribe | comes back, subscribed, without heaping up sockets |
| Account websockets | `src/src/ws-client.ts`, `ws-account.ts` | sockets | connect, listen | not started by the grid bot |
| Vendored and generated | `abi`, `balancer-labs`, `balancer-v2-monorepo`, ABIs, `typechain`, `ccxws` | | | not modelled |

How they meet: price ticks and blocks set loop flags; the loop reads spreads,
moves the plan, offers candidates in `waitCommitMap` and awaits `commitTrending`
for the first of them. `commitTrending` keeps the order in `commitWaitingMap`,
sends it to `TrendingCall` and sleeps on a promise whose closure is stored in the
*global* `waitForTransaction`; the block handler calls that closure. Everything
shares the mutable `gridConfig`, which Telegram handlers write too.

What is hard here: handlers that run at any await; the shared closure; an order
number that is used again after a timeout, while the earlier order may still be
mined; two readings of the contract's position between which anything may be
mined; a dozen calls that may throw; a restart. `PROJECT.json` lists these
hazards at their lines, with the properties that guard them.

## 2. The modules

| Module | What it is |
|---|---|
| `Lattice` | The table and the arithmetic of the position counters. |
| `GridPlanner` | The planning loop alone, with the one-notional loop turn by turn. |
| `NonceLedger` | Abstract: what the contract promises about order numbers. |
| `TrendingCall` | The contract; implements `NonceLedger`. |
| `OrderCycle` | The process and the chain: planning, commit, polling, handlers, chase, commands, crash and restart. Extends `Lattice`; its chain implements `TrendingCall`. |
| `ProfitLoss` | `OrderCycle` with the profit figures and the stop-loss; implements `OrderCycle`. |
| `PlaceOrder` | How the contract values, ranks and allots routes: operators only. |
| `RoutedOrder` | A quote (`getEncodeData`), pools that move, and the contract's execution of it. Extends `PlaceOrder`. |
| `RelayLink` | The socket to the relay, its retry, the ping and the subscription. |
| `MarketFeed` | What the main loop waits for, and the shared exchange client it repairs. |
| `MarketQuotes` | The throttle between a ticker and the price that is planned with. |
| `..._proofs` | Theorems about the module of that name; `Market_proofs` about MarketFeed and MarketQuotes. |
| `MC...` | Values for the constants of the TLC runs. |

### Lattice and GridPlanner

A spread is an integer, in units of the smallest difference of two thresholds.
`Build` and `Reduce` are the two columns of the row a spread reaches,
`UpdatePosition` moves each counter into its band. `ShrinkStep` is one turn of the
loop in `tryPaths(onlyOneNotional)`; `OneNotional` is the whole loop in closed
form. GridPlanner runs the loop turn by turn and shows that the closed form is the
loop (`LoopIsOneNotional`); OrderCycle then uses the closed form. A curiosity that
the model found and keeps: the loop can take `neg` below zero (the counters' type
is `[pos : Nat, neg : Int]`), which the next fill or rollback carries along.

The market is assumed not to gain both ways at once (`on + off <= 0`): the two
spreads pay opposite sides of both order books, and fees. The table is assumed to
have the shipped order (`LatticeAssumption`); the `set` command checks hardly any
of it.

### TrendingCall and NonceLedger

One function per pair record, `placeOrderCall` as in the source, its entry points
with the three deadlines (the `Chi` variants are the same calls with a refund),
and the owner's `addPairList` and `updatePairData`. What the pools make of the
order is one of three results: traded, braked (the price limit left nothing),
reverted (`require(..., "N")`). `fills` is a history variable. A call by someone
who is not on the whitelist reverts and is no step. The position fields have their
width as `PositionLimit`, and the checked `+=` reverts beyond it; the cast
`int112(int256(amount))` before it truncates silently, which the model leaves out.

`NonceLedger` says the same without records: a number is open until it has traded
or is dead, then stays so, and a smaller number dies with a bigger one.
`KeepsLedger` is its specification under the mapping `Fate`.

### OrderCycle

The process has one thread, so that an action is what runs between two awaits, and
`pc` names the await the main loop is in:

| `pc` | Await | Actions that leave it |
|---|---|---|
| `boot` | cancels at the start | `CancelPending`, `Boot` |
| `top`, `sell`, `buy` | between turns; before `Loop` of a path | `BeginTurn`, `SkipPath`, `LoopPath` |
| `find` | `findTrendingPath` | `FoundPath`, `NoPath`, `TopUpThrows` |
| `reset` | balances and position of a reset in `tryPaths` | `ResetInTryPaths` |
| `pick`, `input` | first candidate; simulation in `commitTrending` | `PickNone`, `PickFirst`, `Decline`, `Register`, `InputFails` |
| `prepare`, `number` | the two reads of the pair list and of the account nonce | `Prepare`, `Number`, `PrepareFails` |
| `send`, `before` | sending; opening position | `Send`, `ReadBefore` and their failures |
| `wait` | the promise of the receipt | `PollReturns`, `Timer` |
| `settle`, `filled` | closing position; balances after a fill | `Settle...`, `BookFill`, `BookFails` |
| `tail` | prices after the order | `EndTurn`, `EndTurnFails` |
| `stopped` | no block handler: the loop waits for a first block | none |

`plan`, `pending` and `confirm` are the three pairs of counters, `target`,
`diff`, `actual` are `TargetNotional`, `DiffNotional`, `ActualPosition` (a fill
overwrites a booked position under a hundredth of a notional, `Opens`, and adds to
any other), `wish` is `botDNotional`, `disk` the status file, `waiting` an entry in `commitWaitingMap`,
`waiter` the order whose closure `waitForTransaction` holds, `hashes` every
order's `replaceHashs`, `polls` the calls of closures that have not returned.
The chain is `spent`, `position` (the pair's record), `account`, `mempool`,
`mined`; one account nonce is mined once, so an order, its relay copy and its
cancel exclude each other. Outside `boot`, handlers and the chain act in any state.

`Chase` resends the registered order as a competitor bids more for gas. It takes
the account nonce and the number that the order's own code has put into the shared
`overrides` and `inputNonce` (`order.account`, `order.chase`), before, during or
after the sending. The account nonce is the order's. The number need not be: it is
the next one of *pair 0* (SpotDx.ts:1963), while the order reads `[pairId]` (1969)
and the chase is sent to that pair (1541). As shipped, `pairId` is 1
(Start.ts:308), so that the copy is stale or trades under a number that need
not be the order's. `PairId` is the market's pair, `FirstNonces` what pair 0 may show: `spent`
if it is the market's own, else anything up to `MaxFirst`. The copy takes the place
of the order in the node (`Outrun`), so
the order's own hash may be unknown there: its cancel then takes an undefined
nonce, that is the next one (`Cancel`). For an operator's buy or sell the order has
no number at all, while its chase has one.

A *top-up* (what a partial fill left of the target) asks for no notional. The
smallest order it encodes is then 0, by which `PlaceOrder.sol:60` divides: the
contract's view panics, and the await of it at TokenPath.ts:1905, which nothing
guards, throws (`TopUpThrows`). A top-up found without a simulation becomes a
candidate, throws when it is committed (`InputFails`) and stays the first one, so
that each later turn that comes to it throws again. No top-up is ever sent. Those
without a simulation come up in no run; the theorems include them.

Abstractions, and why they keep the behaviour:

- `findTrendingPath` finds a route or not, and `tryFindMaxK` returns the whole
  volume or, with fault `"short"`, some smaller one: its numeric search is data.
- The exchange rate between the tokens is one for volumes, so that both paths
  count in the same unit. `UnitNotional` units make a notional.
- The filter that recognises a competitor in the mempool is left out: a chase may
  come at any moment. The copy of a chase for the relay is left out too: it is made
  of `placeOrderCallPamas.data`, which nothing sets, and is an empty transfer.
- The deadline is counted in blocks from the sending; the code's 30 and 10 are
  the constants `DeadlineBlocks` and `CancelBlocks`.
- A chain reorganisation, `TargetPosition` and the `set` command are not modelled.
  `ActualPositionOffset` is zero: `Init` is a configuration that a view has given
  an offset (telegram-bot.ts:206) and saved. Before the first view it is undefined
  and the reset computes NaN (SpotEx.ts:486), which the model leaves out.
- `Raced` lets the restart fail if any earlier order of the account was mined; the
  code fails in fewer cases. That adds behaviours and removes none.
- The startup check of the booked position is left out because it never runs:
  `InitSpotDx` (Start.ts:181) iterates `tokenPaths` (SpotDx.ts:947-952) before
  Start.ts:338 fills it. `CheckResetTargetNotional` of `SpotCx` returns false at
  once, so the calls of it in `tryPaths` and `commitTrending` change nothing.
- `...Pending` is undefined until the first order or reset; zero stands for that.
  No step tells them apart before something has set the field.

What may go wrong is the constant `Faults`, and the operator's repertoire is
`Commands`; the module lists both. A run enables what its question is about.

### ProfitLoss

`Place` and `FillAt` replace `Register` and `BookFill`: registering checks the
stop-loss, a fill has one of `Levels` as its price and goes to one of the four
branches (`Opens` of OrderCycle, `Adds`, `Flips`, reduces). All figures are exact fractions in
lowest terms, so that `BooksBalance` is an equation: what is realised plus what the
position is worth at its entry level is what was paid. The history variables `paid`
and `span` (the levels at which the position now held was built) are what the
figures are compared with. `One` is the number of units that make a token, by which
the comparison of notionals with tokens (`Flips`) differs from the others. A
crash, which would make the process start counting anew, is not in this run.

The configuration comes with the realised profit `BookedPNL`, 0 as shipped
(Start.ts:328). The code compares the start value with 0 to see whether it is set
(SpotDx.ts:1714). Any other value is the reference; with 0 the reference is taken anew at every order until something
is realised, and the first result becomes it. `origin`, a history variable, is what
the reference comes to be, and `LossEndsTrading` speaks of what has been lost
*since*: a first loss of a process started with 0 is not counted, however large.
That is the code, and less than an operator may expect of it. The comment at 1713
speaks of 10 %, the code takes a fifth.

### PlaceOrder and RoutedOrder

`PlaceOrder` translates `getInputData` and `sortOrders`: the shift of a route
against the reference price, the green light for the first route, the sort of three
places (`Ranks` states its result: by shift, the later of two equals first), the
single route, and `Spread` over the ranges between ranks, with its leftover. An
empty rank is a record of zeros, as in the code. 2^96 is the constant `X96`, and
every division rounds down where the code's does; a subtraction that would go below
zero panics, and the call reverts.

`RoutedOrder` composes both ends. `Encode` is `getEncodeData`: at the prices of
now it values every route, drops what is too dear or too shallow, takes the first
three and writes rates and the smallest order, one byte that must not be 0
(`Askable`): a top-up, of 0 notionals, gets no answer. Then pools move (`Move`), and
`placeOrderCall` decodes, decides again and sells what `Sold` says: all, a part
(pools filled less), or it brakes or reverts. A route through Balancer has no price
once somebody has bought there (`SpotPrice`, 0), keeps shift 0 and is ranked all
the same; `Regular` excludes it from the properties that speak of prices.

### RelayLink

`sock` is the state of each socket ever made (connecting, open, lost without
anybody knowing, closed), `wss` the one `_wss` refers to, `retry` where
`_retryConnect` stands, `subscribed` the sockets on which the relay got the
subscription, `handlers` the message listeners (one more with each connection,
counted up to `MaxHandlers`). One action per event: `RetryTimer`, `Opens`, `Fails`,
`Drops`, and `ping` of the interval in SpotDx. `RoyClient.reconnect` runs once,
before there is a socket, and its branch with a socket is never reached. What the
model shows and keeps: a failed handshake ends the retry with no socket (the ping
revives it); a ping in the first handshake forgets that socket with its listeners
on, and its later close drops the good one.

### MarketFeed and MarketQuotes

`MarketFeed` has times as ages in minutes begun. `SyncBlocks` and `SyncMarket` are
the waits of the loop, in the order of the code: node first, then the first silent
market. `on` is the set of markets that listen on the client of now; a replaced
client leaves the others' listeners behind. `loopFlag` holds the markets with
something new, which tickers set if they change enough and confirm logs set by
force. `busy` is an awaited order.

`MarketQuotes` is one ftx market: `QuoteTicker` (a changed quote, or the leftover of the
listener) calls `UpdateMarket`, which opens a window, averages (`Wait`) or
publishes; `Fire` is the timer's call of it; `Pass` is time, which cannot pass a
timer that is due. `owed` is a history variable: something came in that no price
was published for.

## 3. What is checked

Passing runs (distinct states on the instance given by the cfg):

| Run | Instance | States | Shows |
|---|---|---|---|
| `grid` | shipped table, 12 spreads per direction | 5 000 | `ShrinkKeepsSide`, `LoopIsOneNotional`, `OneSided`, `FilledIsSettled`, `FillsConverge`, `ShrinkEnds` |
| `contract` | 2 pairs (one added later), 2 numbers, positions -1..1, 2 blocks and times | 9 200 | `NonceTradesOnce`, `PositionMovesWithNonce`, `KeepsLedger` |
| `profit` | 4 orders, grid of 2 on either side, 2 price levels, no profit booked at the start; short balances, brakes, reverts | 351 000 | `TypeOK`, `BooksAgree`, `WithinGrid`, `BooksBalance`, `EntryWasTraded`, `TurnsForever`, `LossEndsTrading` |
| `late` | 2 orders; timer, cancels, chases with another pair's number; one operator's buy | 1 293 000 | `OneTradeEach`, `CallsContract` |
| `faults` | 2 orders; any call fails, timer, early mining, one reset | 433 000 | `NonceTradesOnce`, `ReleasedAfterCommit`, `CommitEnds` |
| `market` | 2 orders of 2 units; relay copies, partial fills, any one command, one crash | 1 600 000 | `BooksOwnNumber`, `DiskKeepsBooks` |
| `routes` | 5 routes over 6 pools (one of two hops, one Balancer), up to 3 prices each | 15 600 | `NeverOverspends`, `BeyondCutoffUntouched`, `CheapestFirst`, `PlacesWhatFits`, `RoomIsUsed`, `UnmovedTrades` |
| `relay` | 3 sockets alive at once, outages at any moment | 790 | `RetryHasAnEnd`, `OpenIsSubscribed`, `AtMostTwo`, `Recovers` |
| `feed` | 3 markets on one client | 1 200 | `DeafIsHealed`, `ChangesArePlanned` |
| `quotes` | a window of 15 units of time, every moment of it | 15 400 | `WindowHasTimer`, `DueWindowEnds`, `ChangesArePublished` |

`TypeOK` of the other modules is proved (section 4). `grid`, `contract`, `routes`
and `quotes` set `CHECK_DEADLOCK FALSE`: their numbers and blocks are bounded, a
grid with nothing to do stands still, a call that has run and an exchange that is
silent leave nothing to do. No run of OrderCycle, RelayLink or MarketFeed does.

Why the bounds suffice. Two orders are the smallest number at which a closure, a
hash, an order number or a receipt of one order can meet another order, and no
state holds more than the current order and those before it. Four orders (build,
build, reduce, turn) take the grid over both sides of its band and a position
through opening, adding, reducing and turning round, with profit and loss at two
prices. One notional against two units is what a partial fill needs.
`DeadlineBlocks = CancelBlocks = 1` reaches every side of both limits: valid,
cancellable, expired; `late` has both at 0, where one block takes an order from
valid to late, which leaves room for `MaxFirst = 1`: the other pair's nonce is 0 or
1, so that a chase may be stale, bear the order's number, or one above it. Every run
has `PairId = 1`, as shipped.
One command against an order in any of its awaits is what the
properties are about; the handlers' own awaits (a view, a reset) are steps apart, so
that the order, a crash or a restart meets them half done. One crash suffices for
`DiskKeepsBooks`, which speaks of what is on disk before it. Three routes are all
the contract can rank, five let the choice drop some, and three prices put a pool
inside, at the edge of and outside the cutoff. Three sockets are one more than
`AtMostTwo` allows, three markets let two of them fight for the client while a third
looks on. A window of 15 is divided by 1, 3, 5 and 7 at different moments.

What the route properties allow for. Every division of the contract rounds down,
and the proofs show how much of a property that costs. A better route may be left
with one unit of volume, and 1/Wei of a price, that it could have taken before the
next one (`CheapestFirst`). Three routes round their room and their share of it in
three ranges, and the edge of the cutoff twice, so that a fitting order may lose
five units besides the tenth the contract allows itself (`PlacesWhatFits`). Without
these margins both fail for suitable constants. A room counts as one for the
smallest order when it has four units more, measured two steps of the price short of
the cutoff (`RoomIsUsed`). The bot keeps a route by a test without division and the
contract rounds the inverse of its slippage and its depth down, so an order may be
braked at the prices it was quoted at, although the bot kept the route;
`UnmovedTrades` therefore asks for one route on which a tenth of the order is more
than the smallest order by what that rounding costs
(`Clear`). An order of a single notional never does: at the very edge of the bot's
test it may be braked at unmoved prices.

Violation runs: what the source says of itself and does not do. Each has one
property and a short counterexample.

| Run | Says the source | Does the program |
|---|---|---|
| `beyond_cutoff` | what slips more than the cutoff is not ordered (IStructs.sol:124-125) | with two routes in reach the missing third counts as shift 0 (PlaceOrder.sol:337), and routes are sold beyond the cutoff |
| `entry` | `PositionEntryLevel` is the average price of the position held (constants.ts:551) | notionals are compared with tokens (SpotDx.ts:2243): with `UnitNotional` above 1 a fill that turns the position round keeps the old side's level |

Other consequences of the code seen while modelling are in the hazards, with a note.
Four go against a comment of the source and are behaviours of OrderCycle: a braked
order leaves its plan pending (the comment at SpotDx.ts:2308 says it rolls back); an
order mined before its opening position is read is dropped as forked
(SpotDx.ts:2148); a view between mining and booking has the fill added twice
(telegram-bot.ts:205); a turn that ends in an exception leaves its candidate for a
later turn (Start.ts:590). The properties are stated for what remains true with
them. Besides, a pause pauses planning, not ordering: `tryPaths` goes on with the
plan it finds (the comment at TokenPath.ts:870 reads otherwise); and an order mined
after its timer is never booked. And the remainder that `Opens` overwrites is lost
to the books when amounts are finer than a hundredth of a notional and orders fill
partly: the proof of `BooksFollowChain` needs `Dustless` for it.

**Fairness.** `FairSpec` of OrderCycle (and `PLFairSpec`, the same of the cycle with
profit) has weak fairness of `Turn` (every await of the loop ends: with an answer or
an exception), `Timer` (a `setTimeout`), `Mine`, `Block` and `PollReturns`. With the
timer enabled `CommitEnds` needs only the first two, and the timer goes off because
it is set together with the promise. The run `profit` has no timer and asks the
chain and the poll to go on. Nothing is assumed of cancels, chases, relay, operator
or crashes. Where the number of orders is used up, the loop turns without ordering.
RelayLink: timers run (the retry's second, the ping's interval), a handshake ends
one way or the other (`handshakeTimeout`), and a lost socket is found out in the end
because the ping keeps sending on it; `Recovers` supposes that the network stays up
from some time on. MarketFeed: the loop's timers run, an order ends
(`CommitEnds` of OrderCycle) and time goes by; neither tickers nor blocks need come,
and the two liveness properties suppose only that the node answers from some time
on. MarketQuotes: a due timer fires and time passes.

## 4. What is proved

For every value of the constants (any table of the shipped order, any spreads, any
number of orders, crashes, commands, polls and any set of faults; any pools, routes
and prices; any number of sockets and markets):

- `Lattice_proofs`: `EdgesAreMonotone` and `UpdateIsStable` (the second rests on
  the first: with `on + off <= 0` no band is upside down, and moving into a band
  twice is moving once); `OneNotionalKeepsSide`.
- `GridPlanner_proofs`: `PlannerTypeCorrect`, `LoopKeepsSide`,
  `LoopComputesOneNotional`, `LoopCloses`, `GridSettles`, `PlanIsOneSided`,
  `FillsGetThere`. The
  inductive invariant says inside the loop that the plan is still on the side of the
  order asked for and that the closed form, applied to where the loop stands, has not
  changed. `LoopCloses` (`TurnsTakeOneOff`) is the safety half of `ShrinkEnds`: each
  turn takes one notional off and nothing comes between. `FillsGetThere` (`FillsConverge`) adds that between turns an open plan is
  the one asked for or the closed form of it (`OpenPlan`), and that a counter which
  was cut down moves back towards the plan and not past it (`BandPullsBack`), also
  when the loop has taken the difference from the wrong counter: what is left is at
  most what was cut off.
- `TrendingCall_proofs`: `TypeCorrect`, `TradedStaysSpent`, `NoSecondTrade`,
  `NonceTellsPosition` and the refinement `ContractKeepsLedger`. `NonceTradesOnce` is
  not inductive: a number is traded only above the nonce, so one needs that what has
  traded is at or below it (`TradedIsSpent`). A step of the contract maps to the trade
  or the death of one number, to a rewrite, or to a stutter.
- `OrderCycle_proofs`, in three groups.
  *Under every set of faults*: `CycleTypeCorrect`, `ReleasesAfterCommit` (invariant
  `TInv`: types, finiteness of the mempool for the account nonce, orders numbered
  no higher than the last one, and `ReleasedAfterCommit`, which is inductive with
  them); `OrderTradesOnce` and `FillIsOwnTrade` (invariant `NInv`): every receipt
  that traded under a number is at or below `spent`, so the contract takes no second
  one; and if the position has moved since it was read as the order opened, while
  the order's number is `spent + 1` or just spent, the move is the trade of that
  number (`MoveExplained`): whichever receipt, relayed, chased or earlier, ends the
  wait, the difference booked is the order's own. That second theorem assumes
  `PairId = 0` or no chase (`OwnChase`): the chase of another pair's number may move
  the position under a number that is not the order's, and is then booked as its
  fill; `BooksOwnNumber` fails with it, and run `market`, which checks it, has no chase.
  Nor is a trade booked twice
  (`NoSecondBooking`): several orders may have borne its number, but a number that is
  booked is spent, the next read gives a larger one, and the order that has it has
  settled. `EachTradesOnce` (invariant
  `AInv`) covers the orders without a number: all that is sent of an order, cancels
  apart, has one account nonce (`OneAccount`, `OwnAccount`), nothing in the mempool
  is under a nonce that is mined (`NotPast`), so the trade of one copy leaves none
  behind (`NothingLeft`), and while the nonce is unused nothing has traded
  (`UnusedUntraded`), so a chase that comes late is refused. `DiskIsUpToDate` assumes
  `"rpc" \notin Faults`: with failing calls the state is indeed left unsaved.
  *The refinement*: `ChainIsContract` says that the chain of the cycle is
  TrendingCall: a block that mines a transaction of the bot is one `placeOrderCall`
  or a stutter, also where the transaction is late, repriced, relayed or sent twice.
  The invariant `KInv` bounds the numbers in play (none is above
  `LastNumber`: one for each order, after those that a chase may bring from pair 0),
  and the mapped `fills` counts receipts, which `OrderTradesOnce` keeps
  at one. The hypothesis `Gap(position) <= Reach` is the `int112` of the contract:
  past it the contract reverts and OrderCycle, whose positions are unbounded, goes on.
  `CalmChainIsContract` derives that bound from the grid where the grid holds.
  `OrdersKeepLedger` refines the abstract NonceLedger directly and without the
  hypothesis: whatever is lost, late or sent twice, each number of the bot trades once
  or dies, for good, and no step is one of the ledger's rewrites. What ends is a
  number above the last one spent, the next one unless a chase brought it from
  another pair, and the smaller ones that were open die with it.
  *The books, in calm runs*: `BooksFollowChain` (what is booked is what the contract
  holds, partial fills included), `BooksAreRight` (`BooksAgree`) and `GridIsKept`
  (`WithinGrid`). Their hypotheses are explained below. `EditsKeepBooks` is the first
  of them for an operator who also adds and removes notionals during orders
  (`Undisturbed`): the fill then confirms a plan that was not ordered, but what is
  booked is still what was traded.
- `ProfitLoss_proofs`: `ProfitKeepsCycle`, by which the theorems of OrderCycle hold
  of the cycle with profit too; `EveryFillBalances`, `EntryStaysTraded`; and
  `StopLossBinds`, for every `BookedPNL`, from the invariant `StartKnown`: the start
  value is 0 and nothing has been realised when an order is under way, or it is the
  first result there was, and never moves. `EveryFillBalances` rests on lemmas
  that say of each operation on fractions what it is worth (`Worth`: a fraction in
  lowest terms stands for a quotient of integers) and that two fractions worth the
  same are equal; each branch of a fill is then an identity of integers, and the
  mean entry level of a growing position is what makes the opening branches balance.
  `EntryStaysTraded` is the same for the order of fractions: a mean lies between its
  terms. It holds for every `One`: the one step that takes the entry level out of the
  levels of its position is a fill whose size in notionals says that it turns the
  position round and whose size in tokens says otherwise, or the reverse
  (`Misjudged`). Where a notional is one token there is none, and the level is always
  right (corollary `EntryAlwaysTraded`).
- `RoutedOrder_proofs`: `RoutedTypeCorrect`, `OrderIsTheLimit`,
  `CutoffRoutesUntouched`, `RoutesAreCheapestFirst`, `OrderIsPlaced`, `RoomIsSold` and
  `UnmovedIsTraded`. The shares of
  a range add up to no more than the volume of it (rounded down), the volumes of the
  ranges to no more than what remains, and a leftover is given out only when it is
  below the smallest order and the ranges are done; a shift beyond the cutoff ranks
  after every one inside it, and the ranges end before it. For the other two, the
  three possible ranges are written out (`Ranges`) and the allocation is shown to be
  theirs one after the other (`Split`, `SpreadIsSplit`): as long as volume remains a
  range sells its capacity, so a route that is reached leaves every better one sold
  down to its price, and the ranges together sell the rooms of the routes.
  `RoomIsSold` says that either the order is sold but for a tenth or every rank gets
  its room within two units (`SplitReaches`), so the share of a route with room for
  the smallest order is not held back. `UnmovedIsTraded` rests on it: while the pools
  stand where they were, every route of the quote passed the bot's test
  (`QuotedDeep`), and what passes that test is deep by the contract's rounded
  computation too, but for three steps (`DeepForContract`).
- `RelayLink_proofs`: `LinkTypeCorrect`, `RetryIsNeverStuck`, `LinkIsSubscribed`,
  `TwoSocketsAtMost`. The invariant says of each place of `_retryConnect` which
  sockets may be alive: only in the first handshake can a socket be forgotten, and
  the forgotten one stays the only one (`OneForgotten`).
- `Market_proofs`: `FeedTypeCorrect` of the feed;
  `QuoteTypeCorrect`, `OpenWindowHasTimer`, `DueTimerEndsWindow` of the throttle. The
  timer of a window is set for what is left of the interval of the *first* ticker and
  judged by the interval of the *last*, so one needs that both agree as far as
  necessary: the time since the window opened and the time the timer has left make up
  at least the interval of now (`Timed`), because intervals shrink with the count.
  `PriceIsNotCrossed` (`NeverCrossed`: no published ask below its bid) has no run of
  its own.

**The calm hypotheses.** `BooksAgree` and `WithinGrid` do not hold under every fault,
and the violation is in the code, not in the proof. `Calm` excludes exactly these:

| Excluded | Because |
|---|---|
| a timer, an early receipt, a failing call | the order's fill is never booked, or booked as nothing |
| a relay copy | a stale receipt of the relay settles the order of now |
| a chase | a copy under the shared account nonce outlives its order, or has another pair's number |
| view, reset | take over the contract's position between mining and booking |
| add, cut | move the plan while its order is under way (the books stay right: `EditsKeepBooks`) |
| a crash | loses the fill between mining and saving |

Left are reverts, brakes, cancels, partial fills, short routes, pauses and an
operator's buys and sells: all that happens when nothing is late. The invariant
`HInv` says there that all under way belongs to the order of now and has the next
account nonce (`OwnOnly`), and where the contract's position stands against the
booked one at each await (`Held`); `SInv` that a fill is on the order's side.

- `Dustless`: a notional has at most a hundred units, or fills are whole. Otherwise
  `Opens` overwrites a remainder.
- `WholeFills`: no partial fill, and a shortened route only where a notional is one
  unit. Otherwise the target, counted in notionals, is not the position: what
  a partial fill leaves would take a top-up, which throws. The invariant `FInv` adds
  that the order of now is the one the plan asks
  for (`PlanFits`) and that target, confirmed counters and books agree (`OnTarget`).
- `NoFreeLunch`: what GridPlanner assumes of the market (`on + off <= 0`), and that
  it shows some spread; plan and confirmed counters then stay inside the edge of the
  table (`OnGrid`).
- `One = UnitNotional`, only for the corollary `EntryAlwaysTraded`: the shipped
  notional is 4000 tokens, and run `entry` shows what happens then.

The run `profit` is calm, dustless, whole and without a free lunch: the hypotheses
have states.

The assumptions are those named in the modules (`TableIsLattice`,
`SpreadsAreArbitrageFree`, `ContractConstants`, `CycleConstants`, `ProfitConstants`,
`PlaceOrderConstants`, `RoutedOrderConstants`, `RelayLinkConstants`,
`MarketFeedConstants`, `MarketQuotesConstants`), which TLC evaluates in the runs.

Only model-checked:

- Liveness (`ShrinkEnds`, `TurnsForever`, `CommitEnds`, `Recovers`,
  `DeafIsHealed`, `ChangesArePlanned`, `ChangesArePublished`), which is out of the
  prover's reach, as are ENABLED and inductions over data.

## 5. Not modelled

- The numeric search for a route and its volume (`findTrendingPath`, `tryFindMaxK`,
  `ArbitrageLibs.ts`): floating-point optimisation; every module takes any result.
- `V3LiquidityBot.sol`, `AssetsManager.sol`: nothing in the trade cycle calls the
  first; the second consists of single guarded assignments.
- The table of pools of PlaceOrder (`addPoolList`, `updatePoolData`) and the swaps of
  the single pools.
- `exchanges/`, `ws-client.ts`, `ws-account.ts`, history, database and graph queries:
  requests without state, or not started by the grid bot.
- The `set` command and the reports of the Telegram bot; `UnrealizedPNL`, which is
  only shown.
- Vendored and generated code (`abi`, `balancer-labs`, `balancer-v2-monorepo`,
  `typechain`, ABIs), which is most of the repository's lines.

## 6. What could be added

1. How far the books may be off under each fault that `Calm` excludes (one order's
   amount, until the next reset): it needs sums over receipts, and so induction over
   data.
2. The `set` command, with what it must check of a table for the lattice theorems.
3. The best price per path (TokenPath.ts 178-311), whose staleness the loop plans on.
4. V3LiquidityBot's range.
