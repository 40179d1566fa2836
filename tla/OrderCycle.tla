----------------------------- MODULE OrderCycle -----------------------------
(***************************************************************************)
(* The trade cycle of the bot: one Node.js process that plans a position   *)
(* from the spreads (TokenPath.Loop, UpdatePosition, tryPaths), commits at *)
(* most one order per turn of its main loop (commitTrending), follows the  *)
(* order's transactions until they are mined or a minute has passed, and   *)
(* books the outcome in the grid configuration it saves to disk; and the   *)
(* chain the transactions go to.                                           *)
(*                                                                         *)
(* The process is single-threaded, so what runs between two awaits is one  *)
(* action and pc says which await the main loop is suspended in.  What may *)
(* happen meanwhile is the rest of Next: blocks, mining, polls for the     *)
(* receipt, the relay's messages, operator commands and the process dying. *)
(* Both token paths of the market share one gridConfig, whose fields are   *)
(* the variables of the second group.                                      *)
(*                                                                         *)
(* Amounts are counted in units of which a notional has UnitNotional; the  *)
(* exchange rate between the two tokens is taken as one for volumes.       *)
(***************************************************************************)
EXTENDS Lattice, FiniteSets

CONSTANTS
  Spreads,         \* the pairs [on, off] of spreads the market may show
  UnitNotional,    \* gridConfig.UnitNotional
  PairId,          \* gridConfig.pairId: the market's pair in TrendingCall
  DeadlineBlocks,  \* blocks for which an order stays valid (30)
  CancelBlocks,    \* blocks after which a waiting order is cancelled (10)
  Faults,          \* what may go wrong in a run, a subset of AllFaults
  Commands,        \* the telegram commands the operator gives, a subset of AllCommands
  MaxOrders,       \* bound on the orders committed in a run
  MaxFirst,        \* bound on the nonce of pair 0, where that is another market's
  MaxCrashes,      \* bound on the crashes of the process
  MaxCommands,     \* bound on the operator's commands
  MaxPolls         \* bound on the receipt polls of one order under way at once

(* "rpc"     a call to the node fails: the await it stands at throws       *)
(* "timer"   the 60 s timer goes off before the receipt is seen            *)
(* "early"   an order is mined before its opening position has been read   *)
(* "partial" the pools fill less than the order                            *)
(* "short"   the balance covers only a part of the order, or none of it    *)
(* "revert"  the transaction reverts on its minimum output                 *)
(* "roy"     the copy sent to the Roy relay is mined instead               *)
(* "cancel"  the block handler replaces a late order by an empty transfer  *)
(* "chase"   somebody bids more for gas, and the order is sent once more   *)
AllFaults == {"rpc", "timer", "early", "partial", "short", "revert", "roy", "cancel", "chase"}

AllCommands == {"add", "cut", "buy", "sell", "pause", "view", "reset"}

ASSUME CycleConstants ==
  /\ \A s \in Spreads : s \in [on : Int, off : Int]
  /\ UnitNotional \in Nat \ {0}
  /\ PairId \in Nat
  /\ DeadlineBlocks \in Nat /\ CancelBlocks \in Nat
  /\ Faults \subseteq AllFaults
  /\ Commands \subseteq AllCommands
  /\ MaxOrders \in Nat /\ MaxFirst \in Nat /\ MaxCrashes \in Nat /\ MaxCommands \in Nat /\ MaxPolls \in Nat

VARIABLES
  (* the chain *)
  spent,      \* nonce of the market's pair in TrendingCall
  position,   \* position0 of that pair
  account,    \* next account nonce of the bot's wallet that a block can take
  mempool,    \* the bot's transactions waiting to be mined
  mined,      \* receipts of those that were
  (* gridConfig *)
  plan,       \* OnOverOffPositivePosition, OnOverOffNegativePosition
  pending,    \* ...Pending: the plan of the last order sent
  confirm,    \* ...Confirm: the plan of the last order filled
  target,     \* TargetNotional
  diff,       \* DiffNotional: what the order under way will add to target
  actual,     \* ActualPosition: the position as booked by the bot
  paused,     \* pause or a running pauseEndTime
  wish,       \* spotCx.botDNotional: the operator's buy and sell requests
  disk,       \* the saved configuration
  (* the main loop *)
  pc,         \* where the main loop is suspended
  flags,      \* the paths whose loopFlag is set
  attempt,    \* tryPaths's local variables while it looks for a route
  cands,      \* waitCommitMap, oldest first
  (* commitTrending *)
  order,      \* its local variables and waitingData
  waiting,    \* commitWaitingMap holds an entry
  hashes,     \* waitingData.replaceHashs of every order, each with its owner
  waiter,     \* the order whose closure waitForTransaction holds; 0 for null
  polls,      \* polls[o]: calls of order o's closure that have not returned
  handler,    \* the telegram handler that waits for the node: reset, view or none
  (* bounds *)
  crashes, commands

chainVars  == <<spent, position, account, mempool, mined>>
gridVars   == <<plan, pending, confirm, target, diff, actual, paused, wish, disk>>
commitVars == <<order, waiting, hashes, waiter, polls>>
otherVars  == <<handler, crashes, commands>>
vars == <<spent, position, account, mempool, mined,
          plan, pending, confirm, target, diff, actual, paused, wish, disk,
          pc, flags, attempt, cands,
          order, waiting, hashes, waiter, polls, handler, crashes, commands>>

Paths  == {"sell", "buy"}   \* the path starting at token0, and the one at token1
Orders == 1..MaxOrders
Kinds  == {"direct", "roy", "cancel", "chase"}
Places == {"top", "sell", "buy", "find", "reset", "pick", "input",
           "prepare", "number", "send", "before", "wait", "settle", "filled", "tail",
           "boot", "stopped"}

(* The awaits of commitTrending from the first to the last one at which an *)
(* order may be registered in commitWaitingMap.                            *)
Committing == {"prepare", "number", "send", "before", "wait", "settle", "filled"}

(* How tryPaths looks for a route: for all of the order, for one notional  *)
(* of it, or for one notional without a simulation (noSimulate).           *)
Ways == {"whole", "one", "blind"}

NoAttempt == [path |-> "sell", way |-> "whole", target |-> 0, diff |-> 0, amount |-> 0]
NoOrder(n) == [no |-> n, target |-> 0, diff |-> 0, amount |-> 0, nonce |-> 0, chase |-> 0,
               account |-> 0, before |-> 0, traded |-> FALSE, delta |-> 0]

----------------------------------------------------------------------------
(* Starting the process.  LoadStatusConfig takes the last plan, executed   *)
(* or not, for the target, and forgets what was pending.  The saved        *)
(* configuration is one that has been viewed: before the first `view` the  *)
(* offset of the booked position is not a number.                          *)
Saved == [plan |-> plan, confirm |-> confirm, actual |-> actual, paused |-> paused]

(* Mutant: the file is written before the fields are set.                  *)
SavedTooEarly == disk' = Saved

SaveStatusConfig ==
  disk' = [plan |-> plan', confirm |-> confirm', actual |-> actual', paused |-> paused']

Init ==
  /\ spent = 0 /\ position = 0 /\ account = 0 /\ mempool = {} /\ mined = {}
  /\ plan = Flat /\ pending = Flat /\ confirm = Flat
  /\ target = 0 /\ diff = 0 /\ actual = 0 /\ paused = FALSE /\ wish = 0
  /\ disk = Saved
  /\ pc = "top" /\ flags = Paths /\ attempt = NoAttempt /\ cands = <<>>
  /\ order = NoOrder(0) /\ waiting = FALSE /\ hashes = {} /\ waiter = 0
  /\ polls = [o \in Orders |-> 0]
  /\ handler = "none" /\ crashes = 0 /\ commands = 0

(* The process dies in any await; what the node has already taken stays.   *)
(* Its memory is set to what LoadStatusConfig is going to make of the file.*)
Crash ==
  /\ crashes < MaxCrashes /\ crashes' = crashes + 1
  /\ plan' = disk.plan /\ confirm' = disk.confirm /\ pending' = disk.confirm
  /\ target' = Net(disk.plan) /\ diff' = 0
  /\ actual' = disk.actual /\ paused' = disk.paused /\ wish' = 0
  /\ pc' = "boot" /\ flags' = Paths /\ attempt' = NoAttempt /\ cands' = <<>>
  /\ order' = NoOrder(order.no) /\ waiting' = FALSE /\ hashes' = {} /\ waiter' = 0
  /\ polls' = [o \in Orders |-> 0]
  /\ handler' = "none"
  /\ UNCHANGED <<chainVars, disk, commands>>

(* An empty transfer under the account nonce of tx, to put it out of the   *)
(* way.                                                                    *)
EmptyTransfer(tx) ==
  [order |-> tx.order, kind |-> "cancel", account |-> tx.account,
   nonce |-> 0, amount |-> 0, ttl |-> tx.ttl]

(* Before anything else the restarted process cancels what is pending, one *)
(* transaction after the other.                                            *)
CancelPending ==
  /\ pc = "boot"
  /\ \A tx \in mempool : ~(tx.account = account /\ tx.kind = "cancel")
  /\ \E tx \in mempool : tx.account = account /\ mempool' = mempool \cup {EmptyTransfer(tx)}
  /\ UNCHANGED <<spent, position, account, mined, gridVars, pc, flags, attempt, cands,
                 commitVars, otherVars>>

(* An order that is mined in the place of its cancel makes the wait for it *)
(* throw, and a cancel sent too late is refused.  (A receipt of any order  *)
(* stands for that here.)  After an exception the start goes on without    *)
(* cancelling the rest; after a refusal it ends there, and no block        *)
(* handler is ever installed.                                              *)
Raced == "rpc" \in Faults \/ \E r \in mined : r.kind # "cancel"

Boot ==
  /\ pc = "boot"
  /\ \/ (mempool = {} \/ Raced) /\ pc' = "top"
     \/ Raced /\ pc' = "stopped"
  /\ UNCHANGED <<chainVars, gridVars, flags, attempt, cands, commitVars, otherVars>>

----------------------------------------------------------------------------
(* An exception anywhere in a turn of the main loop is caught at its end:  *)
(* the turn is over and waitCommitMap keeps what it holds.                 *)
Throw ==
  /\ pc' = "top"
  /\ attempt' = NoAttempt
  /\ UNCHANGED cands

(* The sell path is looped first, then the buy path, then an order picked. *)
Leave(p) ==
  /\ pc' = IF p = "sell" THEN "buy" ELSE "pick"
  /\ attempt' = NoAttempt
  /\ UNCHANGED cands

(* The order that would bring the position to `goal`: in notionals, and in *)
(* units (DiffPosition).  With none to order, what is missing is topped up *)
(* if it is a fifth of a notional or more.  A goal that is pending already *)
(* is not ordered again.                                                   *)
Asked(way, from) == IF way = "whole" THEN from ELSE OneNotional(from, confirm, target)
Step(goal)    == goal - target
Need(goal)    == goal * UnitNotional - actual
Level(goal)   == Step(goal) = 0 /\ 5 * Gap(Need(goal)) < UnitNotional
Pending(goal) == Step(goal) # 0 /\ goal = Net(pending)
TopsUp(goal)  == Step(goal) = 0 /\ ~Level(goal)
Turns(goal)   == Step(goal) # 0 /\ ~Pending(goal)

(* The path that starts at token1 buys and the other one sells: whose turn *)
(* the order is, and whether the booked position contradicts its side.     *)
Buys(p)         == p = "buy"
Belongs(p, n)   == IF Buys(p) THEN n > 0 ELSE n < 0
Contrary(p, n)  == IF Buys(p) THEN n < 0 ELSE n > 0

(* A top-up that sells writes a negative number in hexadecimal; one that   *)
(* reduces is not kept from the buying path.                               *)
Raises(p, goal) == TopsUp(goal) /\ ~Buys(p) /\ Need(goal) < 0
Passes(p, goal) ==
  \/ Level(goal) \/ Pending(goal)
  \/ Turns(goal) /\ ~Belongs(p, Step(goal))
  \/ TopsUp(goal) /\ ~Buys(p) /\ Need(goal) > 0
Resets(p, goal) == Turns(goal) /\ Belongs(p, Step(goal)) /\ Contrary(p, Need(goal))

(* tryPaths up to its first await, or to its end when there is nothing to  *)
(* look for.  `from` is the plan it finds.                                 *)
TryPaths(p, way, from) ==
  LET goal == Net(Asked(way, from))
  IN  /\ plan' = Asked(way, from)
      /\ \/ Passes(p, goal) /\ Leave(p)
         \/ Raises(p, goal) /\ Throw
         \/ /\ Resets(p, goal)
            /\ pc' = "reset"
            /\ attempt' = [NoAttempt EXCEPT !.path = p]
            /\ UNCHANGED cands
         \/ /\ ~Passes(p, goal) /\ ~Raises(p, goal) /\ ~Resets(p, goal)
            /\ pc' = "find"
            /\ attempt' = [path |-> p, way |-> way, target |-> goal, diff |-> Step(goal),
                           amount |-> IF Buys(p) THEN Gap(Need(goal)) ELSE -Gap(Need(goal))]
            /\ UNCHANGED cands

(* A turn of the main loop begins; a price tick or a block may have set    *)
(* the loop flags of both paths since the last one.                        *)
Ticked == {flags, Paths}

BeginTurn ==
  /\ pc = "top"
  /\ pc' = "sell"
  /\ flags' \in Ticked
  /\ UNCHANGED <<chainVars, gridVars, attempt, cands, commitVars, otherVars>>

SkipPath(p) ==
  /\ pc = p /\ p \notin flags
  /\ Leave(p)
  /\ UNCHANGED <<chainVars, gridVars, flags, commitVars, otherVars>>

(* Loop.  Refreshing the pools of the sell path refreshes those of the buy *)
(* path, which sets its flag.  A pause keeps the plan from being updated.  *)
LoopPath(p) ==
  /\ pc = p /\ p \in flags
  /\ flags' = (flags \ {p}) \cup (IF p = "sell" THEN {"buy"} ELSE {})
  /\ IF p = "sell" /\ ~paused
       THEN \E s \in Spreads : TryPaths(p, "whole", UpdatePosition(confirm, s.on, s.off))
       ELSE TryPaths(p, "whole", plan)
  /\ UNCHANGED <<chainVars, pending, confirm, target, diff, actual, paused, wish, disk,
                 commitVars, otherVars>>

(* What tryFindMaxK leaves of a volume: all of it or the balance.          *)
Volumes(amount) ==
  {v \in -Gap(amount)..Gap(amount) :
     v = amount \/ ("short" \in Faults /\ v # 0 /\ (v > 0) = (amount > 0))}

(* A candidate joins waitCommitMap unless one of the same route is there;  *)
(* each path has one best route, so at most two routes are.                *)
Offer(a, v) ==
  LET cand == [target |-> a.target, diff |-> a.diff, amount |-> v]
  IN  /\ \/ Len(cands) < 2 /\ cands' = Append(cands, cand)
         \/ cands # <<>> /\ UNCHANGED cands
      /\ attempt' = NoAttempt
      /\ pc' = IF a.path = "sell" THEN "buy" ELSE "pick"

(* The contract divides by the notionals of the order, of which a top-up   *)
(* has none: simulated or encoded again, it is an exception.               *)
Simulated == attempt.way # "blind"
Divides(o) == o.diff # 0

TopUpThrows ==
  /\ pc = "find" /\ Simulated /\ ~Divides(attempt)
  /\ Throw
  /\ UNCHANGED <<chainVars, gridVars, flags, commitVars, otherVars>>

(* A route is found.  If the balance shortens the order, an order of more  *)
(* than one notional is tried again as one of one notional, this time      *)
(* without simulating it.                                                  *)
FoundPath ==
  /\ pc = "find" /\ attempt.amount # 0 /\ order.no < MaxOrders
  /\ Simulated => Divides(attempt)
  /\ \E v \in Volumes(attempt.amount) :
       LET again == v # attempt.amount /\ Gap(attempt.diff) > 1
       IN  \/ diff # 0 /\ Leave(attempt.path) /\ UNCHANGED plan
           \/ diff = 0 /\ again /\ TryPaths(attempt.path, "blind", plan)
           \/ diff = 0 /\ ~again /\ Offer(attempt, v) /\ UNCHANGED plan
  /\ UNCHANGED <<chainVars, pending, confirm, target, diff, actual, paused, wish, disk,
                 flags, commitVars, otherVars>>

(* No route: the simulation fails, or the order is beyond ten balances and *)
(* findTrendingPath has put the plan back.                                 *)
PlansFound == {plan} \cup (IF "short" \in Faults THEN {confirm} ELSE {})

(* Then the balances are read again, and one notional is tried if the best *)
(* route is still the same, or the plan is put back.                       *)
NoPath ==
  /\ pc = "find"
  /\ \E from \in PlansFound :
       \/ "rpc" \in Faults /\ plan' = from /\ Throw
       \/ Gap(attempt.diff) > 1 /\ attempt.way = "whole" /\ TryPaths(attempt.path, "one", from)
       \/ plan' = confirm /\ Leave(attempt.path)
  /\ UNCHANGED <<chainVars, pending, confirm, target, diff, actual, paused, wish, disk,
                 flags, commitVars, otherVars>>

(* ResetActualPositionConfirm: believe the contract's position, and give   *)
(* all three pairs of counters the nearest whole number of notionals.      *)
Nearest(amount) == (2 * amount + UnitNotional) \div (2 * UnitNotional)
Sided(n) == [pos |-> IF n > 0 THEN n ELSE 0, neg |-> IF n < 0 THEN -n ELSE 0]

ResetActualPositionConfirm ==
  /\ actual' = position
  /\ target' = Nearest(position)
  /\ plan' = Sided(target') /\ pending' = Sided(target') /\ confirm' = Sided(target')
  /\ SaveStatusConfig

ResetInTryPaths ==
  /\ pc = "reset"
  /\ UNCHANGED <<chainVars, diff, paused, wish, flags, commitVars, otherVars>>
  /\ \/ ResetActualPositionConfirm /\ Leave(attempt.path)
     \/ "rpc" \in Faults /\ Throw
        /\ UNCHANGED <<plan, pending, confirm, target, actual, disk>>

----------------------------------------------------------------------------
(* The first candidate is committed; with none the turn is over.           *)
PickNone ==
  /\ pc = "pick" /\ cands = <<>>
  /\ pc' = "top"
  /\ UNCHANGED <<chainVars, gridVars, flags, attempt, cands, commitVars, otherVars>>

PickFirst ==
  /\ pc = "pick" /\ cands # <<>>
  /\ pc' = "input"
  /\ order' = [NoOrder(order.no) EXCEPT !.target = cands[1].target, !.diff = cands[1].diff,
                 !.amount = cands[1].amount]
  /\ UNCHANGED <<chainVars, gridVars, flags, attempt, cands,
                 waiting, hashes, waiter, polls, otherVars>>

(* commitTrending fails before its try block, as it does for a top-up: an  *)
(* exception of the turn, which leaves the candidate where it is.          *)
InputFails ==
  /\ pc = "input" /\ ("rpc" \in Faults \/ ~Divides(order))
  /\ Throw
  /\ order' = NoOrder(order.no)
  /\ UNCHANGED <<chainVars, gridVars, flags, waiting, hashes, waiter, polls, otherVars>>

(* It returns early, for want of a route or balance, or to stop a loss at  *)
(* target 0.                                                               *)
Decline ==
  /\ pc = "input" /\ ("short" \in Faults \/ target = 0)
  /\ pc' = "top" /\ cands' = <<>>
  /\ order' = NoOrder(order.no)
  /\ UNCHANGED <<chainVars, gridVars, flags, attempt, waiting, hashes, waiter, polls, otherVars>>

Register ==
  /\ pc = "input" /\ order.no < MaxOrders /\ Divides(order)
  /\ pc' = "prepare"
  /\ waiting' = TRUE
  /\ order' = [order EXCEPT !.no = @ + 1]
  /\ UNCHANGED <<chainVars, gridVars, flags, attempt, cands, hashes, waiter, polls, otherVars>>

(* Mutant: the nonce of the latest transaction instead of the next one.    *)
LatestAccount == account - 1 + Cardinality({tx.account : tx \in mempool})

NextAccount == account + Cardinality({tx.account : tx \in mempool})

(* The nonce that pair 0 may have when it is read.                         *)
FirstNonces == IF PairId = 0 THEN {spent} ELSE 0..MaxFirst

(* The account nonce after everything pending, and for a chase the next    *)
(* number of pair 0, whichever pair the market has.  An operator's buy or  *)
(* sell request strips the order itself of its number.                     *)
Prepare ==
  /\ pc = "prepare"
  /\ pc' = IF wish = 0 THEN "number" ELSE "send"
  /\ \E first \in FirstNonces :
       order' = [order EXCEPT !.account = NextAccount, !.chase = first + 1]
  /\ wish' = 0
  /\ UNCHANGED <<chainVars, plan, pending, confirm, target, diff, actual, paused, disk,
                 flags, attempt, cands, waiting, hashes, waiter, polls, otherVars>>

(* The market's pair is read for the order.  A request of the operator's   *)
(* that has come in during the read is dropped.                            *)
Number ==
  /\ pc = "number"
  /\ pc' = "send"
  /\ order' = [order EXCEPT !.nonce = spent + 1]
  /\ wish' = 0
  /\ UNCHANGED <<chainVars, plan, pending, confirm, target, diff, actual, paused, disk,
                 flags, attempt, cands, waiting, hashes, waiter, polls, otherVars>>

(* Mutants: only one of the two is cleared.                                *)
ReleaseDiff == diff' = 0 /\ UNCHANGED waiting
ReleaseWait == waiting' = FALSE /\ UNCHANGED diff

(* What every way out of commitTrending has to undo.                       *)
Release == diff' = 0 /\ waiting' = FALSE

(* An error inside the try block of commitTrending, outside ret1WaitFunc.  *)
Abort ==
  /\ pc' = "tail" /\ Release
  /\ UNCHANGED <<plan, pending, confirm, target, actual, paused, wish, disk,
                 flags, attempt, cands, order, hashes, waiter, polls, otherVars>>

PrepareFails ==
  pc \in {"prepare", "number"} /\ "rpc" \in Faults /\ Abort /\ UNCHANGED chainVars

Transaction(kind) ==
  [order |-> order.no, kind |-> kind, account |-> order.account,
   nonce |-> order.nonce, amount |-> order.amount, ttl |-> DeadlineBlocks]

(* The relay gets a copy of the same order under the same account nonce.   *)
Copies == {{}} \cup (IF "roy" \in Faults THEN {{Transaction("roy")}} ELSE {})

(* No transaction under the order's account nonce has been mined.          *)
Unused == order.account >= account

(* A chase may have been faster than the order itself: the node refuses    *)
(* what it has already, or what does not bid more.                         *)
Outrun == \E tx \in mempool \cup mined : tx.order = order.no /\ tx.kind = "chase"

Send ==
  /\ pc = "send" /\ Unused
  /\ pc' = "before"
  /\ \E copy \in Copies : mempool' = mempool \cup {Transaction("direct")} \cup copy
  /\ hashes' = hashes \cup {[owner |-> order.no, order |-> order.no, kind |-> "direct"]}
  /\ pending' = plan
  /\ diff' = order.diff
  /\ UNCHANGED <<spent, position, account, mined,
                 plan, confirm, target, actual, paused, wish, disk,
                 flags, attempt, cands, order, waiting, waiter, polls, otherVars>>

(* The order is refused; or the answer is lost, and the transaction may    *)
(* have arrived.                                                           *)
SendFails ==
  /\ pc = "send" /\ ("rpc" \in Faults \/ Outrun)
  /\ \/ UNCHANGED mempool
     \/ /\ Unused
        /\ \E copy \in Copies, own \in {{}, {Transaction("direct")}} :
             /\ own = {} \/ "rpc" \in Faults
             /\ mempool' = mempool \cup own \cup copy
  /\ Abort
  /\ UNCHANGED <<spent, position, account, mined>>

(* The opening position is read after the order was sent, then the closure *)
(* that polls for its receipt is installed and the timer started.          *)
ReadBefore ==
  /\ pc = "before"
  /\ pc' = "wait"
  /\ order' = [order EXCEPT !.before = position]
  /\ waiter' = order.no
  /\ UNCHANGED <<chainVars, gridVars, flags, attempt, cands, waiting, hashes, polls, otherVars>>

BeforeFails == pc = "before" /\ "rpc" \in Faults /\ Abort /\ UNCHANGED chainVars

(* The catch of ret1WaitFunc, and for the timer the outer one after it.    *)
GiveUp ==
  /\ pc' = "tail" /\ Release
  /\ plan' = confirm
  /\ UNCHANGED <<pending, confirm, target, actual, paused, wish, disk,
                 flags, attempt, cands, order, hashes, polls, otherVars>>

Timer ==
  /\ pc = "wait" /\ "timer" \in Faults
  /\ waiter' = 0
  /\ GiveUp
  /\ UNCHANGED chainVars

(* A block: the transactions age and the block handler calls the closure.  *)
Block ==
  /\ mempool' = {[tx EXCEPT !.ttl = IF @ < 0 THEN @ ELSE @ - 1] : tx \in mempool}
  /\ polls' = IF waiter # 0 /\ polls[waiter] < MaxPolls
                THEN [polls EXCEPT ![waiter] = @ + 1] ELSE polls
  /\ UNCHANGED <<spent, position, account, mined, gridVars, pc, flags, attempt, cands,
                 order, waiting, hashes, waiter, otherVars>>

(* Mutant: only the receipt of a trade is looked for.                      *)
KnownTrades(o) == {r \in mined : r.amount # 0 /\ [owner |-> o, order |-> r.order, kind |-> r.kind] \in hashes}

(* The receipts that the closure of order o may find.                     *)
Known(o) == {r \in mined : [owner |-> o, order |-> r.order, kind |-> r.kind] \in hashes}

(* A poll of order o returns.  Having found a receipt it clears the global *)
(* waitForTransaction, whosever closure that holds by now, and resolves    *)
(* its own promise, which matters only to the order still waiting on it.   *)
(* A call to the node that fails is lost with its poll.                    *)
PollReturns(o) ==
  /\ polls[o] > 0
  /\ polls' = [polls EXCEPT ![o] = @ - 1]
  /\ \/ /\ Known(o) = {} \/ "rpc" \in Faults
        /\ UNCHANGED <<pc, order, waiter>>
     \/ /\ waiter' = 0
        /\ \E r \in Known(o) :
             IF pc = "wait" /\ o = order.no
               THEN pc' = "settle" /\ order' = [order EXCEPT !.traded = (r.amount # 0)]
               ELSE UNCHANGED <<pc, order>>
  /\ UNCHANGED <<chainVars, gridVars, flags, attempt, cands, waiting, hashes, otherVars>>

(* The relay reports the hash of a copy it relayed, of whatever order; it  *)
(* is added to the order that happens to be registered.                    *)
RelayReceipt(o) ==
  /\ waiting /\ "roy" \in Faults
  /\ \E tx \in mempool \cup mined : tx.kind = "roy" /\ tx.order = o
  /\ hashes' = hashes \cup {[owner |-> order.no, order |-> o, kind |-> "roy"]}
  /\ UNCHANGED <<chainVars, gridVars, pc, flags, attempt, cands,
                 order, waiting, waiter, polls, otherVars>>

(* The block handler replaces an order that has waited too long by an      *)
(* empty transfer under its account nonce; or, if a chase has taken the    *)
(* order's place in the node, under whichever is the next to be mined.     *)
(* The hash of the transfer is not among those the closure polls.          *)
Cancel ==
  /\ waiting /\ "cancel" \in Faults /\ pc \in {"before", "wait", "settle", "filled"}
  /\ \A tx \in mempool \cup mined : ~(tx.order = order.no /\ tx.kind = "cancel")
  /\ \E tx \in mempool :
       /\ tx.order = order.no /\ tx.kind = "direct" /\ tx.ttl <= DeadlineBlocks - CancelBlocks
       /\ \/ mempool' = mempool \cup {EmptyTransfer(tx)}
          \/ Outrun /\ mempool' = mempool \cup {[EmptyTransfer(tx) EXCEPT !.account = account]}
  /\ UNCHANGED <<spent, position, account, mined, gridVars, pc, flags, attempt, cands,
                 commitVars, otherVars>>

(* The deadline of an order: what is left of it, once it is under way.     *)
Left == {DeadlineBlocks} \cup {tx.ttl : tx \in {t \in mempool : t.order = order.no}}

(* Mutant: the chase has an account nonce of its own.                      *)
ChasedAnew(ttl) ==
  [order |-> order.no, kind |-> "chase", account |-> NextAccount,
   nonce |-> order.chase, amount |-> order.amount, ttl |-> ttl]

(* The same call to the market's pair under the same account nonce, for    *)
(* more gas; but its number is that of pair 0.                             *)
Chased(ttl) ==
  [order |-> order.no, kind |-> "chase", account |-> order.account,
   nonce |-> order.chase, amount |-> order.amount, ttl |-> ttl]

(* A transaction that bids more for gas is seen while an order is          *)
(* registered, sent or not.                                                *)
Chase ==
  /\ waiting /\ "chase" \in Faults /\ pc # "prepare" /\ Unused /\ ~Outrun
  /\ \E ttl \in Left :
       /\ \A t \in Left : ttl <= t
       /\ mempool' = mempool \cup {Chased(ttl)}
  /\ UNCHANGED <<spent, position, account, mined, gridVars, pc, flags, attempt, cands,
                 commitVars, otherVars>>

(* The node's answer, left out when nobody asks for the order any more: the*)
(* hash joins those of the order that was chased.  The copy that the relay *)
(* gets then is left out: it is made of a field that is never set, and can *)
(* do no more than an empty transfer.                                      *)
ChaseAnswered(o) ==
  /\ polls[o] > 0 \/ (waiting /\ o = order.no)
  /\ [owner |-> o, order |-> o, kind |-> "chase"] \notin hashes
  /\ hashes' = hashes \cup {[owner |-> o, order |-> o, kind |-> "chase"]}
  /\ \E tx \in mempool \cup mined : tx.order = o /\ tx.kind = "chase"
  /\ UNCHANGED <<chainVars, gridVars, pc, flags, attempt, cands,
                 order, waiting, waiter, polls, otherVars>>

----------------------------------------------------------------------------
(* A block takes one of the bot's transactions.  Of those under the same   *)
(* account nonce only one can be mined.  `amount` is what TrendingCall     *)
(* makes of it: nothing when it is late, stale, braked or reverted.        *)
(* Mutant: the contract forgets to look at the order number.               *)
LiveUnnumbered(tx) == tx.kind # "cancel" /\ tx.ttl >= 0

Live(tx) == tx.kind # "cancel" /\ tx.ttl >= 0 /\ (tx.nonce = 0 \/ tx.nonce > spent)

Fillable(tx) ==
  {a \in -Gap(tx.amount)..Gap(tx.amount) :
     a = tx.amount \/ ("partial" \in Faults /\ a # 0 /\ (a > 0) = (tx.amount > 0))}

(* Whether the run lets the order be mined before its opening is read.     *)
Observed(tx) == "early" \in Faults \/ pc # "before" \/ tx.order # order.no

Include(tx, amount) ==
  /\ account' = account + 1
  /\ mempool' = {other \in mempool : other.account # tx.account}
  /\ mined' = mined \cup {[order |-> tx.order, kind |-> tx.kind, nonce |-> tx.nonce, amount |-> amount]}

MineTrade(tx) ==
  /\ Live(tx)
  /\ \E a \in Fillable(tx) :
       /\ Include(tx, a)
       /\ IF tx.nonce = 0 THEN UNCHANGED <<spent, position>>
                          ELSE spent' = tx.nonce /\ position' = position + a

MineBraked(tx) ==
  /\ Live(tx)
  /\ Include(tx, 0)
  /\ spent' = IF tx.nonce = 0 THEN spent ELSE tx.nonce
  /\ UNCHANGED position

MineVoid(tx) ==
  /\ ~Live(tx) \/ "revert" \in Faults
  /\ Include(tx, 0)
  /\ UNCHANGED <<spent, position>>

Mine ==
  /\ \E tx \in mempool :
       /\ tx.account = account /\ Observed(tx)
       /\ MineTrade(tx) \/ MineBraked(tx) \/ MineVoid(tx)
  /\ UNCHANGED <<gridVars, pc, flags, attempt, cands, commitVars, otherVars>>

----------------------------------------------------------------------------
(* Mutants: the order is booked for the trade; the difference turned round.*)
MovedAsOrdered == order.amount
MovedBack == order.before - position

(* What the position has moved by since it was read as the order opened.   *)
MovedBy == position - order.before

(* A receipt is there and the closing position is read: with two events    *)
(* and an unmoved position the order counts as lost to a fork, with fewer  *)
(* events as braked, else as filled.                                       *)
SettleForked ==
  /\ pc = "settle" /\ order.traded /\ MovedBy = 0
  /\ pc' = "tail" /\ Release
  /\ UNCHANGED <<plan, confirm, actual, paused>>
  /\ SaveStatusConfig
  /\ UNCHANGED <<chainVars, pending, target, wish, flags, attempt, cands,
                 order, hashes, waiter, polls, otherVars>>

SettleBraked ==
  /\ pc = "settle" /\ ~order.traded
  /\ pc' = "tail" /\ Release
  /\ plan' = confirm
  /\ UNCHANGED <<confirm, actual, paused>>
  /\ SaveStatusConfig
  /\ UNCHANGED <<chainVars, pending, target, wish, flags, attempt, cands,
                 order, hashes, waiter, polls, otherVars>>

SettleFilled ==
  /\ pc = "settle" /\ order.traded /\ MovedBy # 0
  /\ pc' = "filled"
  /\ pending' = plan /\ confirm' = plan
  /\ target' = order.target /\ diff' = 0
  /\ order' = [order EXCEPT !.delta = MovedBy]
  /\ UNCHANGED <<chainVars, plan, actual, paused, wish, disk, flags, attempt, cands,
                 waiting, hashes, waiter, polls, otherVars>>

SettleFails ==
  /\ pc = "settle" /\ "rpc" \in Faults
  /\ GiveUp
  /\ UNCHANGED <<chainVars, waiter>>

(* A booked position of less than a hundredth of a notional is none: the   *)
(* fill opens a new one in its place.                                      *)
Opens == 100 * Gap(actual) < UnitNotional

(* The balances are read once more, then the fill is booked and saved.     *)
BookFill ==
  /\ pc = "filled"
  /\ pc' = "tail" /\ waiting' = FALSE
  /\ actual' = IF Opens THEN order.delta ELSE actual + order.delta
  /\ UNCHANGED <<plan, confirm, paused>>
  /\ SaveStatusConfig
  /\ UNCHANGED <<chainVars, pending, target, diff, wish, flags, attempt, cands,
                 order, hashes, waiter, polls, otherVars>>

BookFails ==
  /\ pc = "filled" /\ "rpc" \in Faults
  /\ GiveUp
  /\ UNCHANGED <<chainVars, waiter>>

(* The prices are read again; then the candidates are dropped.             *)
EndTurn ==
  /\ pc = "tail"
  /\ pc' = "top" /\ flags' = Paths /\ cands' = <<>>
  /\ order' = NoOrder(order.no)
  /\ UNCHANGED <<chainVars, gridVars, attempt, waiting, hashes, waiter, polls, otherVars>>

EndTurnFails ==
  /\ pc = "tail" /\ "rpc" \in Faults /\ order.no < MaxOrders
  /\ Throw
  /\ order' = NoOrder(order.no)
  /\ UNCHANGED <<chainVars, gridVars, flags, waiting, hashes, waiter, polls, otherVars>>

----------------------------------------------------------------------------
(* Telegram.  All but `reset` may come while an order is under way.        *)
Command(c) ==
  /\ c \in Commands /\ commands < MaxCommands /\ pc # "boot"
  /\ commands' = commands + 1
  /\ UNCHANGED <<chainVars, pending, confirm, target, diff,
                 pc, flags, attempt, cands, commitVars, crashes>>

Add ==
  /\ Command("add")
  /\ plan' = IF plan.neg > 0 THEN [plan EXCEPT !.neg = @ - 1] ELSE [plan EXCEPT !.pos = @ + 1]
  /\ UNCHANGED <<actual, paused, wish, handler>>
  /\ SaveStatusConfig

Cut ==
  /\ Command("cut")
  /\ plan' = IF plan.pos > 0 THEN [plan EXCEPT !.pos = @ - 1] ELSE [plan EXCEPT !.neg = @ + 1]
  /\ UNCHANGED <<actual, paused, wish, handler>>
  /\ SaveStatusConfig

BuyOrSell ==
  /\ \/ Command("buy") /\ wish' = wish + 1
     \/ Command("sell") /\ wish' = wish - 1
  /\ UNCHANGED <<plan, actual, paused, disk, handler>>

(* A timed pause that runs out is a pause taken back.                      *)
Pause ==
  /\ Command("pause")
  /\ paused' = ~paused
  /\ UNCHANGED <<plan, actual, wish, handler>>
  /\ SaveStatusConfig

(* GetGridConfig takes the contract's position for the booked one, shows   *)
(* the configuration and, the message sent, saves it.                      *)
BeginView ==
  /\ Command("view") /\ handler = "none"
  /\ handler' = "view"
  /\ actual' = position
  /\ UNCHANGED <<plan, paused, wish, disk>>

EndView ==
  /\ handler = "view"
  /\ handler' = "none"
  /\ UNCHANGED <<plan, confirm, actual, paused>>
  /\ SaveStatusConfig
  /\ UNCHANGED <<chainVars, pending, target, diff, wish,
                 pc, flags, attempt, cands, commitVars, crashes, commands>>

(* `reset` looks for an order under way once, before it asks the node.     *)
BeginReset ==
  /\ Command("reset") /\ ~waiting /\ handler = "none"
  /\ handler' = "reset"
  /\ UNCHANGED <<plan, actual, paused, wish, disk>>

EndReset ==
  /\ handler = "reset"
  /\ handler' = "none"
  /\ UNCHANGED paused
  /\ \/ ResetActualPositionConfirm
     \/ "rpc" \in Faults /\ UNCHANGED <<plan, pending, confirm, target, actual, disk>>
  /\ UNCHANGED <<chainVars, diff, wish, pc, flags, attempt, cands, commitVars, crashes, commands>>

Operator == Add \/ Cut \/ BuyOrSell \/ Pause \/ BeginView \/ EndView \/ BeginReset \/ EndReset

----------------------------------------------------------------------------
(* The main loop's own steps: each ends an await that the node, the disk   *)
(* or the event loop is bound to end.                                      *)
Proceed ==
  \/ CancelPending \/ Boot
  \/ BeginTurn
  \/ \E p \in Paths : SkipPath(p) \/ LoopPath(p)
  \/ FoundPath \/ TopUpThrows \/ NoPath \/ ResetInTryPaths
  \/ PickNone \/ PickFirst \/ InputFails
  \/ Prepare \/ Number \/ PrepareFails \/ Send \/ SendFails \/ ReadBefore \/ BeforeFails
  \/ SettleForked \/ SettleBraked \/ SettleFilled \/ SettleFails
  \/ BookFails \/ EndTurn \/ EndTurnFails

Turn == Proceed \/ Decline \/ Register \/ BookFill

(* What happens whatever the main loop waits for.                          *)
Meanwhile ==
  \/ Timer \/ Block \/ Cancel \/ Chase \/ Mine
  \/ \E o \in Orders : PollReturns(o) \/ RelayReceipt(o) \/ ChaseAnswered(o)
  \/ Operator

Next == Turn \/ Meanwhile \/ Crash

Spec == Init /\ [][Next]_vars

(* Awaits end and the timer goes off; in a run without the timer the chain *)
(* has to mine what it is sent and the poll has to see it.                 *)
Fairness ==
  /\ WF_vars(Turn) /\ WF_vars(Timer) /\ WF_vars(Mine) /\ WF_vars(Block)
  /\ \A o \in Orders : WF_vars(PollReturns(o))

FairSpec == Spec /\ Fairness

----------------------------------------------------------------------------
Txs == [order : Orders, kind : Kinds, account : Nat, nonce : Nat, amount : Int, ttl : Int]
Receipts == [order : Orders, kind : Kinds, nonce : Nat, amount : Int]
Attempts == [path : Paths, way : Ways, target : Int, diff : Int, amount : Int]
Candidates == [target : Int, diff : Int, amount : Int]
OrderRecords == [no : 0..MaxOrders, target : Int, diff : Int, amount : Int,
                 nonce : Nat, chase : Nat, account : Nat, before : Int, traded : BOOLEAN, delta : Int]

TypeOK ==
  /\ spent \in Nat /\ position \in Int /\ account \in Nat
  /\ mempool \subseteq Txs /\ mined \subseteq Receipts
  /\ plan \in Position /\ pending \in Position /\ confirm \in Position
  /\ target \in Int /\ diff \in Int /\ actual \in Int /\ wish \in Int
  /\ paused \in BOOLEAN
  /\ disk \in [plan : Position, confirm : Position, actual : Int, paused : BOOLEAN]
  /\ pc \in Places /\ flags \subseteq Paths
  /\ attempt \in Attempts /\ cands \in Seq(Candidates) /\ order \in OrderRecords
  /\ waiting \in BOOLEAN /\ waiter \in 0..MaxOrders
  /\ hashes \subseteq [owner : Orders, order : Orders, kind : Kinds]
  /\ polls \in [Orders -> Nat]
  /\ handler \in {"none", "reset", "view"} /\ crashes \in Nat /\ commands \in Nat

(* An order number of the pair trades at most once, though the bot reuses  *)
(* it: an order given up by the timer may be mined after its successor was *)
(* sent, the relay's copy instead of the bot's own.                        *)
NonceTradesOnce ==
  \A a, b \in mined :
    (a.nonce = b.nonce /\ a.nonce > 0 /\ a.amount # 0 /\ b.amount # 0) => a = b

(* An order trades at most once, with a number or, on the operator's       *)
(* request, without: what else is sent of it (the relay's copy, a chase    *)
(* that has a number all the same) has its account nonce.                  *)
OneTradeEach ==
  \A a, b \in mined :
    (a.order = b.order /\ a.amount # 0 /\ b.amount # 0) => a = b

(* What is booked as an order's fill is what the chain traded under that   *)
(* order's number, whatever else was pending, polled or relayed meanwhile. *)
(* An order that was chased may be booked for the chase, which has its     *)
(* number only where the market's pair is pair 0.                          *)
BooksOwnNumber ==
  (pc = "filled" /\ order.nonce > 0) =>
    \E r \in mined : r.nonce = order.nonce /\ r.amount # 0 /\ r.amount = order.delta

(* commitWaitingMap and DiffNotional block everything else (a reset, every *)
(* further order) while set; every way out of commitTrending clears them.  *)
ReleasedAfterCommit ==
  /\ waiting <=> pc \in Committing
  /\ diff # 0 => pc \in {"before", "wait", "settle"}

(* A restart finds what the process knew: once the awaits of a fill or of  *)
(* `view` are over, the executed position, the booked position and a pause *)
(* are on disk, whatever the operator did during an order.                 *)
DiskKeepsBooks ==
  (pc # "filled" /\ handler # "view") =>
    disk.confirm = confirm /\ disk.actual = actual /\ disk.paused = paused

(* With a chain that behaves, the bot's books are right between orders:    *)
(* the booked position is the contract's, the target what the confirmed    *)
(* counters add up to.                                                     *)
BooksAgree ==
  (pc \in {"top", "sell", "pick"} /\ mempool = {}) =>
    /\ actual = position
    /\ target = Net(confirm)
    /\ position = target * UnitNotional

(* The position never leaves the grid: no order adds to what an earlier    *)
(* one has brought already.                                                *)
Edge == CHOOSE e \in {Build(s) : s \in {x.on : x \in Spreads} \cup {x.off : x \in Spreads}} :
          \A x \in Spreads : Build(x.on) <= e /\ Build(x.off) <= e

WithinGrid == Gap(position) <= Edge * UnitNotional

(* More than any order or position of the run amounts to, commands that    *)
(* move the plan beyond the grid included.                                 *)
Reach == 2 * MaxOrders * (Edge + MaxCommands) * UnitNotional

(* The largest number a transaction may bear.                              *)
First == IF PairId = 0 THEN 0 ELSE MaxFirst + 1
LastNumber == First + MaxOrders

(* All that the bot's transactions do to the contract's record of the pair *)
(* is call placeOrderCall: the chain of this module is TrendingCall seen   *)
(* from that pair, whatever is late, repriced, relayed or sent twice.      *)
Contract == INSTANCE TrendingCall WITH
  MaxPairs <- 1, InitialPairs <- 1, MaxNonce <- LastNumber,
  PositionLimit <- Reach, Amounts <- (-2 * Reach..2 * Reach) \ {0},
  MaxBlock <- 0, MaxTime <- 0,
  now <- [block |-> 0, time |-> 0],
  pairList <- [p \in {0} |-> [nonce |-> spent, position0 |-> position, position1 |-> -position]],
  fills <- [p \in {0} |-> [n \in 1..LastNumber |->
              Cardinality({r \in mined : r.nonce = n /\ r.amount # 0})]]

CallsContract ==
  /\ Contract!Init
  /\ [][\E result \in Contract!Results :
          Contract!placeOrderCall(0, spent', result)]_Contract!vars

(* Every order registered is released, and the main loop turns for ever.   *)
CommitEnds == waiting ~> ~waiting
TurnsForever == []<>(pc = "top")

=============================================================================
