---------------------------- MODULE NonceLedger ----------------------------
(***************************************************************************)
(* What the trading contract promises its callers, without the contract:   *)
(* every order number of every pair is open until it has traded or can     *)
(* never trade again, and then stays so.  A caller that sends the same     *)
(* order number in several transactions, because one was repriced, relayed *)
(* by a second node or believed lost, gets at most one trade.              *)
(***************************************************************************)
EXTENDS Naturals

CONSTANTS
  PairIds,    \* the pairs that may exist
  Numbers     \* the order numbers, inputNonce in the code: positive naturals

VARIABLE status   \* status[p][n]: what became of order number n of pair p

Status == {"open", "traded", "dead"}

TypeOK == status \in [PairIds -> [Numbers -> Status]]

Init == status = [p \in PairIds |-> [n \in Numbers |-> "open"]]

(* Order n of pair p ends; with it every smaller number that is still open.*)
End(p, n, how) ==
  /\ status[p][n] = "open"
  /\ status' = [status EXCEPT ![p] =
       [m \in Numbers |-> IF m = n THEN how
                          ELSE IF m < n /\ @[m] = "open" THEN "dead" ELSE @[m]]]

Trade(p, n) == End(p, n, "traded")
Void(p, n)  == End(p, n, "dead")

(* The owner of the contract starts a pair afresh after some number.       *)
Rewrite(p, last) ==
  status' = [status EXCEPT ![p] =
    [m \in Numbers |-> IF m <= last THEN "dead" ELSE "open"]]

Next ==
  \E p \in PairIds :
    \/ \E n \in Numbers : Trade(p, n) \/ Void(p, n)
    \/ \E n \in Numbers \cup {0} : Rewrite(p, n)

Spec == Init /\ [][Next]_status
=============================================================================
