-------------------------- MODULE RelayLink_proofs --------------------------
(***************************************************************************)
(* The safety of the link to the relay, for every set of sockets: a retry  *)
(* always has something to end it, an open link is subscribed, and there   *)
(* is at most one forgotten socket.                                        *)
(***************************************************************************)
EXTENDS RelayLink, TLAPS

(* Besides the one referred to at most one socket is live, and none while  *)
(* the very first connection is under way, when ping can forget it.        *)
OneForgotten ==
  /\ \A s, t \in Sockets : Live(s) /\ Live(t) /\ s # wss /\ t # wss => s = t
  /\ retry = "idle" /\ wss # None /\ sock[wss] = "connecting" =>
       \A s \in Sockets : Live(s) => s = wss

IInv == TypeOK /\ RetryHasAnEnd /\ OpenIsSubscribed /\ OneForgotten

LEMMA InitIsInv == Init => IInv
<1> SUFFICES ASSUME Init PROVE IInv
  OBVIOUS
<1>1. PICK s \in Sockets :
        wss = s /\ sock = [t \in Sockets |-> IF t = s THEN "connecting" ELSE "closed"]
  BY DEF Init
<1>2. TypeOK
  <2>1. sock \in [Sockets -> {"closed", "connecting", "open", "lost"}]
    BY <1>1
  <2>2. handlers \in 0..MaxHandlers
    BY RelayLinkConstants DEF Init
  <2> QED BY <1>1, <2>1, <2>2 DEF Init, TypeOK
<1>3. RetryHasAnEnd /\ OpenIsSubscribed
  BY <1>1 DEF Init, RetryHasAnEnd, OpenIsSubscribed
<1>4. OneForgotten
  BY <1>1 DEF Init, OneForgotten, Live
<1> QED BY <1>2, <1>3, <1>4 DEF IInv

LEMMA RetryTimerKeepsInv ==
  ASSUME IInv, RetryTimer
  PROVE  IInv'
<1>1. PICK s \in Sockets : attemptConnect(s)
  BY DEF RetryTimer
<1>2. wss = None /\ sock[s] = "closed"
  BY <1>1 DEF RetryTimer, IInv, RetryHasAnEnd, attemptConnect, Free, Live
<1>3. /\ \A t \in Sockets : sock'[t] = IF t = s THEN "connecting" ELSE sock[t]
      /\ sock' \in [Sockets -> {"closed", "connecting", "open", "lost"}]
      /\ wss' = s
      /\ retry' = "attempting"
  <2>1. sock' = [t \in Sockets |-> IF t = s THEN "connecting"
                                  ELSE IF t = wss THEN "closed" ELSE sock[t]]
    BY <1>1 DEF attemptConnect
  <2>2. \A t \in Sockets : t # wss
    BY <1>2, RelayLinkConstants
  <2>3. \A t \in Sockets : sock[t] \in {"closed", "connecting", "open", "lost"}
    BY DEF IInv, TypeOK
  <2> QED BY <1>1, <2>1, <2>2, <2>3 DEF RetryTimer, attemptConnect
<1>4. TypeOK'
  <2>1. subscribed' \subseteq {t \in Sockets : sock'[t] = "open"}
    BY <1>1, <1>3 DEF attemptConnect, IInv, TypeOK
  <2> QED BY <1>3, <2>1 DEF RetryTimer, IInv, TypeOK
<1>5. RetryHasAnEnd' /\ OpenIsSubscribed'
  BY <1>1, <1>3, RelayLinkConstants DEF IInv, TypeOK, RetryHasAnEnd, OpenIsSubscribed
<1>6. OneForgotten'
  <2>1. \A t \in Sockets : Live(t)' /\ t # wss' => Live(t) /\ t # wss
    BY <1>2, <1>3, RelayLinkConstants DEF Live
  <2>2. \A t, u \in Sockets : Live(t)' /\ Live(u)' /\ t # wss' /\ u # wss' => t = u
    BY <2>1 DEF IInv, OneForgotten
  <2> QED BY <1>3, <2>2 DEF OneForgotten
<1> QED BY <1>4, <1>5, <1>6 DEF IInv

LEMMA OpensKeepsInv ==
  ASSUME IInv, NEW s \in Sockets, Opens(s)
  PROVE  IInv'
<1>1. /\ sock' = [sock EXCEPT ![s] = "open"] /\ sock[s] = "connecting"
      /\ wss' = wss /\ up' = up /\ connected' = TRUE
  BY DEF Opens
<1>2. sock' \in [Sockets -> {"closed", "connecting", "open", "lost"}]
  BY <1>1 DEF IInv, TypeOK
<1>3. CASE wss = None \/ (wss # s /\ sock[wss] = "connecting")
  <2>1. UNCHANGED <<subscribed, handlers, retry>>
    BY <1>3 DEF Opens
  <2>2. TypeOK'
    BY <1>1, <1>2, <2>1 DEF IInv, TypeOK
  <2>3. RetryHasAnEnd' /\ OpenIsSubscribed'
    BY <1>1, <1>3, <2>1 DEF IInv, TypeOK, RetryHasAnEnd, OpenIsSubscribed
  <2>4. OneForgotten'
    BY <1>1, <1>3, <2>1 DEF IInv, TypeOK, OneForgotten, Live
  <2> QED BY <2>2, <2>3, <2>4 DEF IInv
<1>4. CASE ~(wss = None \/ (wss # s /\ sock[wss] = "connecting"))
  <2>1. onConnected /\ retry' = Resolved(s)
    BY <1>4 DEF Opens
  <2>2. wss \in Sockets /\ (wss # s => sock[wss] # "connecting")
    BY <1>4 DEF IInv, TypeOK
  <2>3. handlers' \in 0..MaxHandlers /\ handlers' > 0
    BY <2>1, RelayLinkConstants DEF onConnected, IInv, TypeOK
  <2>4. retry' = "idle" \/ (retry' = retry /\ retry # "attempting")
    BY <2>1, <2>2 DEF Resolved, IInv, TypeOK, RetryHasAnEnd
  <2>5. TypeOK'
    BY <1>1, <1>2, <2>1, <2>2, <2>3, <2>4 DEF onConnected, IInv, TypeOK
  <2>6. RetryHasAnEnd'
    BY <1>1, <2>4 DEF IInv, RetryHasAnEnd
  <2>7. OpenIsSubscribed'
    BY <1>1, <2>1, <2>3 DEF onConnected, OpenIsSubscribed
  <2>8. OneForgotten'
    <3>1. ~(wss # None /\ sock'[wss] = "connecting")
      BY <1>1, <2>2 DEF IInv, TypeOK
    <3> QED BY <1>1, <3>1 DEF IInv, TypeOK, OneForgotten, Live
  <2> QED BY <2>5, <2>6, <2>7, <2>8 DEF IInv
<1> QED BY <1>3, <1>4

(* What a close leaves of the references, when a socket is closed by it.   *)
LEMMA CloseKeepsInv ==
  ASSUME IInv, NEW s \in Sockets, Live(s),
         sock' = [sock EXCEPT ![s] = "closed"], subscribed' = subscribed \ {s},
         UNCHANGED handlers, up' \in BOOLEAN,
         \/ /\ closeCallback
            /\ ~(retry = "attempting" /\ s = wss)
         \/ /\ retry = "attempting" /\ s = wss /\ retry' = "idle"
            /\ UNCHANGED <<connected, wss>>
  PROVE  IInv'
<1>1. sock' \in [Sockets -> {"closed", "connecting", "open", "lost"}]
  BY DEF IInv, TypeOK
<1>2. \A t \in Sockets : sock'[t] = IF t = s THEN "closed" ELSE sock[t]
  BY DEF IInv, TypeOK
<1>3. TypeOK'
  BY <1>1, <1>2 DEF IInv, TypeOK, closeCallback
<1>4. RetryHasAnEnd'
  BY <1>2 DEF IInv, TypeOK, RetryHasAnEnd, closeCallback
<1>5. OpenIsSubscribed'
  BY <1>2 DEF IInv, TypeOK, OpenIsSubscribed, closeCallback
<1>6. OneForgotten'
  BY <1>2 DEF IInv, TypeOK, RetryHasAnEnd, OneForgotten, Live, closeCallback
<1> QED BY <1>3, <1>4, <1>5, <1>6 DEF IInv

LEMMA FailsKeepsInv ==
  ASSUME IInv, NEW s \in Sockets, Fails(s)
  PROVE  IInv'
<1>1. s \notin subscribed
  BY DEF Fails, IInv, TypeOK
<1>2. subscribed' = subscribed \ {s}
  BY <1>1 DEF Fails
<1>3. Live(s) /\ up' \in BOOLEAN
  BY DEF Fails, Live, IInv, TypeOK
<1> QED BY <1>2, <1>3, CloseKeepsInv DEF Fails

LEMMA DropsKeepsInv ==
  ASSUME IInv, NEW s \in Sockets, Drops(s)
  PROVE  IInv'
<1>1. ~(retry = "attempting" /\ s = wss)
  BY DEF Drops, IInv, RetryHasAnEnd
<1>2. Live(s) /\ up' \in BOOLEAN
  BY DEF Drops, Live, IInv, TypeOK
<1> QED BY <1>1, <1>2, CloseKeepsInv DEF Drops

LEMMA PingKeepsInv ==
  ASSUME IInv, ping
  PROVE  IInv'
<1>1. CASE retry # "idle"
  BY <1>1 DEF ping, closeCallback, IInv, TypeOK, RetryHasAnEnd, OpenIsSubscribed, OneForgotten, Live
<1>2. CASE retry = "idle"
  <2>1. /\ UNCHANGED <<up, sock, subscribed, handlers>>
        /\ connected' = FALSE /\ wss' = None /\ retry' = "waiting"
    BY <1>2 DEF ping, closeCallback
  <2>2. wss # None => sock[wss] \in {"closed", "connecting"}
    BY DEF ping, NotOpen, IInv, TypeOK
  <2>3. TypeOK' /\ RetryHasAnEnd' /\ OpenIsSubscribed'
    BY <2>1 DEF IInv, TypeOK, RetryHasAnEnd, OpenIsSubscribed
  <2>4. OneForgotten'
    BY <1>2, <2>1, <2>2 DEF IInv, TypeOK, OneForgotten, Live
  <2> QED BY <2>3, <2>4 DEF IInv
<1> QED BY <1>1, <1>2

LEMMA NextKeepsInv == IInv /\ [Next]_vars => IInv'
<1> SUFFICES ASSUME IInv, [Next]_vars PROVE IInv'
  OBVIOUS
<1>1. CASE RetryTimer
  BY <1>1, RetryTimerKeepsInv
<1>2. CASE ping
  BY <1>2, PingKeepsInv
<1>3. CASE Outage \/ Repair \/ UNCHANGED vars
  BY <1>3 DEF Outage, Repair, vars, IInv, TypeOK, RetryHasAnEnd, OpenIsSubscribed, OneForgotten, Live
<1>4. ASSUME NEW s \in Sockets, Opens(s) PROVE IInv'
  BY <1>4, OpensKeepsInv
<1>5. ASSUME NEW s \in Sockets, Fails(s) PROVE IInv'
  BY <1>5, FailsKeepsInv
<1>6. ASSUME NEW s \in Sockets, Drops(s) PROVE IInv'
  BY <1>6, DropsKeepsInv
<1>7. ASSUME NEW s \in Sockets, Loses(s) PROVE IInv'
  <2>1. \A t \in Sockets : sock'[t] = IF t = s THEN "lost" ELSE sock[t]
    BY <1>7 DEF Loses, IInv, TypeOK
  <2>2. sock[s] = "open" /\ UNCHANGED <<up, wss, connected, retry, handlers>>
    BY <1>7 DEF Loses
  <2>3. TypeOK'
    BY <1>7, <2>1, <2>2 DEF Loses, IInv, TypeOK
  <2>4. RetryHasAnEnd' /\ OpenIsSubscribed'
    BY <1>7, <2>1, <2>2 DEF Loses, IInv, TypeOK, RetryHasAnEnd, OpenIsSubscribed
  <2>5. OneForgotten'
    BY <2>1, <2>2 DEF IInv, TypeOK, OneForgotten, Live
  <2> QED BY <2>3, <2>4, <2>5 DEF IInv
<1> QED BY <1>1, <1>2, <1>3, <1>4, <1>5, <1>6, <1>7 DEF Next

LEMMA SpecKeepsInv == Spec => []IInv
BY InitIsInv, NextKeepsInv, PTL DEF Spec

(* Types, and only open sockets are subscribed.                            *)
THEOREM LinkTypeCorrect == Spec => []TypeOK
BY SpecKeepsInv, PTL DEF IInv

(* _retryConnecting is never left set with neither a timer nor a handshake *)
(* to clear it: no close and no ping comes between a retry and its socket. *)
THEOREM RetryIsNeverStuck == Spec => []RetryHasAnEnd
BY SpecKeepsInv, PTL DEF IInv

(* Every connection, the first and each later one, is subscribed before    *)
(* anything else happens on it.                                            *)
THEOREM LinkIsSubscribed == Spec => []OpenIsSubscribed
BY SpecKeepsInv, PTL DEF IInv

(* One socket may be forgotten beside the one in use, and no more however  *)
(* often the link is lost.                                                 *)
THEOREM TwoSocketsAtMost == Spec => []AtMostTwo
<1>1. IInv => AtMostTwo
  BY DEF IInv, OneForgotten, AtMostTwo
<1> QED BY <1>1, SpecKeepsInv, PTL
=============================================================================
