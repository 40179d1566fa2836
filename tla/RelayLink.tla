----------------------------- MODULE RelayLink -----------------------------
(***************************************************************************)
(* The link to the relay that reports blocks and the hashes of orders      *)
(* before the bot's own node does: SmartWss (RoyWebsocket.ts) and what     *)
(* SpotDx.ts:781-945 does with it.  RoyClient passes every event through;  *)
(* its close and a second reconnect are never called.  A socket is one of  *)
(* a few places, free again once it is closed and no longer referred to.   *)
(***************************************************************************)
EXTENDS Naturals

CONSTANTS
  Sockets,       \* places for WebSocket objects
  None,          \* no socket: null or undefined
  MaxHandlers    \* bound: more handlers than this are not counted

ASSUME RelayLinkConstants ==
  /\ None \notin Sockets /\ Sockets # {}
  /\ MaxHandlers \in Nat \ {0}

VARIABLES
  up,           \* the relay can be reached
  sock,         \* every socket: "closed", "connecting", "open", or "lost" (open
                \* for the client only)
  wss,          \* SmartWss._wss
  connected,    \* SmartWss._connected
  retry,        \* _retryConnect: "idle", "waiting" for its second, "attempting";
                \* _retryConnecting is set unless it is idle
  subscribed,   \* sockets on which the relay has the subscription
  handlers      \* 'message' listeners that SpotDx.ts has put on SmartWss

vars == <<up, sock, wss, connected, retry, subscribed, handlers>>

Live(s) == sock[s] # "closed"
Free(s) == ~Live(s) /\ s # wss

(* reconnect and the first _attemptConnect.                                *)
Init ==
  /\ up \in BOOLEAN
  /\ \E s \in Sockets : /\ wss = s
                        /\ sock = [t \in Sockets |-> IF t = s THEN "connecting" ELSE "closed"]
  /\ connected = FALSE
  /\ retry = "idle"
  /\ subscribed = {}
  /\ handlers = 0

----------------------------------------------------------------------------
(* Mutant: a close during a retry drops the socket of the retry.           *)
closeCallbackAlways ==
  /\ connected' = FALSE
  /\ wss' = None
  /\ retry' = IF retry = "idle" THEN "waiting" ELSE retry

(* Mutant: a close during a retry begins another.                          *)
closeCallbackRestarts ==
  /\ connected' = FALSE
  /\ wss' = None
  /\ retry' = "waiting"

(* _closeCallback: nothing while a retry runs; otherwise the socket that   *)
(* is referred to is dropped, be it the closed one or not, and             *)
(* _retryConnect begins.                                                   *)
closeCallback ==
  IF retry # "idle" THEN UNCHANGED <<connected, wss, retry>>
  ELSE /\ connected' = FALSE
       /\ wss' = None
       /\ retry' = "waiting"

(* _attemptConnect: a socket still referred to is closed, its listeners    *)
(* gone, and a new one connects.                                           *)
attemptConnect(s) ==
  /\ Free(s)
  /\ sock' = [t \in Sockets |-> IF t = s THEN "connecting"
                                ELSE IF t = wss THEN "closed" ELSE sock[t]]
  /\ subscribed' = subscribed \ {s, wss}
  /\ wss' = s

(* The second of _retryConnect is over.                                    *)
RetryTimer ==
  /\ retry = "waiting"
  /\ \E s \in Sockets : attemptConnect(s)
  /\ retry' = "attempting"
  /\ UNCHANGED <<up, connected, handlers>>

(* The promise that _retryConnect awaits is that of the socket it made.    *)
Resolved(s) == IF retry = "attempting" /\ s = wss THEN "idle" ELSE retry

(* Mutant: the subscription is sent on the first connection only.          *)
onConnectedOnce ==
  /\ subscribed' = IF sock'[wss] = "open" /\ handlers = 0 THEN subscribed \cup {wss} ELSE subscribed
  /\ handlers' = 1

(* onConnected: subscribe on the socket referred to, which need not be the *)
(* one that has opened, and add a handler.  One that is closed swallows    *)
(* the message.                                                            *)
onConnected ==
  /\ subscribed' = IF sock'[wss] = "open" THEN subscribed \cup {wss} ELSE subscribed
  /\ handlers' = IF handlers < MaxHandlers THEN handlers + 1 ELSE handlers

(* 'open'.  If no socket is referred to, or one that is connecting, send   *)
(* throws, its catch emits an 'error' nobody listens to, which throws too, *)
(* and the rest of the listener, resolve included, is skipped.             *)
Opens(s) ==
  /\ up /\ sock[s] = "connecting"
  /\ sock' = [sock EXCEPT ![s] = "open"]
  /\ connected' = TRUE
  /\ IF wss = None \/ (wss # s /\ sock[wss] = "connecting")
     THEN UNCHANGED <<subscribed, handlers, retry>>
     ELSE onConnected /\ retry' = Resolved(s)
  /\ UNCHANGED <<up, wss>>

(* 'error' and 'close' of a handshake that fails, before the promise goes  *)
(* on: a retry ignores the close and ends.                                 *)
Fails(s) ==
  /\ ~up /\ sock[s] = "connecting"
  /\ sock' = [sock EXCEPT ![s] = "closed"]
  /\ IF retry = "attempting" /\ s = wss
     THEN retry' = "idle" /\ UNCHANGED <<connected, wss>>
     ELSE closeCallback
  /\ UNCHANGED <<up, subscribed, handlers>>

(* 'close' of an open socket: told by the relay, or found out by TCP.      *)
Drops(s) ==
  /\ sock[s] = "lost" \/ (sock[s] = "open" /\ ~up)
  /\ sock' = [sock EXCEPT ![s] = "closed"]
  /\ subscribed' = subscribed \ {s}
  /\ closeCallback
  /\ UNCHANGED <<up, handlers>>

(* Mutant: a socket that is not open is left to its own events.            *)
NeverNotOpen == FALSE

NotOpen == ~\E s \in Sockets : s = wss /\ sock[s] \in {"open", "lost"}

(* ping, every 5 s.  On an open socket it sends, and sets waitingPong,     *)
(* which nothing reads.                                                    *)
ping ==
  /\ NotOpen
  /\ closeCallback
  /\ UNCHANGED <<up, sock, subscribed, handlers>>

----------------------------------------------------------------------------
(* The network between the two: an outage may pass unseen, close sockets,  *)
(* or leave them half open.                                                *)
Outage == up /\ up' = FALSE /\ UNCHANGED <<sock, wss, connected, retry, subscribed, handlers>>
Repair == ~up /\ up' = TRUE /\ UNCHANGED <<sock, wss, connected, retry, subscribed, handlers>>

Loses(s) ==
  /\ ~up /\ sock[s] = "open"
  /\ sock' = [sock EXCEPT ![s] = "lost"]
  /\ subscribed' = subscribed \ {s}
  /\ UNCHANGED <<up, wss, connected, retry, handlers>>

Next ==
  \/ RetryTimer \/ ping \/ Outage \/ Repair
  \/ \E s \in Sockets : Opens(s) \/ Fails(s) \/ Drops(s) \/ Loses(s)

(* Timers run; a handshake succeeds or ends (handshakeTimeout); a socket   *)
(* that is lost is found out, since ping keeps sending on it.              *)
Fairness ==
  /\ WF_vars(RetryTimer) /\ WF_vars(ping)
  /\ \A s \in Sockets : /\ WF_vars(Opens(s) \/ Fails(s))
                        /\ WF_vars(sock[s] = "lost" /\ Drops(s))

Spec == Init /\ [][Next]_vars
FairSpec == Spec /\ Fairness

----------------------------------------------------------------------------
(* Types; and the relay reports on open sockets only.                      *)
TypeOK ==
  /\ up \in BOOLEAN /\ connected \in BOOLEAN
  /\ sock \in [Sockets -> {"closed", "connecting", "open", "lost"}]
  /\ wss \in Sockets \cup {None}
  /\ retry \in {"idle", "waiting", "attempting"}
  /\ subscribed \subseteq {s \in Sockets : sock[s] = "open"}
  /\ handlers \in 0..MaxHandlers

(* While a retry runs something will end it: its timer, or the handshake   *)
(* of the socket it refers to.  An end that is missed (a close, the opening*)
(* of a forgotten socket) would leave _retryConnecting set for ever.       *)
RetryHasAnEnd ==
  /\ retry = "waiting" => wss = None
  /\ retry = "attempting" => wss # None /\ sock[wss] = "connecting"

(* The socket the bot believes in is one the relay reports on, after every *)
(* reconnection too, and there is somebody to hear the reports.            *)
OpenIsSubscribed ==
  wss # None /\ sock[wss] = "open" => wss \in subscribed /\ handlers > 0

(* A forgotten socket stays open beside its successor and its close takes  *)
(* the successor down, but they never become three.                        *)
AtMostTwo ==
  \A s, t, u \in Sockets : Live(s) /\ Live(t) /\ Live(u) => s = t \/ t = u \/ s = u

Linked == wss # None /\ sock[wss] = "open" /\ wss \in subscribed /\ handlers > 0

(* However sockets were lost, forgotten or refused before: once the relay  *)
(* can be reached for good, the link ends up open and subscribed.          *)
Recovers == <>[]up => <>[]Linked
=============================================================================
