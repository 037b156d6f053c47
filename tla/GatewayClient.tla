--------------------------- MODULE GatewayClient ---------------------------
(***************************************************************************)
(* The browser's connection to the OpenClaw gateway: useWebSocket, its     *)
(* handshake, heartbeat and reconnect timer.                               *)
(*                                                                         *)
(* Every component that calls the hook gets an instance with refs of its   *)
(* own; only the connection record in the store is shared.  The page       *)
(* connects once, the gateways panel on every click and disconnects when   *)
(* it is left, the header bar only offers reconnect.  Handlers run one at  *)
(* a time; close events of the browser arrive late.                        *)
(***************************************************************************)
EXTENDS Naturals, FiniteSets

CONSTANTS
    Pages, Headers, Panels, \* hook instances by the component that owns them
    Sockets,                \* WebSocket objects of an instance at a time
    NoSocket,               \* null in wsRef
    MaxReconnectAttempts,   \* maxReconnectAttempts
    MaxMissedPongs,         \* MAX_MISSED_PONGS
    MaxOwed,                \* bound on pings without an answer
    MaxTimers,              \* bound on timers that lost their ref
    MaxClicks               \* bound on clicks of an operator

Hooks == Pages \cup Headers \cup Panels

\* A component that calls the hook gets an instance of its own.
ASSUME GatewayClientAssumption ==
    /\ NoSocket \notin Sockets
    /\ Pages \cap Headers = {} /\ Pages \cap Panels = {} /\ Headers \cap Panels = {}
    /\ MaxReconnectAttempts \in Nat \ {0} /\ MaxMissedPongs \in Nat \ {0}
    /\ MaxOwed \in Nat /\ MaxTimers \in Nat /\ MaxClicks \in Nat

VARIABLES
    isConnected,  \* connection.isConnected in the store
    mounted,      \* is the component of an instance yet, now, no more on screen?
    hook,         \* the refs of each instance
    ready,        \* readyState of the sockets of each instance
    link,         \* how far the handshake got on each socket
    owed,         \* pings on each socket the gateway has not answered
    clicks

gatewayVars == <<isConnected, mounted, hook, ready, link, owed, clicks>>

\* ws: wsRef; url: reconnectUrl is set; done: handshakeCompleteRef; manual,
\* refused: manualDisconnectRef, nonRetryableErrorRef; timer: the timer of
\* reconnectTimeoutRef is pending; lost: pending timers no ref knows of;
\* beat: pingIntervalRef; missed: missedPongsRef; sent: pingSentTimestamps.
Refs == [ws : Sockets \cup {NoSocket}, url : BOOLEAN, done : BOOLEAN,
         manual : BOOLEAN, refused : BOOLEAN, attempts : 0..MaxReconnectAttempts,
         timer : BOOLEAN, lost : 0..MaxTimers, beat : BOOLEAN,
         missed : 0..MaxMissedPongs, sent : 0..MaxOwed]

GatewayInit ==
    /\ isConnected = FALSE
    /\ mounted = [h \in Hooks |-> IF h \in Panels THEN "before" ELSE "on"]
    /\ hook = [h \in Hooks |->
          [ws |-> NoSocket, url |-> FALSE, done |-> FALSE, manual |-> FALSE,
           refused |-> FALSE, attempts |-> 0, timer |-> FALSE, lost |-> 0,
           beat |-> FALSE, missed |-> 0, sent |-> 0]]
    /\ ready = [h \in Hooks |-> [s \in Sockets |-> "closed"]]
    /\ link = [h \in Hooks |-> [s \in Sockets |-> "none"]]
    /\ owed = [h \in Hooks |-> [s \in Sockets |-> 0]]
    /\ clicks = 0

Click == clicks < MaxClicks /\ clicks' = clicks + 1
---------------------------------------------------------------------------
(* connect, disconnect, reconnect.                                         *)

\* Fault: a socket that is still connecting does not count.
LiveOpenOnly(h) ==
    hook[h].ws # NoSocket /\ ready[h][hook[h].ws] = "open"

Live(h) ==
    hook[h].ws # NoSocket /\ ready[h][hook[h].ws] \in {"connecting", "open"}

\* Fault: connect forgets to reset handshakeCompleteRef.
FreshKeepDone(k, s) ==
    [k EXCEPT !.ws = s, !.url = TRUE, !.manual = FALSE, !.refused = FALSE]

\* What connect resets, and what it leaves: heartbeat and missed pongs.
Fresh(k, s) ==
    [k EXCEPT !.ws = s, !.url = TRUE, !.done = FALSE, !.manual = FALSE,
              !.refused = FALSE]

\* connect with the refs k of the moment: nothing while a socket is
\* connecting or open, otherwise a new socket.
Connect(h, k) ==
    \/ /\ Live(h)
       /\ hook' = [hook EXCEPT ![h] = k]
       /\ UNCHANGED <<ready, link, owed>>
    \/ /\ ~Live(h)
       /\ \E s \in Sockets :
            /\ ready[h][s] = "closed"
            /\ hook' = [hook EXCEPT ![h] = Fresh(k, s)]
            /\ ready' = [ready EXCEPT ![h][s] = "connecting"]
            /\ link' = [link EXCEPT ![h][s] = "none"]
            /\ owed' = [owed EXCEPT ![h][s] = 0]

\* Fault: the counter of missed pongs survives.
StopHeartbeatKeepMissed(k) == [k EXCEPT !.beat = FALSE, !.sent = 0]

StopHeartbeat(k) == [k EXCEPT !.beat = FALSE, !.missed = 0, !.sent = 0]

\* disconnect clears the timer its ref knows and closes the socket, whose
\* close event follows later; again timers are started behind it.
Disconnect(h, again) ==
    LET k == hook[h] IN
    /\ hook' = [hook EXCEPT ![h] =
         [StopHeartbeat(k) EXCEPT !.ws = NoSocket, !.done = FALSE, !.manual = TRUE,
                                  !.attempts = 0, !.timer = FALSE,
                                  !.lost = @ + again]]
    /\ ready' = IF Live(h) THEN [ready EXCEPT ![h][k.ws] = "closing"] ELSE ready
    /\ isConnected' = FALSE
    /\ UNCHANGED <<link, owed>>

\* The page connects once its capabilities request has settled.
PageConnect(h) ==
    /\ h \in Pages /\ ~hook[h].url
    /\ Connect(h, hook[h])
    /\ UNCHANGED <<isConnected, mounted, clicks>>

\* connectTo in the gateways panel.
PanelConnect(h) ==
    /\ h \in Panels /\ mounted[h] = "on"
    /\ Click
    /\ Connect(h, hook[h])
    /\ UNCHANGED <<isConnected, mounted>>

\* The connection badge: reconnect disconnects and, when its own instance
\* has connected before, connects again a second later by a timer that is
\* kept in no ref.
HeaderReconnect(h) ==
    /\ h \in Headers /\ ~isConnected
    /\ Click
    /\ hook[h].url => hook[h].lost < MaxTimers
    /\ Disconnect(h, IF hook[h].url THEN 1 ELSE 0)
    /\ UNCHANGED mounted

PanelMount(h) ==
    /\ mounted[h] = "before"
    /\ mounted' = [mounted EXCEPT ![h] = "on"]
    /\ UNCHANGED <<isConnected, hook, ready, link, owed, clicks>>

\* Leaving the panel runs the hook's cleanup.
PanelUnmount(h) ==
    /\ h \in Panels /\ mounted[h] = "on"
    /\ mounted' = [mounted EXCEPT ![h] = "off"]
    /\ Disconnect(h, 0)
    /\ UNCHANGED clicks

\* The reconnect timer of an instance fires, be it still mounted or not.
TimerFires(h) ==
    /\ \/ hook[h].timer /\ Connect(h, [hook[h] EXCEPT !.timer = FALSE])
       \/ hook[h].lost > 0 /\ Connect(h, [hook[h] EXCEPT !.lost = @ - 1])
    /\ UNCHANGED <<isConnected, mounted, clicks>>
---------------------------------------------------------------------------
(* Frames of the gateway; a socket delivers them only while it is open.    *)

SocketOpens(h, s) ==
    /\ ready[h][s] = "connecting"
    /\ ready' = [ready EXCEPT ![h][s] = "open"]
    /\ UNCHANGED <<isConnected, mounted, hook, link, owed, clicks>>

\* connect.challenge: sendConnectHandshake starts to sign.
Challenge(h, s) ==
    /\ ready[h][s] = "open" /\ link[h][s] = "none"
    /\ link' = [link EXCEPT ![h][s] = "signing"]
    /\ UNCHANGED <<isConnected, mounted, hook, ready, owed, clicks>>

\* The signature is there; the request goes out if the socket is still open.
HandshakeSent(h, s) ==
    /\ link[h][s] = "signing" /\ ready[h][s] # "closed"
    /\ link' = [link EXCEPT ![h][s] =
                   IF ready[h][s] = "open" THEN "requested" ELSE "dropped"]
    /\ UNCHANGED <<isConnected, mounted, hook, ready, owed, clicks>>

\* Any ok response completes the handshake of the instance.
Complete(h) ==
    /\ hook' = [hook EXCEPT ![h].done = TRUE, ![h].attempts = 0, ![h].beat = TRUE]
    /\ isConnected' = TRUE

Accept(h, s) ==
    /\ ready[h][s] = "open" /\ link[h][s] = "requested"
    /\ link' = [link EXCEPT ![h][s] = "accepted"]
    /\ IF hook[h].done THEN UNCHANGED <<hook, isConnected>> ELSE Complete(h)
    /\ UNCHANGED <<mounted, ready, owed, clicks>>

RememberRefusal(k) == [StopHeartbeat(k) EXCEPT !.refused = TRUE]

\* An error response: configuration and authentication errors close the
\* socket for good, of the others only the log hears.
Refuse(h, s, nonRetryable) ==
    /\ ready[h][s] = "open" /\ link[h][s] = "requested"
    /\ link' = [link EXCEPT ![h][s] = "dropped"]
    /\ IF nonRetryable
       THEN /\ hook' = [hook EXCEPT ![h] = RememberRefusal(hook[h])]
            /\ ready' = [ready EXCEPT ![h][s] = "closing"]
       ELSE UNCHANGED <<hook, ready>>
    /\ UNCHANGED <<isConnected, mounted, owed, clicks>>

\* The gateway answers its oldest ping: an ok answer to an instance without
\* a handshake completes one, an answer to a known ping resets the count.
Pong(h, s, ok) ==
    /\ ready[h][s] = "open" /\ owed[h][s] > 0
    /\ owed' = [owed EXCEPT ![h][s] = @ - 1]
    /\ IF ok /\ ~hook[h].done THEN Complete(h)
       ELSE /\ hook' = IF owed[h][s] <= hook[h].sent
                       THEN [hook EXCEPT ![h].sent = @ - 1, ![h].missed = 0]
                       ELSE hook
            /\ UNCHANGED isConnected
    /\ UNCHANGED <<mounted, ready, link, clicks>>

\* The 30 s interval.  Timers are armed only together with a stop of the
\* heartbeat and fire within 45 s, before it could miss a pong again.
Heartbeat(h) ==
    LET k == hook[h] IN
    /\ k.beat /\ k.done /\ Live(h) /\ ready[h][k.ws] = "open"
    /\ ~k.timer /\ k.lost = 0
    /\ \/ /\ k.missed >= MaxMissedPongs
          /\ ready' = [ready EXCEPT ![h][k.ws] = "closing"]
          /\ UNCHANGED <<hook, owed>>
       \/ /\ k.missed < MaxMissedPongs /\ owed[h][k.ws] < MaxOwed
          /\ hook' = [hook EXCEPT ![h].missed = @ + 1, ![h].sent = @ + 1]
          /\ owed' = [owed EXCEPT ![h][k.ws] = @ + 1]
          /\ UNCHANGED ready
    /\ UNCHANGED <<isConnected, mounted, link, clicks>>

\* Faults: one attempt only, attempts without end, attempts after a refusal.
RetryOnce(k) == ~k.manual /\ ~k.refused /\ k.attempts = 0
RetryForEver(k) == ~k.manual /\ ~k.refused
RetryRefused(k) == ~k.manual /\ k.attempts < MaxReconnectAttempts

\* onclose arms the timer unless the close was wanted or is final.
MayRetry(k) == ~k.manual /\ ~k.refused /\ k.attempts < MaxReconnectAttempts

\* A close event reaches the handler: whichever socket of the instance it
\* belongs to, the instance counts as disconnected.
SocketCloses(h, s) ==
    /\ ready[h][s] # "closed"
    /\ ready' = [ready EXCEPT ![h][s] = "closed"]
    /\ owed' = [owed EXCEPT ![h][s] = 0]
    /\ link' = [link EXCEPT ![h][s] = "none"]
    /\ isConnected' = FALSE
    /\ LET k == [StopHeartbeat(hook[h]) EXCEPT !.done = FALSE] IN
       \/ /\ MayRetry(k)
          /\ k.timer => k.lost < MaxTimers
          /\ hook' = [hook EXCEPT ![h] =
               [k EXCEPT !.attempts = @ + 1, !.timer = TRUE,
                         !.lost = IF k.timer THEN @ + 1 ELSE @]]
       \/ /\ ~MayRetry(k)
          /\ hook' = [hook EXCEPT ![h] = k]
    /\ UNCHANGED <<mounted, clicks>>
---------------------------------------------------------------------------
Handshake(h, s) ==
    \/ SocketOpens(h, s) \/ Challenge(h, s) \/ HandshakeSent(h, s)
    \/ Accept(h, s) \/ \E final \in BOOLEAN : Refuse(h, s, final)

User == \E h \in Hooks :
    \/ PanelConnect(h) \/ PanelMount(h) \/ PanelUnmount(h) \/ HeaderReconnect(h)

GatewayNext ==
    \/ User
    \/ \E h \in Hooks :
         \/ PageConnect(h) \/ TimerFires(h) \/ Heartbeat(h)
         \/ \E s \in Sockets :
              \/ Handshake(h, s) \/ SocketCloses(h, s)
              \/ \E ok \in BOOLEAN : Pong(h, s, ok)

\* Its close event must come: it is closing, or the gateway closes it.
MustClose(h, s) == ready[h][s] = "closing" \/ link[h][s] = "dropped"

\* Timers fire, close events arrive, and the gateway goes on with a
\* handshake or closes the socket; it owes nobody a pong.
GatewayFairness == \A h \in Hooks :
    /\ WF_gatewayVars(TimerFires(h))
    /\ \A s \in Sockets :
         /\ WF_gatewayVars(Handshake(h, s))
         /\ WF_gatewayVars(MustClose(h, s) /\ SocketCloses(h, s))

GatewaySpec == GatewayInit /\ [][GatewayNext]_gatewayVars
GatewayFairSpec == GatewaySpec /\ GatewayFairness
---------------------------------------------------------------------------
(* Properties.                                                             *)

\* Store, refs and sockets keep their types.
GatewayTypeOK ==
    /\ isConnected \in BOOLEAN /\ mounted \in [Hooks -> {"before", "on", "off"}]
    /\ hook \in [Hooks -> Refs]
    /\ ready \in [Hooks -> [Sockets -> {"closed", "connecting", "open", "closing"}]]
    /\ link \in [Hooks -> [Sockets ->
                   {"none", "signing", "requested", "accepted", "dropped"}]]
    /\ owed \in [Hooks -> [Sockets -> 0..MaxOwed]]
    /\ clicks \in 0..MaxClicks

\* An instance never has two sockets that are connecting or open, however
\* clicks, timers no ref knows of and late close events interleave.
OneLiveSocket ==
    \A h \in Hooks : \A s, t \in Sockets :
        /\ ready[h][s] \in {"connecting", "open"}
        /\ ready[h][t] \in {"connecting", "open"}
        => s = t

\* handshakeCompleteRef is set only while the gateway has accepted the
\* instance's present socket, so sendMessage never writes to a socket the
\* gateway has not let in.
HandshakeMeansAccepted ==
    \A h \in Hooks : hook[h].done =>
        hook[h].ws # NoSocket /\ link[h][hook[h].ws] = "accepted"

\* On the page, the heartbeat gives a connection up only when that
\* connection left MAX_MISSED_PONGS pings without an answer.
MissedPongsAreReal ==
    \A h \in Pages : hook[h].missed > 0 =>
        /\ hook[h].ws # NoSocket
        /\ hook[h].missed <= owed[h][hook[h].ws]

\* After a configuration or authentication error the page does not retry:
\* no timer is pending and no socket is being opened.
NoRetryAfterRefusal ==
    \A h \in Pages : hook[h].refused =>
        /\ ~hook[h].timer /\ hook[h].lost = 0
        /\ \A s \in Sockets : ready[h][s] # "connecting"

GaveUp(h) ==
    /\ hook[h].attempts = MaxReconnectAttempts /\ ~hook[h].timer
    /\ \A s \in Sockets : ready[h][s] = "closed"

\* A page that lost its connection gets it back, is refused for good, or
\* gives up after the last attempt: it never hangs in between.
LostConnectionSettles ==
    \A h \in Pages :
        hook[h].timer ~> (hook[h].done \/ hook[h].refused \/ GaveUp(h))

\* "Max reconnection attempts reached. Please reconnect manually.": a click
\* on the badge that offers it brings a new attempt.
ManualReconnectWorks ==
    \A h \in Pages :
        (GaveUp(h) /\ clicks > 0) ~>
            \E g \in Hooks, s \in Sockets : ready[g][s] = "connecting"

\* The refs of a hook instance and its sockets agree, through late events of
\* old sockets, timers nobody remembers, clicks and refusals.
ConnectionSafe ==
    GatewayTypeOK /\ OneLiveSocket /\ HandshakeMeansAccepted
      /\ MissedPongsAreReal /\ NoRetryAfterRefusal
============================================================================
