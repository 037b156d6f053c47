------------------------------- MODULE MCLive -------------------------------
(***************************************************************************)
(* Instance for TLC of the components that keep two sides in step: the     *)
(* fleet of agents, the live board, the chat, the webhooks and the page's  *)
(* connection to the gateway.  They share no variable; in a behaviour one  *)
(* of them moves and the others stay as they started.                      *)
(***************************************************************************)
EXTENDS AgentFleet, LiveBoard, Chat, WebhookDelivery, GatewayClient, TLC

\* The board: either changes by others under faults, or a move as well.
Bounds(m, d, f) == [mutations |-> m, drags |-> d, faults |-> f]
MCBudgets == {Bounds(2, 0, 2), Bounds(2, 1, 0), Bounds(1, 1, 2)}

VARIABLE focus  \* the component that moves

bundleVars == <<fleetVars, liveVars, chatVars, hookVars, gatewayVars, focus>>

\* Every webhook subscribes to '*'.
MCMatching == Webhooks \X Events

Init ==
  /\ focus \in {"fleet", "board", "chat", "webhooks", "gateway"}
  /\ FleetInit /\ LiveInit /\ ChatInit /\ HookInit /\ GatewayInit
  /\ focus = "board" \/ budget = Bounds(1, 1, 2)  \* one start for the others

Next ==
  /\ UNCHANGED focus
  /\ IF focus = "fleet" THEN FleetNext ELSE UNCHANGED fleetVars
  /\ IF focus = "board" THEN LiveNext ELSE UNCHANGED liveVars
  /\ IF focus = "chat" THEN ChatNext ELSE UNCHANGED chatVars
  /\ IF focus = "webhooks" THEN HookNext ELSE UNCHANGED hookVars
  /\ IF focus = "gateway" THEN GatewayNext ELSE UNCHANGED gatewayVars

\* The fairness of each component, for the behaviours in which it moves.
On(component, A) == focus = component /\ A

Fairness ==
  /\ WF_fleetVars(On("fleet", TimePasses)) /\ WF_fleetVars(On("fleet", HeartbeatCheck))
  /\ WF_liveVars(On("board", Poll)) /\ WF_liveVars(On("board", Dispatch))
  /\ WF_liveVars(On("board", StreamOpens \/ StreamBreaks \/ Reconnect))
  /\ \A k \in 1..MaxFetches :
       WF_liveVars(On("board", \E f \in fetches : f.key = k /\ (Answer(f) \/ Apply(f))))
  /\ WF_liveVars(On("board", \E d \in drags : Approved(d) \/ PutDone(d) \/ DragFails(d)))
  /\ \A c \in 1..MaxSends :
       WF_chatVars(On("chat", /\ c \in DOMAIN calls
                              /\ Server(c) \/ AnswerArrives(c) \/ RefusalArrives(c)))
  /\ WF_hookVars(On("webhooks", \E f \in flights, ok \in BOOLEAN : Settle(f, ok)))
  /\ WF_hookVars(On("webhooks", ProcessWebhookRetries(
       {d \in deliveries : d.scheduled /\ webhook[d.webhook].enabled})))
  /\ \A h \in Hooks :
       /\ WF_gatewayVars(On("gateway", TimerFires(h)))
       /\ \A s \in Sockets :
            /\ WF_gatewayVars(On("gateway", Handshake(h, s)))
            /\ WF_gatewayVars(On("gateway", MustClose(h, s) /\ SocketCloses(h, s)))

FairSpec == Init /\ [][Next]_bundleVars /\ Fairness
=============================================================================
