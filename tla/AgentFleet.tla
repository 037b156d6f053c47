----------------------------- MODULE AgentFleet -----------------------------
(***************************************************************************)
(* Whether an agent is there: the status and last_seen of its row, changed *)
(* by its heartbeats (api/agents/[id]/heartbeat), by direct connections of *)
(* command-line tools (api/connect), by a wake (api/agents/[id]/wake), by  *)
(* status updates (PUT api/agents) and by runHeartbeatCheck of the         *)
(* scheduler, which marks silent agents offline.                           *)
(*                                                                         *)
(* Every handler is one step, except that a wake waits for the gateway.    *)
(* Time is the age of last_seen and last_heartbeat in ticks.               *)
(***************************************************************************)
EXTENDS Integers, FiniteSets

CONSTANTS
    FleetNames,
    TimeoutTicks,    \* general.agent_timeout_minutes
    MaxFleetCalls    \* bound on requests

VARIABLES
    fleet,       \* rows by name: id, status, age of last_seen
    conns,       \* direct_connections
    waking,      \* wakes that wait for the gateway, by name
    lastAgentId,
    fleetCalls,
    toldOff      \* names somebody put offline or disconnected (observation)

fleetVars == <<fleet, conns, waking, lastAgentId, fleetCalls, toldOff>>

ASSUME AgentFleetAssumption == TimeoutTicks \in Nat /\ MaxFleetCalls \in Nat

Never == -1
Older(age) == IF age = Never \/ age > TimeoutTicks THEN age ELSE age + 1
Registered(n) == n \in DOMAIN fleet
WithAgent(n, row) == [m \in DOMAIN fleet \cup {n} |-> IF m = n THEN row ELSE fleet[m]]
LiveConns(id) == {c \in conns : c.agent = id /\ c.status = "connected"}

FleetCall == fleetCalls < MaxFleetCalls /\ fleetCalls' = fleetCalls + 1
---------------------------------------------------------------------------
\* POST /api/agents, and the rows a synchronisation adds.
AddAgent(n) ==
    /\ FleetCall /\ ~Registered(n)
    /\ fleet' = WithAgent(n, [id |-> lastAgentId + 1, status |-> "offline", seen |-> Never])
    /\ lastAgentId' = lastAgentId + 1
    /\ UNCHANGED <<conns, waking, toldOff>>

\* DELETE /api/agents/[id], with the connections that reference the row.
\* Fault: foreign keys are not enforced.
CascadeNothing(id) == conns
Cascade(id) == {c \in conns : c.agent # id}
RemoveAgent(n) ==
    /\ FleetCall /\ Registered(n)
    /\ fleet' = [x \in DOMAIN fleet \ {n} |-> fleet[x]]
    /\ conns' = Cascade(fleet[n].id)
    /\ toldOff' = toldOff \ {n}
    /\ UNCHANGED <<waking, lastAgentId>>

\* PUT /api/agents with a status: the one change that also says who.
PutStatus(n, s) ==
    /\ FleetCall /\ Registered(n)
    /\ fleet' = [fleet EXCEPT ![n].status = s, ![n].seen = 0]
    /\ toldOff' = IF s = "offline" THEN toldOff \cup {n} ELSE toldOff \ {n}
    /\ UNCHANGED <<conns, waking, lastAgentId>>

\* updateAgentStatus(name, 'idle'): nothing without a row of that name.
SeenIdle(n) ==
    /\ fleet' = IF Registered(n) THEN [fleet EXCEPT ![n].status = "idle", ![n].seen = 0] ELSE fleet
    /\ toldOff' = toldOff \ {n}

\* GET or POST heartbeat, the latter with a connection, which counts only
\* while it is connected.
AgentHeartbeat(n, cid) ==
    /\ FleetCall /\ Registered(n)
    /\ conns' = {IF c.id = cid /\ c.status = "connected" THEN [c EXCEPT !.beat = 0] ELSE c : c \in conns}
    /\ SeenIdle(n)
    /\ UNCHANGED <<waking, lastAgentId>>

\* POST wake: the row is looked at, then the gateway has ten seconds.
StartWake(n) ==
    /\ FleetCall /\ Registered(n) /\ n \notin waking
    /\ waking' = waking \cup {n}
    /\ UNCHANGED <<fleet, conns, lastAgentId, toldOff>>

WakeEnds(n, ok) ==
    /\ n \in waking /\ waking' = waking \ {n}
    /\ IF ok THEN SeenIdle(n) ELSE UNCHANGED <<fleet, toldOff>>
    /\ UNCHANGED <<conns, lastAgentId, fleetCalls>>
---------------------------------------------------------------------------
(* api/connect.                                                            *)

\* Fault: earlier connections are left as they are.
ReplacedNone(id) == conns
Replaced(id) == {IF c.agent = id THEN [c EXCEPT !.status = "disconnected"] ELSE c : c \in conns}

\* The row is found or made, earlier connections are replaced; last_seen is
\* not touched.
FleetConnect(n) ==
    LET id == IF Registered(n) THEN fleet[n].id ELSE lastAgentId + 1 IN
    /\ FleetCall
    /\ fleet' = IF Registered(n) THEN [fleet EXCEPT ![n].status = "online"]
                ELSE WithAgent(n, [id |-> id, status |-> "online", seen |-> Never])
    /\ lastAgentId' = IF Registered(n) THEN lastAgentId ELSE id
    /\ conns' = Replaced(id) \cup
                   {[id |-> fleetCalls, agent |-> id, status |-> "connected", beat |-> 0]}
    /\ toldOff' = toldOff \ {n}
    /\ UNCHANGED waking

\* The agent goes offline with the last connection; a connection that was
\* replaced may be ended late.
\* Fault: any connection that ends takes the agent offline.
GoesOffline(c) == TRUE
LastOne(c) == LiveConns(c.agent) \ {c} = {}
FleetDisconnect(c) ==
    LET name == {n \in DOMAIN fleet : fleet[n].id = c.agent} IN
    /\ FleetCall /\ name # {}
    /\ conns' = (conns \ {c}) \cup {[c EXCEPT !.status = "disconnected"]}
    /\ IF LastOne(c)
       THEN /\ fleet' = [n \in DOMAIN fleet |->
                           IF n \in name THEN [fleet[n] EXCEPT !.status = "offline"] ELSE fleet[n]]
            /\ toldOff' = toldOff \cup name
       ELSE UNCHANGED <<fleet, toldOff>>
    /\ UNCHANGED <<waking, lastAgentId>>
---------------------------------------------------------------------------
(* Time, and runHeartbeatCheck.                                            *)

TimePasses ==
    /\ fleet' = [n \in DOMAIN fleet |-> [fleet[n] EXCEPT !.seen = Older(@)]]
    /\ conns' = {[c EXCEPT !.beat = Older(@)] : c \in conns}
    /\ UNCHANGED <<waking, lastAgentId, fleetCalls, toldOff>>

\* Fault: agents never seen are not asked for.
StaleSeen(row) == row.status # "offline" /\ row.seen > TimeoutTicks
\* Fault: the limit itself counts as silence.
StaleEarly(row) == row.status # "offline" /\ (row.seen = Never \/ row.seen >= TimeoutTicks)
Stale(row) == row.status # "offline" /\ (row.seen = Never \/ row.seen > TimeoutTicks)

HeartbeatCheck ==
    /\ \E n \in DOMAIN fleet : Stale(fleet[n])
    /\ fleet' = [n \in DOMAIN fleet |-> IF Stale(fleet[n])
                                        THEN [fleet[n] EXCEPT !.status = "offline"] ELSE fleet[n]]
    /\ UNCHANGED <<conns, waking, lastAgentId, fleetCalls, toldOff>>

FleetInit ==
    /\ fleet = [n \in {} |-> 0] /\ conns = {} /\ waking = {}
    /\ lastAgentId = 0 /\ fleetCalls = 0 /\ toldOff = {}

FleetNext ==
    \/ \E n \in FleetNames :
          \/ AddAgent(n) \/ RemoveAgent(n) \/ FleetConnect(n) \/ StartWake(n)
          \/ \E s \in {"offline", "busy"} : PutStatus(n, s)
          \/ \E cid \in {c.id : c \in conns} \cup {Never} : AgentHeartbeat(n, cid)
          \/ \E ok \in BOOLEAN : WakeEnds(n, ok)
    \/ \E c \in conns : FleetDisconnect(c)
    \/ TimePasses
    \/ HeartbeatCheck

\* The clock runs, and the scheduler checks every five minutes.
FleetFairness ==
    WF_fleetVars(TimePasses) /\ WF_fleetVars(HeartbeatCheck)

FleetSpec == FleetInit /\ [][FleetNext]_fleetVars
FleetFairSpec == FleetSpec /\ FleetFairness
---------------------------------------------------------------------------
\* An agent has one live connection: registering another replaces it.
OneLiveConnection == \A c \in conns : Cardinality(LiveConns(c.agent)) <= 1

\* A connection belongs to an agent that exists, through deletions and agents
\* made again under the same name.
ConnectionHasAgent == \A c \in conns : \E n \in DOMAIN fleet : fleet[n].id = c.agent

\* An agent heard of within the timeout is offline only if somebody said so or
\* its last connection ended: neither the check nor the late end of a connection
\* that was replaced takes it offline.
HeardIsNotOffline ==
    \A n \in DOMAIN fleet :
        fleet[n].status = "offline" /\ fleet[n].seen \in 0..TimeoutTicks => n \in toldOff

\* While an agent has a live connection, only silence and a status update put it
\* offline: the end of a connection that was replaced does not.
ConnectedStaysUp ==
    [][\A n \in DOMAIN fleet \cap DOMAIN fleet' :
          /\ fleet[n].status # "offline" /\ fleet'[n].status = "offline"
          /\ LiveConns(fleet[n].id)' # {}
          => Stale(fleet[n]) \/ fleet'[n].seen = 0]_fleetVars

\* An agent that falls silent is shown offline in the end, whether or not it was
\* ever heard of.
SilentGoesOffline ==
    \A n \in FleetNames :
        (Registered(n) /\ fleet[n].status # "offline") ~> (Registered(n) => fleet[n].status = "offline")

\* What the table says of agents and their direct connections is what was
\* last heard of them.
FleetSafe ==
  /\ [](OneLiveConnection /\ ConnectionHasAgent /\ HeardIsNotOffline)
  /\ ConnectedStaysUp
=============================================================================
