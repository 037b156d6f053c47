------------------------------ MODULE Sessions ------------------------------
(***************************************************************************)
(* The sessions page and what feeds it: the scan of local Claude           *)
(* transcripts (lib/claude-sessions.ts), the gateway's session stores      *)
(* (lib/sessions.ts), the list of api/sessions, the agent rows the status  *)
(* poll rewrites (api/status), the control buttons of a session            *)
(* (api/sessions/[id]/control over lib/command.ts) and the spawn form      *)
(* (agent-spawn-panel.tsx over api/spawn).                                 *)
(*                                                                         *)
(* The scan is synchronous, so it is one step.  A control command is a     *)
(* child process with a timeout that kills it; a spawn is an HTTP call     *)
(* with an abort timer.  The transcripts, the stores, the command and the  *)
(* model's API are external.                                               *)
(***************************************************************************)
EXTENDS Naturals, Sequences, FiniteSets, SequencesExt, Lists

CONSTANTS
  Transcripts,    \* transcript files, in the order readdirSync gives them
  SessionIds,     \* session ids
  SessionAgents,  \* agents that have a session store, in the order readdirSync gives them
  ControlActions, \* buttons in use, a subset of {"monitor", "pause", "terminate"}
  ActiveFor,      \* ticks a session counts as active after its last message
  IdleFor,        \* ticks an agent counts as idle after its last session
  MaxSessionTime, \* bound on the clock
  MaxSessionOps   \* bound: transcript and store writes, clicks and spawns

ASSUME SessionsAssumption ==
  /\ Transcripts \in Seq(STRING) /\ IsInjective(Transcripts)
  /\ SessionAgents \in Seq(STRING) /\ IsInjective(SessionAgents)
  /\ ActiveFor \in Nat \ {0} /\ IdleFor \in Nat
  /\ ControlActions \subseteq {"monitor", "pause", "terminate"}
  /\ MaxSessionTime \in Nat /\ MaxSessionOps \in Nat

VARIABLES
  sesNow,       \* the clock
  transcripts,  \* file -> its session id and last message, or NoTranscript
  claudeRows,   \* table claude_sessions: id -> row, or NoSessionRow
  scannedAt,    \* the ids the last scan that found anything saw
  stores,       \* agent -> its sessions.json: entries in file order, whole or torn
  agentRows,    \* agents: status and last_seen
  sessionList,  \* what the sessions page shows
  commands,     \* control commands under way on the server
  controlling,  \* the button that shows "Working...", or "none"
  carriedOut,   \* what the gateway did
  controlLog,   \* activities of type session_control
  spawns,       \* spawn requests in the browser's store, by number
  spawnCalls,   \* calls of handleSpawn under way
  isSpawning,   \* the form's flag
  sesOps        \* operations so far

scanVars == <<transcripts, claudeRows, scannedAt>>
listVars == <<stores, agentRows, sessionList>>
controlVars == <<commands, controlling, carriedOut, controlLog>>
spawnVars == <<spawns, spawnCalls, isSpawning>>
sesVars == <<sesNow, scanVars, listVars, controlVars, spawnVars, sesOps>>

Files_ == ToSet(Transcripts)
Agents_ == ToSet(SessionAgents)
NoTranscript == [sid |-> "none", last |-> 0]
NoSessionRow == [active |-> FALSE, last |-> 0, known |-> FALSE]

SpendOp == sesOps < MaxSessionOps /\ sesOps' = sesOps + 1

SessionTick ==
  /\ sesNow < MaxSessionTime
  /\ sesNow' = sesNow + 1
  /\ UNCHANGED <<scanVars, listVars, controlVars, spawnVars, sesOps>>

-----------------------------------------------------------------------------
(* Local Claude sessions *)

\* A Claude process appends a message.  The id is the first one in the file;
\* a resumed session can live in two files.
WriteTranscript(f, s) ==
  /\ SpendOp
  /\ transcripts[f].sid \in {"none", s}
  /\ transcripts' = [transcripts EXCEPT ![f] = [sid |-> s, last |-> sesNow]]
  /\ UNCHANGED <<sesNow, claudeRows, scannedAt, listVars, controlVars, spawnVars>>

RemoveTranscript(f) ==
  /\ SpendOp
  /\ transcripts[f] # NoTranscript
  /\ transcripts' = [transcripts EXCEPT ![f] = NoTranscript]
  /\ UNCHANGED <<sesNow, claudeRows, scannedAt, listVars, controlVars, spawnVars>>

\* parseSessionFile
ParseSessionFile(f) ==
  [sid |-> transcripts[f].sid, last |-> transcripts[f].last,
   active |-> sesNow - transcripts[f].last < ActiveFor]

\* A file without an id gives nothing.
ScanClaudeSessions ==
  LET found == Filtered(Transcripts, {f \in Files_ : transcripts[f] # NoTranscript})
  IN  [i \in DOMAIN found |-> ParseSessionFile(found[i])]

MarkAllInactive(table) ==
  [s \in SessionIds |-> [table[s] EXCEPT !.active = FALSE]]

UpsertSession(table, p) ==
  [table EXCEPT ![p.sid] = [active |-> p.active, last |-> p.last, known |-> TRUE]]

\* syncClaudeSessions: an empty scan returns before the transaction, which
\* inserts or updates one session after the other.
SyncedTable ==
  LET scan == ScanClaudeSessions
      table[i \in 0..Len(scan)] ==
        IF i = 0 THEN MarkAllInactive(claudeRows) ELSE UpsertSession(table[i - 1], scan[i])
  IN  IF scan = <<>> THEN claudeRows ELSE table[Len(scan)]

SyncClaudeSessions ==
  /\ claudeRows' = SyncedTable
  /\ scannedAt' = IF ScanClaudeSessions = <<>> THEN scannedAt
                  ELSE {p.sid : p \in ToSet(ScanClaudeSessions)}

ScanSessions ==
  /\ SyncClaudeSessions
  /\ UNCHANGED <<sesNow, transcripts, listVars, controlVars, spawnVars, sesOps>>

-----------------------------------------------------------------------------
(* Gateway sessions *)

\* The gateway sets an entry of an agent's store; it writes the file in place,
\* so a reader can meet it torn.
WriteStore(a, i, sid) ==
  /\ SpendOp
  /\ i <= Len(stores[a].entries) + 1
  /\ LET e == [sid |-> sid, at |-> sesNow]
         old == stores[a].entries
     IN stores' = [stores EXCEPT ![a] =
          [torn |-> FALSE,
           entries |-> IF i \in DOMAIN old THEN ReplaceAt(old, i, e) ELSE Append(old, e)]]
  /\ UNCHANGED <<sesNow, scanVars, agentRows, sessionList, controlVars, spawnVars>>

TearStore(a) ==
  /\ SpendOp
  /\ stores' = [stores EXCEPT ![a].torn = TRUE]
  /\ UNCHANGED <<sesNow, scanVars, agentRows, sessionList, controlVars, spawnVars>>

ReadStore(d) ==
  LET a == SessionAgents[d]
  IN  IF stores[a].torn THEN {}
      ELSE {[agent |-> a, dir |-> d, key |-> i, sid |-> stores[a].entries[i].sid,
             at |-> stores[a].entries[i].at] : i \in DOMAIN stores[a].entries}

\* The sort leaves entries of the same time in the order they were read.
Precedes(x, y) ==
  \/ x.at > y.at
  \/ x.at = y.at /\ (x.dir < y.dir \/ (x.dir = y.dir /\ x.key < y.key))

\* getAllGatewaySessions: stores that do not parse are skipped; newest first.
GetAllGatewaySessions ==
  LET all == UNION {ReadStore(d) : d \in DOMAIN SessionAgents}
  IN  Ranked(all, {p \in all \X all : Precedes(p[1], p[2])})

IdOf(g) == IF g.sid = "" THEN <<g.agent, g.key>> ELSE <<g.sid, 0>>

\* One round of the loop that deduplicates: a Map keeps a key's first place.
KeepNewest(kept, g) ==
  IF \E i \in DOMAIN kept : IdOf(kept[i]) = IdOf(g)
  THEN [i \in DOMAIN kept |-> IF IdOf(kept[i]) = IdOf(g) /\ g.at > kept[i].at THEN g ELSE kept[i]]
  ELSE Append(kept, g)

Deduplicated(all) ==
  LET kept[i \in 0..Len(all)] == IF i = 0 THEN <<>> ELSE KeepNewest(kept[i - 1], all[i])
  IN  kept[Len(all)]

\* The order of the local list is left out.
LocalList ==
  SetToSeq({[agent |-> "local", key |-> 0, sid |-> s, at |-> claudeRows'[s].last] :
              s \in {x \in SessionIds : claudeRows'[x].known}})

\* GET /api/sessions: local sessions are scanned only without gateway sessions.
LoadSessions ==
  /\ IF GetAllGatewaySessions # <<>>
     THEN sessionList' = Deduplicated(GetAllGatewaySessions) /\ UNCHANGED <<claudeRows, scannedAt>>
     ELSE SyncClaudeSessions /\ sessionList' = LocalList
  /\ UNCHANGED <<sesNow, transcripts, stores, agentRows, controlVars, spawnVars, sesOps>>

\* getAgentLiveStatuses: one record per agent, from its newest session.
LatestOf(a) ==
  LET all == GetAllGatewaySessions
  IN  Filtered(all, {g \in ToSet(all) : g.agent = a})[1].at

LiveStatus(a) ==
  LET age == sesNow - LatestOf(a)
  IN IF age < ActiveFor THEN "active" ELSE IF age < IdleFor THEN "idle" ELSE "offline"

WithSessions == {g.agent : g \in ToSet(GetAllGatewaySessions)}

\* GET /api/status rewrites status and last_seen of every agent with a session.
PollStatus ==
  /\ agentRows' = [a \in Agents_ |->
       IF a \in WithSessions THEN [status |-> LiveStatus(a), seen |-> LatestOf(a)]
       ELSE agentRows[a]]
  /\ UNCHANGED <<sesNow, scanVars, stores, sessionList, controlVars, spawnVars, sesOps>>

-----------------------------------------------------------------------------
(* Control of a session *)

\* A button of the session's card; all are disabled while one is working.
ClickControl(s, act) ==
  /\ SpendOp
  /\ controlling = "none"
  /\ controlling' = "working"
  /\ commands' = commands \cup {[op |-> sesOps, sid |-> s, act |-> act, acted |-> FALSE, heard |-> TRUE]}
  /\ UNCHANGED <<sesNow, scanVars, listVars, carriedOut, controlLog, spawnVars>>

\* The gateway does what the command asks.
GatewayActs(c) ==
  /\ c \in commands /\ ~c.acted
  /\ commands' = (commands \ {c}) \cup {[c EXCEPT !.acted = TRUE]}
  /\ carriedOut' = carriedOut \cup {<<c.op, c.sid, c.act>>}
  /\ UNCHANGED <<sesNow, scanVars, listVars, controlling, controlLog, spawnVars, sesOps>>

\* The promise of runCommand: exit code 0, which the command gives when it
\* acted, resolves; anything else rejects, a kill by the timer too.
Resolves(c, code) == code = "zero"

CommandCloses(c, code) ==
  /\ c \in commands
  /\ code \in (IF c.acted THEN {"zero", "killed"} ELSE {"nonzero", "killed"})
  /\ commands' = commands \ {c}
  /\ controlLog' = IF Resolves(c, code) THEN controlLog \cup {<<c.op, c.sid, c.act>>} ELSE controlLog
  /\ controlling' = IF c.heard THEN "none" ELSE controlling
  /\ UNCHANGED <<sesNow, scanVars, listVars, carriedOut, spawnVars, sesOps>>

\* The browser loses the answer, or the panel is closed and opened: the
\* buttons are free again and the handler goes on.
ControlForgotten(c) ==
  /\ c \in commands /\ c.heard
  /\ commands' = (commands \ {c}) \cup {[c EXCEPT !.heard = FALSE]}
  /\ controlling' = "none"
  /\ UNCHANGED <<sesNow, scanVars, listVars, carriedOut, controlLog, spawnVars, sesOps>>

-----------------------------------------------------------------------------
(* Spawning *)

\* handleSpawn up to its fetch.  The request is numbered by the browser; the
\* handler's own number never reaches the store.
HandleSpawn ==
  /\ SpendOp
  /\ ~isSpawning /\ Len(spawns) < 2
  /\ spawns' = Append(spawns, "pending")
  /\ spawnCalls' = spawnCalls \cup {[req |-> Len(spawns) + 1, at |-> "server"]}
  /\ isSpawning' = TRUE
  /\ UNCHANGED <<sesNow, scanVars, listVars, controlVars>>

UpdateByServerId(req, status) == spawns

UpdateSpawnRequest(req, status) ==
  IF req \in DOMAIN spawns THEN [spawns EXCEPT ![req] = status] ELSE spawns

\* POST /api/spawn: the model answers, or refuses, or the signal aborts.
SpawnServed(c, ok) ==
  /\ c \in spawnCalls /\ c.at = "server"
  /\ spawnCalls' = (spawnCalls \ {c}) \cup {[c EXCEPT !.at = IF ok THEN "ok" ELSE "failed"]}
  /\ UNCHANGED <<sesNow, scanVars, listVars, controlVars, spawns, isSpawning, sesOps>>

\* A failed answer, or no answer: the request fails.
SpawnFails(c) ==
  /\ c \in spawnCalls /\ c.at # "history"
  /\ spawns' = UpdateSpawnRequest(c.req, "failed")
  /\ spawnCalls' = spawnCalls \ {c}
  /\ isSpawning' = FALSE
  /\ UNCHANGED <<sesNow, scanVars, listVars, controlVars, sesOps>>

\* A successful answer; the history is fetched before the call ends.
SpawnCompletes(c) ==
  /\ c \in spawnCalls /\ c.at = "ok"
  /\ spawns' = UpdateSpawnRequest(c.req, "completed")
  /\ spawnCalls' = (spawnCalls \ {c}) \cup {[c EXCEPT !.at = "history"]}
  /\ UNCHANGED <<sesNow, scanVars, listVars, controlVars, isSpawning, sesOps>>

\* The history fetch is inside the same try: when it throws, the request that
\* completed is set to failed.
HistoryFetched(c, ok) ==
  /\ c \in spawnCalls /\ c.at = "history"
  /\ spawns' = IF ok THEN spawns ELSE UpdateSpawnRequest(c.req, "failed")
  /\ spawnCalls' = spawnCalls \ {c}
  /\ isSpawning' = FALSE
  /\ UNCHANGED <<sesNow, scanVars, listVars, controlVars, sesOps>>

\* The panel is left and opened again: its flag is new, the store is not.
ReopenSpawnPanel ==
  /\ SpendOp
  /\ isSpawning
  /\ isSpawning' = FALSE
  /\ UNCHANGED <<sesNow, scanVars, listVars, controlVars, spawns, spawnCalls>>

SessionsInit ==
  /\ sesNow = 0
  /\ transcripts = [f \in Files_ |-> NoTranscript]
  /\ claudeRows = [s \in SessionIds |-> NoSessionRow]
  /\ scannedAt = {}
  /\ stores = [a \in Agents_ |-> [torn |-> FALSE, entries |-> <<>>]]
  /\ agentRows = [a \in Agents_ |-> [status |-> "offline", seen |-> 0]]
  /\ sessionList = <<>>
  /\ commands = {} /\ controlling = "none" /\ carriedOut = {} /\ controlLog = {}
  /\ spawns = <<>> /\ spawnCalls = {} /\ isSpawning = FALSE
  /\ sesOps = 0

SessionsNext ==
  \/ SessionTick
  \/ \E f \in Files_ : (\E s \in SessionIds : WriteTranscript(f, s)) \/ RemoveTranscript(f)
  \/ ScanSessions
  \/ \E a \in Agents_ :
       \/ \E i \in 1..2, sid \in SessionIds \cup {""} : WriteStore(a, i, sid)
       \/ TearStore(a)
  \/ LoadSessions
  \/ PollStatus
  \/ \E s \in SessionIds, act \in ControlActions : ClickControl(s, act)
  \/ \E c \in commands :
       GatewayActs(c) \/ ControlForgotten(c) \/ \E code \in {"zero", "nonzero", "killed"} : CommandCloses(c, code)
  \/ HandleSpawn
  \/ \E c \in spawnCalls :
       \/ SpawnFails(c) \/ SpawnCompletes(c)
       \/ \E ok \in BOOLEAN : SpawnServed(c, ok) \/ HistoryFetched(c, ok)
  \/ ReopenSpawnPanel

SessionsSpec == SessionsInit /\ [][SessionsNext]_sesVars

-----------------------------------------------------------------------------
\* A session counts as active only if the last scan that found anything met
\* it: the transaction clears every flag before it sets those it found
\* (claude-sessions.ts).
ActiveWasScanned ==
  \A s \in SessionIds : claudeRows[s].active => s \in scannedAt

\* The page never shows two entries of one session, and of several it shows
\* one that no other entry of the stores is newer than; the status poll takes
\* an agent's newest (api/sessions/route.ts, duplicate React keys; sessions.ts).
ListedOnceAndNewest ==
  LET all == GetAllGatewaySessions
      shown == Deduplicated(all)
  IN /\ \A i, j \in DOMAIN shown : IdOf(shown[i]) = IdOf(shown[j]) => i = j
     /\ \A g \in ToSet(all) : \E k \in ToSet(shown) : IdOf(k) = IdOf(g) /\ k.at >= g.at
     /\ \A g \in ToSet(all) : LatestOf(g.agent) >= g.at

\* What the activity log says of a session was done to it: a command that was
\* killed or failed leaves no entry (sessions/[id]/control, command.ts).
LoggedMeansDone == controlLog \subseteq carriedOut

\* A request that shows as pending has a call that will settle it, although
\* the panel can be left and a second request started (agent-spawn-panel.tsx).
PendingSpawnIsUnderWay ==
  \A r \in DOMAIN spawns : spawns[r] = "pending" => \E c \in spawnCalls : c.req = r

\* What the pages say of sessions, commands and spawn requests is what
\* happened to them.
SessionsSafe == ActiveWasScanned /\ ListedOnceAndNewest /\ LoggedMeansDone /\ PendingSpawnIsUnderWay
=============================================================================
