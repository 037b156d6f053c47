---------------------------- MODULE AgentConfig ----------------------------
(***************************************************************************)
(* Two copies of an agent's configuration: the row of the database and the *)
(* entry of openclaw.json, which the gateway owns.  lib/agent-sync.ts      *)
(* copies the file into the database (syncAgentsFromConfig) and writes a   *)
(* changed agent back (writeAgentToConfig); api/agents, api/agents/[id]    *)
(* and api/agents/[id]/soul change the rows, and soul.md in the agent's    *)
(* workspace beside them.  PUT /api/gateway-config writes any part of the  *)
(* file, the list of agents included.                                      *)
(*                                                                         *)
(* A handler runs to its next await.  The awaits are the reading and the   *)
(* writing of openclaw.json; while it is written the file is truncated.    *)
(* A configuration is one object of the gateway's format with the fields   *)
(* it sets; identities, hence names, and workspaces do not change.         *)
(***************************************************************************)
EXTENDS Naturals, FiniteSets

CONSTANTS
    AgentNames,      \* names, which are the ids of the file in lower case
    InWorkspace,     \* agents the file lists from the start, with a workspace
    Updates,         \* values of gateway_config.model a request may carry
    Souls,           \* contents of soul.md
    MaxEdits         \* bound on requests

NoConfigEntry == "none"
NoSoul  == "null"
EmptySoul == ""

VARIABLES
    agentRow,    \* the table agents: config, whether it names a workspace, soul
    list,        \* agents.list of openclaw.json, as it was when that last parsed
    corrupt,     \* the file does not parse, with no write under way
    soulFile,    \* soul.md of each workspace
    configCalls,   \* handlers suspended at the file
    edits,
    writtenBack,    \* what writes answered with success have set (observation)
    configRaced,       \* two writers have overlapped (observation)
    configCut,         \* a write failed or was cut by a stop (observation)
    fresh,       \* a sync has run on the file as it is, and nothing changed since
    savedSoul    \* soul of the last PUT that reached the workspace (observation)

acVars == <<agentRow, list, corrupt, soulFile, configCalls, edits, writtenBack, configRaced,
            configCut, fresh, savedSoul>>

\* A soul has content: NULL and the empty text count as none.
ASSUME AgentConfigAssumption ==
    /\ InWorkspace \subseteq AgentNames /\ Updates # {} /\ MaxEdits \in Nat
    /\ Souls \cap {NoSoul, EmptySoul, NoConfigEntry} = {}

NoCfg == [f \in {} |-> 0]
Listed(a) == a \in DOMAIN list
\* The fields of g, and those of f that g does not set.
Over(g, f) == [x \in DOMAIN g \cup DOMAIN f |-> IF x \in DOMAIN g THEN g[x] ELSE f[x]]
WithUpdate(f, a, v) == Over([x \in {a} |-> v], f)
Without(f, a) == [x \in DOMAIN f \ {a} |-> f[x]]
NewRow(cfg, ws, soul) == [cfg |-> cfg, ws |-> ws, soul |-> soul]
HasRow(a) == a \in DOMAIN agentRow
Writer(c) == c.op \in {"write", "put"}
Open == {c \in configCalls : c.at = "writing"}
Parses == ~corrupt /\ Open = {}
---------------------------------------------------------------------------
(* deepMerge, and what the two writers make of the list.                   *)

\* Fault: the entry's object is replaced, as the row's is.
ShallowMerge(target, source) == source
DeepMerge(target, source) == Over(source, target)

ConfigWritten(l, a, upd) ==
    IF a \in DOMAIN l THEN [l EXCEPT ![a].cfg = DeepMerge(@, upd)]
    ELSE WithUpdate(l, a, [cfg |-> upd, ws |-> FALSE])

\* A path in the entry of a sets fields of it, no update stands for a new value
\* of agents.list that leaves a out, and no agent for a path elsewhere.
ConfigPut(l, a, upd) ==
    IF a \notin DOMAIN l THEN l
    ELSE IF upd = NoCfg THEN Without(l, a) ELSE [l EXCEPT ![a].cfg = Over(upd, @)]

FileWritten(c) == IF c.op = "write" THEN ConfigWritten(c.read, c.agent, c.upd)
                  ELSE ConfigPut(c.read, c.agent, c.upd)

\* What has been set of agent b once c has been answered.
SetOnceWritten(c, b) ==
    IF b # c.agent \/ (c.op = "put" /\ b \notin DOMAIN c.read) THEN writtenBack[b]
    ELSE IF c.op = "put" /\ c.upd = NoCfg THEN NoCfg ELSE Over(c.upd, writtenBack[b])

FileCall(op, a, upd) == [op |-> op, id |-> edits, agent |-> a, upd |-> upd,
                         at |-> "reading", read |-> NoCfg, crossed |-> FALSE]
WriteCall(a, upd) == FileCall("write", a, upd)

Suspend(c) == /\ configCalls' = configCalls \cup {c}
              /\ configRaced' = (configRaced \/ \E d \in configCalls : Writer(d))
---------------------------------------------------------------------------
(* The handlers that change a row.                                         *)

Edit == edits < MaxEdits /\ edits' = edits + 1

\* POST /api/agents: the row is there whatever becomes of the write-back.
CreateAgent(a, upd, write) ==
    /\ Edit /\ ~HasRow(a)
    /\ agentRow' = WithUpdate(agentRow, a, NewRow(upd, FALSE, NoSoul))
    /\ fresh' = FALSE
    /\ savedSoul' = [savedSoul EXCEPT ![a] = NoConfigEntry]
    /\ IF write THEN Suspend(WriteCall(a, upd)) ELSE UNCHANGED <<configCalls, configRaced>>
    /\ UNCHANGED <<list, corrupt, soulFile, writtenBack, configCut>>

\* PUT /api/agents/[id]: the row first, in a shallow merge.
UpdateConfig(a, upd, write) ==
    /\ Edit /\ HasRow(a)
    /\ agentRow' = [agentRow EXCEPT ![a].cfg = upd]
    /\ fresh' = FALSE
    /\ IF write THEN Suspend(WriteCall(a, upd)) ELSE UNCHANGED <<configCalls, configRaced>>
    /\ UNCHANGED <<list, corrupt, soulFile, writtenBack, savedSoul, configCut>>

\* DELETE /api/agents/[id]: the file keeps the agent.
DeleteAgent(a) ==
    /\ Edit /\ HasRow(a)
    /\ agentRow' = Without(agentRow, a)
    /\ fresh' = FALSE
    /\ savedSoul' = [savedSoul EXCEPT ![a] = NoConfigEntry]
    /\ UNCHANGED <<list, corrupt, soulFile, configCalls, writtenBack, configRaced, configCut>>

\* PUT /api/agents with soul_content: the row alone.
SetRowSoul(a, soul) ==
    /\ Edit /\ HasRow(a)
    /\ agentRow' = [agentRow EXCEPT ![a].soul = soul]
    /\ fresh' = FALSE
    /\ UNCHANGED <<list, corrupt, soulFile, configCalls, writtenBack, configRaced, savedSoul, configCut>>

\* PUT /api/agents/[id]/soul: soul.md if there is a workspace, whose failure is
\* only logged, then the row.
PutSoul(a, soul, ok) ==
    /\ Edit /\ HasRow(a)
    /\ soulFile' = IF agentRow[a].ws /\ ok THEN [soulFile EXCEPT ![a] = soul] ELSE soulFile
    /\ agentRow' = [agentRow EXCEPT ![a].soul = soul]
    /\ savedSoul' = [savedSoul EXCEPT ![a] = IF agentRow[a].ws /\ ok THEN soul ELSE NoConfigEntry]
    /\ fresh' = FALSE
    /\ UNCHANGED <<list, corrupt, configCalls, writtenBack, configRaced, configCut>>

\* PUT /api/gateway-config, of paths that are not protected.
PutGatewayConfig(a, upd) ==
    /\ Edit
    /\ Suspend(FileCall("put", a, upd))
    /\ UNCHANGED <<agentRow, list, corrupt, soulFile, writtenBack, fresh, savedSoul, configCut>>

\* GET /api/agents/[id]/soul: soul.md, or the row when that is missing or empty.
\* Fault: the row is asked first.
ShownRowFirst(a) == IF agentRow[a].soul \notin {NoSoul, EmptySoul} \/ ~agentRow[a].ws
                    THEN agentRow[a].soul ELSE soulFile[a]
ShownSoul(a) == IF agentRow[a].ws /\ soulFile[a] \notin {NoSoul, EmptySoul}
                THEN soulFile[a] ELSE agentRow[a].soul
---------------------------------------------------------------------------
(* The steps at the file.                                                  *)

\* A file that does not parse, being written or damaged, ends the call: the
\* answer of a write-back is a warning, of a sync an error.
ReadFails(c) ==
    /\ c.at = "reading" /\ ~Parses
    /\ configCalls' = configCalls \ {c}
    /\ UNCHANGED <<agentRow, list, corrupt, soulFile, edits, writtenBack, configRaced, fresh, savedSoul, configCut>>

ReadFile(c) ==
    /\ c.at = "reading" /\ Parses
    /\ configCalls' = (configCalls \ {c}) \cup
          {[c EXCEPT !.at = IF Writer(c) THEN "writing" ELSE "read", !.read = list]}
    /\ UNCHANGED <<agentRow, list, corrupt, soulFile, edits, writtenBack, configRaced, fresh, savedSoul, configCut>>

\* The others that are open with c are crossed by its end.
Crossing(c) == {[d EXCEPT !.crossed = d \in Open] : d \in configCalls \ {c}}

\* The write ends.  Of two that were open together the later one starts at the
\* beginning of the file again and may leave the tail of the earlier behind it.
WriteFile(c) ==
    /\ c.at = "writing"
    /\ list' = FileWritten(c)
    /\ corrupt' \in {FALSE, c.crossed}
    /\ writtenBack' = [b \in AgentNames |-> SetOnceWritten(c, b)]
    /\ configCalls' = Crossing(c)
    /\ fresh' = FALSE
    /\ UNCHANGED <<agentRow, soulFile, edits, configRaced, savedSoul, configCut>>

\* writeFile fails: before it opened the file, or with the file cut.  The answer
\* of a write-back is a warning beside the row that is written.
WriteBreaks(c) ==
    /\ c.at = "writing"
    /\ corrupt' \in {corrupt, TRUE}
    /\ configCalls' = Crossing(c)
    /\ configCut' = TRUE /\ fresh' = FALSE
    /\ UNCHANGED <<agentRow, list, soulFile, edits, writtenBack, configRaced, savedSoul>>

\* The server stops: an open write may leave the file cut.
StopAtFile ==
    /\ Edit /\ configCalls # {}
    /\ corrupt' \in {corrupt, corrupt \/ Open # {}}
    /\ configCalls' = {}
    /\ configCut' = (configCut \/ Open # {})
    /\ fresh' = FALSE
    /\ UNCHANGED <<agentRow, list, soulFile, writtenBack, configRaced, savedSoul>>
---------------------------------------------------------------------------
(* syncAgentsFromConfig: at startup and on request.                        *)

StartSync ==
    /\ Edit /\ ~\E c \in configCalls : c.op = "sync"
    /\ configCalls' = configCalls \cup {FileCall("sync", NoConfigEntry, NoCfg)}
    /\ UNCHANGED <<agentRow, list, corrupt, soulFile, writtenBack, configRaced, fresh, savedSoul, configCut>>

\* mapAgentToMC: soul.md is read when the row is, and only for a workspace.
SoulRead(entry, a) == IF entry.ws THEN soulFile[a] ELSE NoSoul

\* Fault: a missing soul.md clears the soul of the row.
SyncedRowSoul(entry, a) == NewRow(entry.cfg, entry.ws, SoulRead(entry, a))
\* Fault: only agents without a row are taken over.
SyncedRowNew(entry, a) == IF HasRow(a) THEN agentRow[a] ELSE NewRow(entry.cfg, entry.ws, SoulRead(entry, a))
SyncedRow(entry, a) ==
    LET kept == IF HasRow(a) THEN agentRow[a].soul ELSE NoSoul IN
    NewRow(entry.cfg, entry.ws,
           IF SoulRead(entry, a) = NoSoul THEN kept ELSE SoulRead(entry, a))

\* One transaction over the list that was read.
ApplySync(c) ==
    /\ c.op = "sync" /\ c.at = "read"
    /\ agentRow' = Over([a \in DOMAIN c.read |-> SyncedRow(c.read[a], a)], agentRow)
    /\ savedSoul' = [a \in AgentNames |-> IF HasRow(a) THEN savedSoul[a] ELSE NoConfigEntry]
    /\ fresh' = (c.read = list)
    /\ configCalls' = configCalls \ {c}
    /\ UNCHANGED <<list, corrupt, soulFile, edits, writtenBack, configRaced, configCut>>

AcInit ==
    /\ agentRow = NoCfg
    /\ list = [a \in InWorkspace |-> [cfg |-> CHOOSE u \in Updates : TRUE, ws |-> TRUE]]
    /\ soulFile \in [InWorkspace -> {NoSoul, EmptySoul}]
    /\ corrupt = FALSE /\ configCalls = {} /\ edits = 0
    /\ writtenBack = [a \in AgentNames |-> NoCfg]
    /\ configRaced = FALSE /\ configCut = FALSE /\ fresh = FALSE
    /\ savedSoul = [a \in AgentNames |-> NoConfigEntry]

AcNext ==
    \/ \E a \in AgentNames, upd \in Updates, write \in BOOLEAN :
          CreateAgent(a, upd, write) \/ UpdateConfig(a, upd, write)
    \/ \E a \in AgentNames : DeleteAgent(a)
    \/ \E a \in AgentNames, soul \in Souls \cup {EmptySoul} :
          SetRowSoul(a, soul) \/ \E ok \in BOOLEAN : PutSoul(a, soul, ok)
    \/ PutGatewayConfig(NoConfigEntry, NoCfg)
    \/ \E a \in AgentNames, upd \in Updates \cup {NoCfg} : PutGatewayConfig(a, upd)
    \/ StartSync \/ StopAtFile
    \/ \E c \in configCalls : \/ ReadFails(c) \/ ReadFile(c) \/ WriteFile(c)
                              \/ WriteBreaks(c) \/ ApplySync(c)

AcSpec == AcInit /\ [][AcNext]_acVars
---------------------------------------------------------------------------
\* What a write-back that was answered with success has set stays in
\* openclaw.json, other agents and other fields included, until another write
\* sets it, as long as no two writers overlap: reading and writing the file are
\* separate awaits without a lock, so two that do overlap may lose one or leave a
\* file that no longer parses.  A write that fails or is cut by a stop can leave
\* such a file too, and then nothing is built on it: no later handler replaces
\* what the file last said by less.
WrittenBackStays ==
    ~configRaced => /\ corrupt => configCut
              /\ \A a \in AgentNames : \A f \in DOMAIN writtenBack[a] :
                    Listed(a) /\ f \in DOMAIN list[a].cfg /\ list[a].cfg[f] = writtenBack[a][f]

\* After a sync of the file as it is, and before the next change, every agent of
\* the file has a row with its configuration and, if its workspace has a soul.md,
\* that soul: the shallow merge of PUT, agents deleted here and rows changed
\* while a write-back failed are all repaired.
SyncRepairs ==
    fresh => \A a \in AgentNames : Listed(a) =>
                /\ HasRow(a) /\ agentRow[a].cfg = list[a].cfg
                /\ list[a].ws /\ soulFile[a] # NoSoul => agentRow[a].soul = soulFile[a]

\* A soul saved in the workspace is the one that is shown, through syncs and
\* changes of the row, until the next one is saved.
SavedSoulShown ==
    \A a \in AgentNames : HasRow(a) /\ savedSoul[a] \in Souls /\ agentRow[a].ws
                             => ShownSoul(a) = savedSoul[a]

\* A sync never takes the soul of an agent away: only a soul.md that is there
\* replaces the one of the row.
SyncKeepsSouls ==
    [][\A a \in AgentNames :
         HasRow(a) /\ agentRow[a].soul \in Souls
            /\ (\E c \in configCalls : c.op = "sync" /\ c \notin configCalls')
         => a \in DOMAIN agentRow' /\ agentRow'[a].soul # NoSoul]_acVars

\* Rows, openclaw.json and workspace files agree where the code keeps them
\* in step.
ConfigSafe ==
    /\ [](WrittenBackStays /\ SyncRepairs /\ SavedSoulShown)
    /\ SyncKeepsSouls
=============================================================================
