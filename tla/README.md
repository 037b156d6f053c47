# Mission Control in TLA+

Mission Control is a dashboard for a fleet of agents: a Next.js server over one
SQLite file, a browser client that talks to it by HTTP, server-sent events and a
WebSocket to the OpenClaw gateway, bots that answer on Telegram, scripts that
poll it, and a privileged daemon that creates operating system users for tenants.
This directory holds TLA+ models of the parts of it that have state, concurrency
and failures of their own, the TLC runs that check them on small instances, and
TLAPS proofs, for every value of the constants, of what most of them promise.
`PROJECT.json` maps every definition to the source lines it stands for.

    tlc -workers 2 -config MCServer.cfg MCServer
    tlapm WorkProofs.tla

## 1. Inventory

What runs concurrently: one Node.js process with a synchronous SQLite driver.
Between two `await`s a handler is atomic; at an `await` (a child process, a
socket, `fetch`, a file) any other handler may run. In the browser, event handlers
are atomic in the same way. All models follow this rule: an action is the code
from one suspension to the next. The process can be killed at any suspension; rows
and files survive, suspended calls and timers do not. Several processes share the
SQLite file only while they start (`Database`).

| Component | State | Hard part | What makes it correct |
|---|---|---|---|
| Tenant provisioning (`lib/super-admin.ts`, `lib/provisioner-client.ts`, `ops/mc-provisioner-daemon.js`) | `tenants.status`, `provision_jobs`, suspended executors, commands at the daemon | a job is executed over many awaits; timeouts race answers; either process can die | one executor per job, two-person rule at every step, no live command unless allowed, settled jobs stay settled |
| Workflow pipelines (`api/pipelines`, `api/workflows`) | `workflow_pipelines`, `pipeline_runs` with a snapshot of steps | the snapshot is read before an await and written back behind it | ended runs stay ended, no step skipped, no launch for an ended run unless requests overlapped |
| Gateway connection (`lib/websocket.ts`) | refs of every hook instance, one shared connection record | late close events, timers no ref knows, several instances | one live socket per instance, handshake flag only for an accepted socket, no endless wait |
| Outbound webhooks (`lib/webhooks.ts`, `api/webhooks`) | `webhooks`, `webhook_deliveries`, a retry batch | shared failure counter; crash in a batch; pruning | a retry is sent once, chains end, events are not forgotten |
| Task board, GitHub (`api/tasks`, `api/quality-review`, `api/github`) | `tasks`, `quality_reviews`, `task_subscriptions`, links to issues | imports and closes suspend; partial updates with defaults | the Aegis gate, one task per issue, assignees follow |
| Database (`lib/db.ts`, `lib/migrations.ts`) | tables, columns, applied migrations, users | several processes, crashes between migrations | whole schema or no start, one seeded administrator |
| Accounts (`lib/auth.ts`, `api/auth`) | users, sessions, access requests | the caller's role is read before a wait | no session without user or approval, one account per person, an administrator stays |
| Rate limiter (`lib/rate-limit.ts`) | counters per address | window edges, forged headers | a bounded rate, no refusal on others' account |
| Scheduler, backups (`lib/scheduler.ts`, `api/backup`) | per task `running`, `lastRun`, `nextRun`; backup files | ticks overlap and keep an old time | one run at a time, times never go back, a backup stays |
| Agent configuration (`lib/agent-sync.ts`, `api/agents`) | row, entry of `openclaw.json`, `soul.md` | two copies, two writers of the file, awaits between read and write, writes that break | what was written back stays, a sync repairs, souls are not lost |
| Agent presence (`api/connect`, heartbeat, wake) | status, last_seen, connections | late ends of replaced connections, the offline check | heard agents are not offline, silent ones are in the end |
| Notifications (`api/notifications`, the daemon script) | rows and their delivery mark | overlapping deliveries, crash between send and mark, blocked head | marked means received, told once, delivered in the end |
| Event bus and live board (`lib/event-bus.ts`, `lib/use-*.ts`, task board panel) | the page's list | events, answers and drags out of order | the page follows the stream, polling catches up |
| Chat (`api/chat/messages`, chat panels) | messages, cards | optimistic cards, two suspensions, lost answers | sending ends, coordinators answer, no duplicates after a retry |
| Agents' replies (`lib/telegram`, `lib/ai`, `lib/memory`, `chat/omni`) | conversations, memories | a chain of external calls, each may fail | every message is answered, memories stay with their user |
| Alerts, gateways, shared files, memory files, sessions, feeds, usage | see section 2 | cooldowns, probes, files without locks, scans, incremental loads, folding | see section 3 |
| Panels that write, panels that only look | forms, lists, what is picked | refusals, lost and late answers, double submits | typed text is kept, only typed fields change, what is shown is what was picked |
| ERP bridge, search, export, standup, presentation, side services | | no protocol of their own | not modelled, section 6 |

## 2. Modules

Components:

| Module | Models |
|---|---|
| `Provisioning`, `ProvisionLifecycle` | jobs, approvals, executor, socket client, daemon; the abstract lifecycle it implements |
| `PipelineRun`, `RunLifecycle` | pipelines, templates, runs; the abstract life of a run it implements |
| `GatewayClient` | hook instances, sockets, gateway |
| `WebhookDelivery` | webhooks, deliveries, retry task, breaker |
| `TaskBoard` | tasks, reviews, subscriptions, GitHub |
| `Database` | opening, migrating and seeding by several processes |
| `Accounts` | users, sessions, access requests |
| `RateLimiter` | fixed windows, sweep, client address |
| `Scheduler` | ticks, tasks, backups and their pruning |
| `AgentConfig` | rows, `openclaw.json`, souls |
| `AgentFleet` | heartbeats, connections, wakes, offline check |
| `Notifications` | rows, deliveries, daemon, fetches |
| `LiveBoard` | bus, stream, polling, drags |
| `Chat` | posts, coordinator replies, cards, threads |
| `Lists` | `filter` and `sort` of JavaScript's arrays, for the lists of `LiveBoard`, `Chat`, `Usage`, `Sessions` and `Feeds` |
| `AgentReplies` | Telegram, War Room, agent service, memory |
| `Alerts`, `Gateways` | rules and cooldown; the table of gateways and its probes |
| `SharedFiles` | cron, tokens, `.env`, `openclaw.json` as files that are read, changed and rewritten |
| `Usage` | sources, folding and sums of token usage |
| `MemoryFiles` | memory browser and working memory |
| `Sessions` | scan, list, control, spawn |
| `Feeds` | log viewer and activity feed |
| `AdminPanels` | the panels that write, each a record of its controls |
| `Viewers` | the panels that only look, each a record of when it asks |

Proofs (section 4):

| Module | Proves about |
|---|---|
| `ProvisioningProofs` | `Provisioning`, and that it implements `ProvisionLifecycle` |
| `WorkProofs` | `PipelineRun`, and that it implements `RunLifecycle`; `TaskBoard` |
| `AgentProofs` | `Alerts`, `AgentFleet`, `AgentReplies`, `AgentConfig`, `WebhookDelivery`, `Notifications` |
| `StoreProofs` | `MemoryFiles`, `SharedFiles`, `Accounts`, `Database`, `Scheduler`, `RateLimiter` |
| `PanelProofs` | `Viewers`, `AdminPanels`, `GatewayClient`, `Gateways` |
| `ListProofs` | `Lists`, and loops and sums over lists |
| `LiveProofs` | `LiveBoard`, `Chat` |
| `FeedProofs` | `Feeds`, `Sessions`, `Usage` |

Instances for TLC: `MCProvisioning`, `MCTaskBoard`, `MCGatewayClient` and
`MCHistory` are one component each. `MCWork`, `MCServer`, `MCPanels`, `MCLive` and
`MCMessages` hold several components that share no variable. A variable `focus`
is chosen in the first state and says which of them moves; the others stay as
they started. A behaviour of such an instance is therefore a behaviour of one
component, every property keeps the meaning it has in its own module, and the
state space is the sum of the components' and not their product. The fairness of
a component is stated for the behaviours in which it moves.

Operators that no specification uses, under a comment that begins with "Fault" or
directly before the definition they vary, are plausible mistakes in it; each is
a mutation that shows that a property, or a part of one, can fail.

### Server side

*Provisioning.* `status`, `approvedBy` and `request` are the columns of
`provision_jobs` (`request` those no handler updates), `tenantStatus` is
`tenants.status`, `run` the calls of `executeProvisionJob` suspended in
`callProvisioner`, `inflight` the commands the daemon has not answered,
`allowExec` the server's `MC_SUPER_PROVISION_EXEC`, which only a restart can
change. `ExecuteProvisionJob` is the code from the first read to the first await,
`OnReply` the loop body behind it with its three ways out, `StepTimeout` the
client timer and a failed connection, `DaemonExit` a SIGTERM of the daemon. The
client's `close` handler stops the timer and settles nothing, so a run whose
socket the daemon closed is `"hung"`. Steps without `requires_root`, which
`runProvisionStep` runs locally, go to the daemon like the others: where a step runs
tells no two behaviours apart here.

*PipelineRun.* `plan`, `status`, `current` and `steps` are the columns of
`pipeline_runs`, `call` the requests suspended in `spawnStep` with the copy of the
snapshot they took. `spawnStep` suspends twice: for the import of `lib/command`
(`Importing`), behind the check of the status, and for the command itself, behind
`Launch`. `raced` collects the runs that were advanced or cancelled while another
call for them was suspended, which the pipeline tab does not prevent.

*WebhookDelivery.* `flights` are suspended `deliverWebhook` calls, `batch` the rows
the running retry task has still to send. Any set of scheduled rows may be due, and
they are sent in any order: the query of the retry task has no `ORDER BY`.

*TaskBoard.* `origin` remembers the issue a task was imported from. `latest` holds
the aegis verdicts of the newest second, because `ORDER BY created_at DESC LIMIT 1`
orders whole seconds. `Parsed` is the request body behind zod: `.partial()` keeps
the defaults of the schema, so an absent status is `inbox` and absent metadata `{}`.

*Database.* A migration is what it creates, alters and needs. Between processes
every transaction is a step; the list of applied migrations is read once, before.

*Accounts.* Administration handlers are two steps: who calls, and the write.
`unguarded` notes the cases in which the guards did not see what was written: the
caller was no administrator any more, an approval lowered a role, or the role was
the empty text, which is falsy to the guards and a role to `updateUser`.

*Scheduler.* A tick is a cursor over the tasks with the minute it started in.

*AgentConfig.* `configCalls` are handlers waiting for `openclaw.json`: write-backs,
syncs and PUT `/api/gateway-config`, which rewrites the same file. While it is
written it is truncated, and a read of it fails to parse; `WriteBreaks` and
`StopAtFile` are a write that fails and a stop of the server, which can leave it so
(`configCut`). `configRaced` notes that two writers overlapped.

*AgentFleet, Notifications.* One step per handler, except wakes and sends, which
wait for the gateway. Time is the age of a heartbeat; ids stand for creation order.

*AgentReplies.* A job per message, a stage per wait. A text is the set of names in
it. `HistoryOf` takes the first rows of the conversation, as the query does.

*Alerts.* One step per handler. A PUT changes the condition, the cooldown (also to
none, it is not validated), the switch and whether the rule's `action_config` can make
a notification (`tells`); one that cannot is caught, and the rule counts and goes into
its cooldown all the same.

*Gateways.* A PUT names any of name, address, primary flag and status (`GwBodies`). A
probe reads the list once, in the order of the query, and then waits for one gateway
after the other; it skips a blocked address. `outcomes` are what probes came to at an
address, `addrsOf` and `setByHand` the addresses and statuses a row was ever given.

*SharedFiles.* One step per await: read and change, truncate, fill, and the rename of
`.env`. `mixed` are files two handlers were at together or a write failed at. The
configuration of the gateway is its leaves; an update names a leaf or a path above some
(`LeavesBelow`), and the route refuses only what begins with the password's own path.

*Usage.* What changes usage is an action; what is asked about it, from the loading of
records to the breakdowns, are operators on the state. `postedUsage` is a history of
all records posted. A missing model or part of a session id is `"none"`.

### Browser side

*GatewayClient.* One record `hook[h]` per caller of `useWebSocket`; `isConnected`
is the shared store. `lost` counts pending timers whose ref was overwritten or
never kept. `Heartbeat` fires only while no reconnect timer is pending: a timer
fires within 45 s, and a heartbeat just started needs longer to miss a pong.

*LiveBoard.* One page and one list; a fetch is asked, answered and applied in three
steps, in any order with events and drags. A fetch brings the newest `PageLimit` rows,
50 in the code; those of one second are taken in the order of their ids, since the query
orders by `created_at` only. `leftOut` are the rows no list had room for. `apart` notes
what the code cannot repair by the stream alone.

*Chat.* A card has the positive id of its row or the negative one it was given
while the request is under way. The threads the panel lists include the
coordinator's; a message typed there has no recipient (`HasRecipient`) and is stored
without anything being asked of the coordinator.

*AdminPanels, Viewers.* What tells the panels apart is control: which fields a
save sends, whether the button is disabled meanwhile, when the form closes, how a
delete names its row; when a viewer asks, whether it polls and pages. Each panel
is a record of these, read off its source lines, and the actions are the same. `busy`
says who knows that a save is under way: the panel, the form, which is forgotten when
it is closed and opened anew (`orphans` are its saves then), or nobody. `stores` says
whether the handler writes a row by one statement or reads, awaits and rewrites a file
(integrations, cron): there a request has its copy of the file (`FileRead`), and so has
the other administrator's. Of a panel with several forms one is open at a time.

*MemoryFiles, Feeds, Sessions.* Requests under way are sets; answers come in any
order. A text remembers the file it was begun in, a log line the row it came from.
`crossed` notes that a file was opened while another was being edited or saved: Cancel
is not disabled during a save. Times of a feed are in half milliseconds, because a JSON
line keeps its `timestamp` as it is while `since` goes through `parseInt`
(`WholeTime`); a line may have no time, or a text for one, which compares with nothing
(`TextTime`). The gateway's entries carry the gateway's own time.
JavaScript's sort is stable: entries of one time stay in the order they were read in,
by directory and by place in the file, which `Precedes` says.

## 3. Runs

What a component promises at every state and step is one property, the
conjunction of named parts that are stated, commented and read one by one; what
must happen in the end is a property each. `X` = `P`, `Q` says that property `X`
is the conjunction of `P` and `Q`.

| Run | Checks | Bounds and why they are enough |
|---|---|---|
| `provisioning` | `OneRunPerJob`, `LiveRunIsTwoPerson`, `OnlyLiveCommandsExecute`, `DisabledMeansDry`, `OrphanedIsStuck`, `ImplementsLifecycle` | two jobs, two runs, two administrators, one daemon exit, one crash after which the switch may differ: every pair of actors can overlap and each failure can hit each step of full plans |
| `provisioning_serial` | `RunsSettle` = `TransitionalTenantHasLiveRun`, `RunningJobSettles` | fair, two jobs of every kind, one run request at a time, server and daemon stay up: without these both are false |
| `work` | `TasksSafe` = `TaskTypeOK`, `LinkedOnce`, `ClosedIsClosed`, `GateHolds` | three tasks, one issue, any number of overlapping imports, the default, the gated and one other column |
| | `PipelineSafe` = `PipeTypeOK`, `StepsInOrder`, `SnapshotMatchesStatus`, `SpawnedOnce`, `EndedIsFinal`, `NoSpawnAfterEnd`, `ImplementsRunLife` | one run, two suspended calls, up to three steps with both failure policies, one crash |
| | `SessionsSafe` = `ActiveWasScanned`, `ListedOnceAndNewest`, `LoggedMeansDone`, `PendingSpawnIsUnderWay` | two sessions, two agents with stores, three operations |
| `server` | `DatabaseSafe` = `UpMeansMigrated`, `OneSeededAdmin`, `LateStarterChangesNothing` | two processes, two stops, files of two older releases and none, four environments |
| | `AccountsSafe` = `AccTypeOK`, `NoOrphanSession`, `OneAccountPerPerson`, `AnAdminStays`, `SessionNeedsApproval` | three accounts, one newcomer, one session, two suspended calls of each administrator |
| | `RateLimitSafe` = `RateBounded`, `RefusedForItsOwn` | two clients, one proxy, a window of one tick with two requests, four ticks: both edges of a window and the sweep |
| | `SchedulerSafe` = `OneTickPerTask`, `HungTasksDelayLittle`, `ABackupStays`, `LastRunNeverGoesBack` | three tasks of different intervals, five minutes, three manual backups of which two are kept |
| | `ConfigSafe` = `WrittenBackStays`, `SyncRepairs`, `SavedSoulShown`, `SyncKeepsSouls` | two agents, one with a workspace, two fields, two souls, three edits, stops among them, and any number of failing writes |
| | `HookSafe` = `HookTypeOK`, `RetriedOnce`, `ChainEnds`, `NoOrphanRows`, `EventNotForgotten` | two events, three attempts, five rows of which three are kept, so that pruning happens (the last part excepts behaviours with a crash or pruning), two administrator operations, one crash |
| | `AssigneeFollows` | one task, two people, one issue: followers of different tasks do not meet |
| | `UsageSafe` = `UsageCountedOnce`, `BreakdownsAddUp`, `NewestUsageKept` | three records of every source, a limit of two, two hours |
| `panels` | `FormsSafe` = `SubmittedIsKept`, `OneRowPerForm`, `OnlyTypedFieldsChange` | all panels, two requests under way, two of them saves, clicks or deletes, one refusal or loss, another administrator: a save of a form closed and opened anew, and two handlers with copies of one file, fit in |
| | `MemorySafe` = `TextsStayInTheirFile`, `AppendsKept` | two files, three operations of which two are under way, two appends |
| | `FeedsSafe` = `ShownOnceById`, `LineShownOnce` | two items and one entry of the gateway, times 4 to 6 in half milliseconds with older, undated and text ones, a cap and a limit of two, overlapping full and tail loads |
| | `ConnectionSafe` = `GatewayTypeOK`, `OneLiveSocket`, `HandshakeMeansAccepted`, `MissedPongsAreReal`, `NoRetryAfterRefusal` | page, header and panel, two sockets each, one lost timer, smaller limits, two clicks: a second connect while the first socket still closes is reached by them only |
| | `GatewaysSafe` = `OnePrimary`, `StatusIsItsOwn`; `QuietInCooldown` | two gateways, two names, two addresses of which one is blocked, one edit by hand, two overlapping probes: a result can come after a removal, a move or another result; one rule on one agent or on sessions, three minutes, cooldowns of two and none, three firings |
| | `FilesSafe` = `QuietFileIsRight`, `EnvIsWhole`, `GatewayKeepsPassword` | two handlers, three calls, one crash or failed write, updates of leaves and of both paths above the password |
| `live` | `FleetSafe` = `OneLiveConnection`, `ConnectionHasAgent`, `HeardIsNotOffline`, `ConnectedStaysUp`; `SilentGoesOffline` | two agents, four calls, a timeout of one tick |
| | `StreamKeepsInStep`, `PollingCatchesUp` | two rows and lists of one, so that a list leaves a row out, two overlapping fetches, one attempt to reconnect before the stream is given up; `Budgets` are two mutations with two broken links, two with a drag, or one with a drag and two broken links |
| | `ChatSafe` = `SendingIsUnderWay`, `CoordinatorAnswers`, `RetryShowsOnce`; `SendSettles` | two sends, an agent's thread and the coordinator's, one lost answer |
| | `EventSettles` | two events, three attempts, behaviours with a crash or pruning excepted by the formula |
| | `LostConnectionSettles` | the page alone with the code's own limits, ten attempts and three pongs |
| `messages` | `DeliverySafe` = `DeliveredMeansReceived`, `ToldOnce`; `WaitingIsDelivered` | two notifications, two recipients, two callers, a batch of one so that its limit matters |
| | `RepliesSafe` = `MemoryStaysWithUser`, `AnswerFollowsQuestion`, `SilentUnlessNamed`; `EveryJobAnswers` | two messages out of nine kinds, one failed call |
| | `ViewersSafe` = `SettledShowsPicked`, `TitleIsTrue`; `PollingRepairs` | eight viewers, two picks, two loads under way, one failure |
| `gateway_manual`, `tasks_import`, `panel_deletes`, `notifications_daemon`, `history` | `ManualReconnectWorks`, `ImportedOnce`, `DeleteButtonWorks`, `WaitingIsDelivered`, `HistoryIsRecent` (fail) | the least that shows the disagreement |

All invariants and action properties of the runs that pass are also proved for all
sizes, so that their bounds only have to be large enough for the runs to mean the same
as the proofs; the bounds of the liveness properties matter.

Deadlock is not checked: every component may rest, and counters of failures,
calls and clicks are bounded.

### Disagreements the runs show

- The reconnect badge has a hook instance without an address, so the manual
  reconnect the log asks for does nothing (`ManualReconnectWorks`).
- An edit drops a task's link to its issue and the next import duplicates it
  (`ImportedOnce`).
- Six panels name the row to delete in the query, as the handlers' comments say;
  the handlers want a body (`DeleteButtonWorks`).
- The notification daemon sends neither cookie nor API key and is turned away at
  the proxy (`WaitingIsDelivered` with `DaemonAuthorized = FALSE`).
- The "recent" history given to a model is the oldest twenty rows
  (`HistoryIsRecent`).

Others met while modelling, without a run: leaving the gateways panel marks the
page's live connection as disconnected (`lib/websocket.ts:615`); the handshake
signs the gateway's nonce and leaves the result out of the request
(`lib/websocket.ts:172-239`); an alert "status equals offline" never fires,
because offline agents are not looked at (`api/alerts/route.ts:263`); a chat
message whose event overtakes its answer is shown twice (`store/index.ts:730`);
an activity of the second in which a load was made can be missed by the next
incremental load; the standup panel asks for `/api/standup/history`, which has no
route, and the report of one workspace replaces another's of the same date
(`api/standup/route.ts:185`); the unread counter of the store only grows
(`store/index.ts:684-704`); the orchestration bar posts `content` where the
handler wants `message` (`orchestration-bar.tsx:91`, `validation.ts:120`); the
Telegram webhook and the ERP bridge are behind the same proxy that wants a cookie
or key; the daily report of CLAWDIO selects a column `tasks` does not have
(`lib/telegram/processor.ts:26`); creating a memory file in a new directory
always fails; an administrator can demote themselves with the role `""`, also the last
one, in spite of "Prevent demoting yourself" (`auth/users/route.ts:99`); an update of
`gateway.auth` drops the password in spite of "CRITICAL: Preserves
gateway.auth.password" (`gateway-config/route.ts:52`); a message typed into the
coordinator's thread in the chat panel gets no reply in spite of "Coordinator mode
should always show visible coordinator feedback in thread"
(`chat/messages/route.ts:366`); a full fetch of the board drops cards beyond the newest
fifty that the stream had shown (`tasks/route.ts:36`); the answer to a save that was
cancelled shows its text under the name of the file opened since
(`memory-browser-panel.tsx:142`).

### What holds only under conditions

- Pipelines: with overlapping requests an agent is launched twice for a step, a
  cancelled run's snapshot can show a running step, and a cancel that comes while an
  advance waits for its import is followed by the launch; `SnapshotMatchesStatus`,
  `SpawnedOnce` and `NoSpawnAfterEnd` leave out runs in `raced`. An advance that meets
  the suspended start, or follows a crash in it, passes over the first step.
- Provisioning: a failed dry run sets the tenant to `error`; two jobs of a tenant
  overwrite its status; a job whose executor is lost stays `running`
  (`OrphanedIsStuck`).
- Webhooks: a retry batch goes on after the breaker disabled its webhook; a crash
  during a batch, and pruning, lose scheduled retries.
- Tasks: one may be created in, or imported into, `done` without a review; an old
  approval stays valid when a task is reopened.
- Accounts: an administrator demoted while a call of theirs waits for its body
  still writes, an approval can lower a role, and the empty role passes the guards;
  each can leave no administrator (`unguarded`).
- AgentConfig and SharedFiles: handlers that overlap on a file can lose an update
  or leave a file that does not parse, and so can a write that fails or is stopped,
  except for `.env`. The gateway keeps its password unless an update replaces a path
  above it.
- Notifications: overlapping deliveries tell an agent twice; a full batch of
  recipients without a session blocks those behind it.
- LiveBoard: a list fetched before an event and applied after it stays wrong while
  the stream is up, since polling is then paused; rows beyond the newest fifty of the
  last list are not shown, and polling shows the newest fifty.
- Chat: a message without a recipient in the coordinator's thread has no reply.
- MemoryFiles: selecting another file while editing saves the text into that file,
  and while a save is under way shows one file's text under the other's name; the
  property is about users who finish with one file first (`~crossed`).
- AdminPanels: forms that send the whole row overwrite concurrent edits, and so do the
  handlers that rewrite a file; forms whose button stays enabled make two rows; where
  only the form knows of its save, cancelling and reopening gives an enabled button
  and a later answer closes the new form with what was typed; the SOUL and memory tabs
  lose the text of a refused save.
- Feeds: lines are repeated after an overtaken tail, a line with a fraction in its time,
  or an entry on top that is older than a line shown (`overlapped`, `oddTimes`).
- Alerts: a rule whose notification cannot be made counts and falls silent.
- Viewers: where nothing polls, an overtaken answer stays on the screen.
- Gateways: a new primary with a taken name is refused and leaves none; an older probe
  may overwrite a newer, the result of an old address what is true at the new one, and
  any probe a status given by hand.
- Sessions: a scan that finds nothing leaves the last session active; a spawn that
  completed is shown as failed when the history fetch throws.
- Usage: two identical heartbeats of one second count once.
- AgentReplies: a reply Telegram refuses is only logged, and a crash after the
  webhook was acknowledged loses the message.

### Fairness

- Provisioning: `OnReply` and `StepTimeout`; Node's event loop delivers data and
  fires timers. Nothing is assumed of the daemon or of administrators.
- GatewayClient: timers fire; a socket that is closing, or that the gateway dropped,
  reaches its close event (`MustClose`); the gateway goes on with a handshake or closes
  the socket it refused. The code has no timer for a handshake, so without this the
  page can wait for ever.
- WebhookDelivery: requests settle (the abort timer bounds the headers; the end of
  a body is assumed) and the retry task runs every minute.
- AgentFleet: time passes and the scheduler's check runs. Agents need not call.
- LiveBoard: the interval of a visible page fires, requests are answered or fail,
  events on an open stream arrive, timers fire. The stream itself may break.
- Chat: server steps go on, each external command has a timeout, answers or
  failures reach the browser.
- Notifications: the daemon is started again after a stop and loops, its call is
  answered, each send ends by its timeout. Sessions may never appear.
- AgentReplies: each external call ends in an answer or a failure.
- Viewers: the server answers its oldest request, the interval fires.

## 4. Proofs

The proof modules prove, for all values of the constants that meet the named
assumption of each module, what the runs check on a small instance. Each section
of them has an inductive invariant, one lemma per action (or per group of actions
that change the same thing), the theorem that the invariant always holds, and the
theorem about the properties. The inductive invariants were checked by TLC first.
None of the properties is inductive as it stands; what each invariant adds is what
makes the code right.

**Provisioning** (`ConstantsAssumption`: `NoOne` is no administrator, run or job;
bodies have their types).

- `TypeCorrect`, `AtMostOneExecutor`, `TwoPersonThroughout`,
  `CommandsFollowTheJob`: `Spec => []P` for `TypeOK`, `OneRunPerJob`,
  `LiveRunIsTwoPerson`, `OnlyLiveCommandsExecute`;
- `SwitchedOff`: `Spec => []DisabledMeansDry`, across restarts that change the
  switch;
- `SettledForEver` (completed and cancelled jobs keep their status, `SettledIsFinal`)
  and `OrphansStayRunning` (`OrphanedIsStuck`), the two action properties;
- `Refinement`: `Spec => ImplementsLifecycle`.

`OnlyLiveCommandsExecute` needs to know that every command still at the daemon is
the one its run awaits (`CommandInv`): a timeout closes the socket and thereby
takes the command off before the run can go on. `OneRunPerJob` and
`LiveRunIsTwoPerson` need that a suspended run has a job, a step of that job's plan
and an administrator (`RunInv`), and that a row that exists has a request
(`QueuedHasRequest`); the two-person rule survives because no branch of
`transitionProvisionJobStatus` accepts a running job, so `approved_by` cannot change
under a run. `IndInv` is their conjunction. `SwitchedOff` adds `SwitchInv`: a
suspended live run exists only in a server whose switch is on, because the executor
asks before its first await and a restart leaves no run. The refinement uses the
same invariant to match each action with a step of the lifecycle or a stutter.

**Pipelines** (`PipelineAssumption`: lists of steps are sequences of at most
`MaxSteps`). `PipelineCorrect`: `PipeSpec => PipelineSafe`, with `EndedIsFinalHolds`
and `NoSpawnAfterEndHolds` for its two action properties. `SnapshotMatchesStatus`
depends on what a suspended request will write: `CallMatchesRow` says that, without
a race, a run has at most one such request and its copy is the snapshot one step on;
`NoneAhead`, that a step behind the current one was launched only by that request;
`CurrentLaunched`, that the current step was launched, its template is gone, or a
request for it still waits. What a launch needs is known before it, at the import
(`BeforeLaunched`, `LaunchIsNew`).
`RunLifeRefinement`: `PipeSpec => ImplementsRunLife`. A run of `RunLifecycle` is its
plan, its state and the outcomes of the steps it has taken; the row has them in
`steps_snapshot` before `current_step`. An advance that launches an agent changes
none of it until the request resumes, and its late write is then one step of that
life because its copy says of all earlier steps what the row says (`CopyInv`). A run
with overlapping requests is mapped to `astray`: there a stale copy does rewrite
outcomes.

**Task board** (`TaskBoardAssumption`: `inbox` and `done` are columns, `NoOne` and
`NoIssue` are neither names nor issues). `TasksCorrect`: `TaskSpec => TasksSafe`
(with `GateHoldsAlways` for the action property: no request, import or close takes
a task to `done` round the Aegis gate); `AssigneeAlwaysFollows`:
`TaskSpec => []AssigneeFollows`. `ClosedIsClosed` needs that what a suspended import
or close knows of GitHub is still so when it is applied (`ListsAreTrue`,
`ClosesAreTrue`).

**Gateways** (`GatewayClientAssumption`: a hook instance is used by the page, the
header or the panel and by one of them only; limits of attempts and pongs are
positive). `ConnectionCorrect`: `GatewaySpec => []ConnectionSafe`. The refs of
`useWebSocket` and its sockets are tied by `SocketInv` (a socket that is not yet
closing is the one in `wsRef`), `HandshakeInv`, `HeartbeatInv` (what is remembered
of an earlier socket is gone by the close event) and `PageInv` (the page's timer and
socket exclude each other). `GatewaysCorrect` (`GatewaysAssumption`: names are numbers,
which stand for their order): `GwSpec => []GatewaysSafe`. A probe holds rows as they were
read; that it asks at an address its row has had (`AsksItsOwn`) survives moves and
removals because what a row was given is never forgotten and ids are not used again
(`NothingForgotten`).

**Deliveries** (`WebhooksAssumption`, `NotificationsAssumption`: positive limits).
`WebhooksCorrect`: `HookSpec => []HookSafe`. A retry is sent once because an id is at
one place at a time, scheduled, waiting in the batch, under way or answered
(`OnceInv`), which in turn needs that ids are never used twice (`RowsInv`) and one
batch runs at a time (`QueueInv`). Chains end because whatever may still be retried
has an attempt left (`AttemptsInv`). `NotificationsCorrect`:
`NoteSpec => []DeliverySafe`. Behind `ToldOnce` is `QuietInv`: as long as no
deliveries overlapped and no outcome was lost, one delivery sends at a time and
nothing in its batch has reached anybody.

**Agents** (`AlertsAssumption`, `AgentFleetAssumption`, `AgentRepliesAssumption`:
positive cooldowns, bounds that are numbers). `AlertsCorrect`: `AlertSpec =>
[]QuietInCooldown`, because the stamp of a rule is the time of its last announcement or
later, whatever cooldown it was edited to (`StampInv`). `FleetCorrect`: `FleetSpec =>
FleetSafe`, from ids that are never used twice (`FleetTypeInv`). `RepliesCorrect`:
`ReplySpec => []RepliesSafe`: the stage of a job and the rows of its conversation say
the same of how far it got (`TalkInv`), so an answer is stored once and behind its
question. `ConfigCorrect`: `AcSpec => ConfigSafe` (`AgentConfigAssumption`: a soul is
none of the markers for no soul; nothing is assumed of what an update contains). Without
a race there is one writer at the file, write-back or PUT, it writes what it read, which
is still the list, and only a write that broke leaves a file that does not parse
(`AloneAtTheFile`); a saved soul is in its workspace, whether the row still says so or
not (`SoulsInWorkspace`), so a synchronisation finds it again.

**Stores** (`MemoryFilesAssumption`, `SharedFilesAssumption`, `AccountsAssumption`,
`DatabaseAssumption`: bounds that are numbers, `admin` is a role, an older
release has applied a prefix of the 23 migrations).

- `MemoryCorrect`: `MemSpec => []MemorySafe`. A text on its way to a file, or from
  it, was begun in that file (`EditAndWireInFile`), and while one is edited or saved no
  other file is being opened or shown (`OneFileAtATime`), unless the user turned to
  another one before that.
- `FilesCorrect`: `FileSpec => []FilesSafe`. A file on which calls did not overlap has
  at most one call at work, whose copy is what that call makes of the file's history
  (`Calm`); `.env` is never truncated outside an overlap since its copy waits in the
  temporary file; every copy of `openclaw.json` at work has the password and all else
  that no update has replaced a path above of (`ConfigWhole`), overlapping or not.
- `AccountsCorrect`: `AccSpec => AccountsSafe`. One account per person is an invariant
  only of identities whose e-mail nobody typed into another row, and needs that both
  columns by which a login finds a row, `sub` and e-mail, lead to the same one
  (`RowsAreFound`).
- `DatabaseCorrect`: `DbSpec => DatabaseSafe`. Applied migrations have left their
  tables and columns in the file (`SchemaHas`), a process knows of no more than are
  applied (`ProcsKnowLess`), and whoever is about to seed would seed the
  administrator there is (`SeedingInv`). Migration 013 is the only one whose columns
  depend on the file.
- `SchedulerCorrect`: `SchedSpec => SchedulerSafe` (`SchedulerAssumption`: no task is
  twice in the Map and the backup, whose files others list, is its first entry). A
  tick that waits for a task has the task marked and came when it was due; each tick
  since a task became due still waits, for a task further to the front (`HeldUp`), and
  two ticks never wait for the same one, so a hung task delays the others by at most
  as many minutes as there are tasks before them. A backup stays because no other one
  has the name of the one under way (`NamesApart`).
- `RateLimitCorrect`: `RlSpec => []RateLimitSafe` (`RateLimiterAssumption`: the proxies
  are not among the clients). Windows of a key do not overlap, so a stretch of a
  window's length meets two of them: the present one, which the entry counts
  (`CountsWindow`), and one before it; without an entry nothing is left to count
  (`QuietSince`). `RefusedForItsOwn` speaks of a server behind trusted proxies:
  without them all clients have the one key `unknown`.

**Panels** (`ViewersAssumption`, `AdminPanelsAssumption`: the panels are those read
off the source, a page has rows, bounds are numbers).

- `ViewersCorrect`: `ViewSpec => []ViewersSafe`. While nothing failed and no answer was
  overtaken, from some load of a part on all are for what is picked, and a part for
  which nothing is under way shows it already (`FollowInv`).
- `FormsCorrect`: `PanelSpec => FormsSafe`. A value the user typed may come back into
  the form from the rows and is then overwritten without a trace; nothing is lost,
  because whatever copy of the rows exists holds of the user's values accepted ones only
  (`IsRows`), copies of a file that a handler holds included. A panel that is busy
  itself has one save under way (`OneSave`), and what that save did not take along of
  the form was accepted before (`TypedGoesOut`). A form that is busy has one save of its
  own, besides those of forms it replaced (`OneOwn`); a new row is made once per form
  because copies and answers nobody heard balance (`RowsInv`).

**Live board and chat** (`LiveBoardAssumption`, `ChatAssumption`: agents' threads
are among the panel's, bounds are numbers; the coordinator's may be among them).

- `StreamCorrect`: `View = "tasks" /\ LiveSpec => []StreamKeepsInStep`. As long as page
  and table have not come apart there is a history of tables, one behind each event on
  its way, that leads from what the page shows to the table without the rows no list had
  room for (`InStepInv`, `Follow`); ids grow (`Numbered`), so a row added since the last
  list is newer than all of it and stays. The theorem is for the task board: the store
  has no case for the deletion of an agent.
- `ChatCorrect`: `ChatSpec => []ChatSafe`. No two requests have the same row, and
  nothing of a row is in the browser before it is stored (`CallsInv`, `ListsInv`);
  therefore a row that replaces another message's card does not add a second card of a
  message that was sent by a retry (`RetriedInv`), and the end of a request leaves no
  card on its way that only this request could tell (`EndKeeps`).

**Lists.** Live board and chat rest on what filtering a list keeps and in which order
(`FilteredFacts`, `FilteredOrder`), the next section also on what sorting gives:
`RankedFacts`, every element of a finite set once and in its order, if that order is
total. `Lists` defines filtering by a recursive function, sorting by how many elements
come before. The lemmas hold for lists of any length and are proved not by an induction
theorem of the library, which needs an operator as a parameter, but from a shortest
counterexample (`SmallestOf`). In the same way `Iterated` gives a loop over a list its
run, and `SumsExist` and `SumsAdd` say what the adding up of a field is.

**Feeds, sessions, usage** (`FeedsAssumption`, `SessionsAssumption`,
`UsageAssumption`: the cap and the limits are positive, bounds are numbers, no
directory lists a name twice).

- `FeedsCorrect`: `FeedSpec => []FeedsSafe`. What the server reads has every line once
  and, unless a line has a text for its time, newest first (`RecentFacts`), and stays
  true of the store while it is under way (`ReadingsInv`). No dated line is repeated
  because, until a tail is applied
  that was asked for before another answer came, or a time is met that is no whole number
  or behind a line's (`Strange`), no line on the page is later than the top entry
  (`TopIsNewest`) nor later than the time a tail that is not late was asked from
  (`TailsAreNewer`), and a tail brings only lines later than that.
- `SessionsCorrect`: `SessionsSpec => []SessionsSafe`. That the list has each session
  once, and as new as any entry of the stores, is no matter of history: it follows
  from the types, by an invariant of the loop that deduplicates (`KeepsNewest`,
  `DeduplicatedFacts`), whatever the stores hold. The activity log is right because a
  command that acted is in what the gateway did (`ActedInv`) and only those exit with
  0; a pending spawn has a call because a call ends, or goes on to the history, only
  after it has settled its request (`SettledInv`).
- `UsageCorrect`: `UsageSpec => []UsageSafe`. Folding leaves the first record of each
  kind and no other (`DedupeFacts`). Breakdowns add up because filtering by one group
  and by the rest splits a sum (`MeasureUnion`), taken group by group (`GroupsAddUp`),
  and an hourly trend of a period within a day leaves nothing out (`DayOfHour`). The
  file has a prefix of what was posted; what it lost was cut at the limit or too
  old for a clean-up, since posts come in the order of the clock (`PostedInv`,
  `KeptInv`).

### What is only model-checked

Liveness: `RunsSettle`, `SilentGoesOffline`, `PollingCatchesUp`, `SendSettles`,
`EventSettles`, `LostConnectionSettles`, `WaitingIsDelivered`, `EveryJobAnswers`,
`PollingRepairs`. Liveness under fairness is out of the prover's reach. All else the
passing runs check is a theorem.

## 5. Plan

Modelled and checked: every component of section 1 but those of section 6. Proved:
section 4. Two components have an abstract specification they implement, the job row
of provisioning and the life of a pipeline run; the others promise what their
properties say.

No module declares a RECURSIVE operator, so all of them are open to proofs.

## 6. Not modelled

- What the provisioning commands do to the host, the `sudo` mode, and the event and
  audit logs: effects outside the program, or append-only text.
- The contents of prompts, answers, webhook payloads and signatures, prices and
  charts: data no property tells apart.
- ERP bridge, search, export, standup: single statements or queries without a
  protocol; their disagreements are listed in section 3.
- The presentation (`components/dashboard`, `layout`, `office-panel`), which renders
  the store; `src/index.ts`, `src/nav-rail.tsx`, `src/page.tsx` and
  `src/live-feed.tsx`, older copies that nothing imports.
- `mem0-server`, `openclaw-server`: separate services, external to the models.
- `auth/me`, read marks, conversation lists, agent templates, integration tests
  and manual cron runs: reads, or single writes of data of one user.
