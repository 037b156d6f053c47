----------------------------- MODULE TaskBoard -----------------------------
(***************************************************************************)
(* The task board: tasks, the quality reviews of the Aegis gate, comments  *)
(* and subscriptions, and the exchange with GitHub issues.                 *)
(*                                                                         *)
(* Handlers over the database are atomic.  Three suspend: an import waits  *)
(* for the list of issues, a close for GitHub's answer, a broadcast for    *)
(* every message it sends.  notices holds the notifications the last step  *)
(* created.  Left out: titles (a fresh one always exists), the text of     *)
(* comments and reviews, and the reopening of an issue on GitHub.          *)
(***************************************************************************)
EXTENDS Naturals, FiniteSets, Functions

CONSTANTS
    TaskIds,     \* AUTOINCREMENT ids of tasks
    Names,       \* agents and operators that can be assigned or follow a task
    Reachable,   \* the agents among them with a session_key
    NoOne,       \* assigned_to is null or ''
    Issues,      \* issues of the repository
    NoIssue,     \* metadata without github_issue_number
    Statuses     \* columns of the board

ASSUME TaskBoardAssumption ==
    /\ NoOne \notin Names /\ NoIssue \notin Issues /\ Reachable \subseteq Names
    /\ {"inbox", "done"} \subseteq Statuses

VARIABLES
    task,      \* rows of tasks
    origin,    \* per task, the issue it was imported from
    latest,    \* per task, aegis verdicts that share the newest created_at
    subs,      \* task_subscriptions
    issue,     \* GitHub: is the issue open or closed?
    syncs,     \* lists of issues fetched by imports that have not gone on
    closing,   \* issues whose close GitHub has confirmed, not yet recorded
    casting,   \* broadcast messages under way, pairs of task and agent
    notices    \* notifications the last step created

taskTables == <<task, origin, latest, subs>>
remote == <<issue, syncs, closing, casting>>
taskVars == <<taskTables, remote, notices>>

Free == [state |-> "none", status |-> "inbox", assignee |-> NoOne,
         issue |-> NoIssue, github |-> "none"]
Tasks == [state : {"none", "exists", "deleted"}, status : Statuses,
          assignee : Names \cup {NoOne}, issue : Issues \cup {NoIssue},
          github : {"none", "open", "closed"}]
Notice(to, type, source) == [to |-> to, type |-> type, source |-> source]
Notices == [to : Names, type : {"assignment", "status_change", "comment",
                                "mention", "message"}, source : TaskIds]

TaskInit ==
    /\ task = [t \in TaskIds |-> Free]
    /\ origin = [t \in TaskIds |-> NoIssue]
    /\ latest = [t \in TaskIds |-> {}]
    /\ subs = [t \in TaskIds |-> {}]
    /\ issue = [i \in Issues |-> "open"]
    /\ syncs = {} /\ closing = {} /\ casting = {} /\ notices = {}

TaskExists(t) == task[t].state = "exists"
---------------------------------------------------------------------------
(* /api/tasks.                                                             *)

\* POST: any column may be asked for, 'done' included; the form posts no
\* metadata, so the task has no issue.
CreateTask(t, by, status, assignee) ==
    /\ task[t].state = "none"
    /\ task' = [task EXCEPT ![t] = [Free EXCEPT !.state = "exists",
                                    !.status = status, !.assignee = assignee]]
    /\ subs' = [subs EXCEPT ![t] = {by} \cup ({assignee} \ {NoOne})]
    /\ notices' = {Notice(n, "assignment", t) : n \in {assignee} \ {NoOne}}
    /\ UNCHANGED <<origin, latest, remote>>

\* Fault: any verdict opens the gate.
AnyReview(t) == latest[t] # {}

\* ORDER BY created_at DESC LIMIT 1 over whole seconds: any of the verdicts
\* of the newest second may be the one that is read.
HasAegisApproval(t) == "approved" \in latest[t]

\* updateTaskSchema: .partial() keeps the defaults of createTaskSchema, so an
\* absent status becomes 'inbox' and absent metadata {}; assigned_to has no
\* default.  The edit form never sends metadata; a client that does is taken
\* to send what the row holds.
Parsed(t, body) ==
    [status |-> IF body.status = "absent" THEN "inbox" ELSE body.status,
     assignee |-> IF body.assignee = "absent" THEN task[t].assignee ELSE body.assignee,
     issue |-> IF body.metadata THEN task[t].issue ELSE NoIssue,
     github |-> IF body.metadata THEN task[t].github ELSE "none"]

\* Fault: a new assignee is not subscribed.
SubscribeNobody(t, n) == subs

\* ensureTaskSubscription.
Subscribe(t, n) == [subs EXCEPT ![t] = @ \cup ({n} \ {NoOne})]

\* PUT /api/tasks/[id]: the old assignee hears of a new status, a new
\* assignee of the task.
UpdateTask(t, body) ==
    /\ TaskExists(t)
    /\ LET new == Parsed(t, body)
           old == task[t]
           moved == new.status # old.status
           reassigned == new.assignee # old.assignee
       IN  /\ new.status = "done" => HasAegisApproval(t)
           /\ task' = [task EXCEPT ![t].status = new.status,
                 ![t].assignee = new.assignee, ![t].issue = new.issue,
                 ![t].github = new.github]
           /\ subs' = IF reassigned THEN Subscribe(t, new.assignee) ELSE subs
           /\ notices' =
                {Notice(n, "status_change", t) :
                    n \in IF moved THEN {old.assignee} \ {NoOne} ELSE {}}
                \cup {Notice(n, "assignment", t) :
                    n \in IF reassigned THEN {new.assignee} \ {NoOne} ELSE {}}
    /\ UNCHANGED <<origin, latest, remote>>

\* PUT /api/tasks: one transaction; ids that are not found are passed over,
\* one refused move rolls all of them back.
BulkUpdate(moves) ==
    /\ \A t \in DOMAIN moves :
          TaskExists(t) /\ moves[t] = "done" => HasAegisApproval(t)
    /\ task' = [t \in TaskIds |->
          IF t \in DOMAIN moves /\ TaskExists(t)
          THEN [task[t] EXCEPT !.status = moves[t]] ELSE task[t]]
    /\ notices' = {}
    /\ UNCHANGED <<origin, latest, subs, remote>>

\* DELETE: reviews, comments and subscriptions cascade.
DeleteTask(t) ==
    /\ TaskExists(t)
    /\ task' = [task EXCEPT ![t] = [Free EXCEPT !.state = "deleted"]]
    /\ latest' = [latest EXCEPT ![t] = {}]
    /\ subs' = [subs EXCEPT ![t] = {}]
    /\ notices' = {}
    /\ UNCHANGED <<origin, remote>>

\* POST /api/quality-review by aegis, in the second of the review before it
\* or in a later one; an approval moves the task.  Reviews of others only
\* add a row.
Review(t, verdict, sameSecond) ==
    /\ TaskExists(t)
    /\ latest' = [latest EXCEPT ![t] =
                    IF sameSecond THEN @ \cup {verdict} ELSE {verdict}]
    /\ task' = IF verdict = "approved"
               THEN [task EXCEPT ![t].status = "done"] ELSE task
    /\ notices' = {}
    /\ UNCHANGED <<origin, subs, remote>>
---------------------------------------------------------------------------
(* Comments and broadcasts.                                                *)

\* POST comments: author, mentioned and assignee follow the task from now on,
\* and every follower but the author gets one notice.
AddComment(t, author, mentions) ==
    /\ TaskExists(t)
    /\ subs' = [subs EXCEPT ![t] =
                  @ \cup {author} \cup mentions \cup ({task[t].assignee} \ {NoOne})]
    /\ notices' = {Notice(n, IF n \in mentions THEN "mention" ELSE "comment", t) :
                     n \in subs'[t] \ {author}}
    /\ UNCHANGED <<task, origin, latest, remote>>

\* POST broadcast: a message to every follower with a session.
Broadcast(t, author) ==
    /\ TaskExists(t)
    /\ casting' = casting \cup ({t} \X ((subs[t] \ {author}) \cap Reachable))
    /\ notices' = {}
    /\ UNCHANGED <<taskTables, issue, syncs, closing>>

\* A message was sent, or its sender failed or was killed after 10 s.
BroadcastSent(t, n, ok) ==
    /\ <<t, n>> \in casting
    /\ casting' = casting \ {<<t, n>>}
    /\ notices' = IF ok THEN {Notice(n, "message", t)} ELSE {}
    /\ UNCHANGED <<taskTables, issue, syncs, closing>>
---------------------------------------------------------------------------
(* /api/github.                                                            *)

\* External: somebody closes an issue on GitHub.
IssueClosedElsewhere(i) ==
    /\ issue[i] = "open"
    /\ issue' = [issue EXCEPT ![i] = "closed"]
    /\ notices' = {}
    /\ UNCHANGED <<taskTables, syncs, closing, casting>>

\* sync, up to its await: the issues in the state that was asked for.
FetchIssues(closedToo) ==
    /\ LET list == {i \in Issues : closedToo \/ issue[i] = "open"}
       IN  syncs' = syncs \cup {[i \in list |-> issue[i]]}
    /\ notices' = {}
    /\ UNCHANGED <<taskTables, issue, closing, casting>>

\* Fault: tasks that are done do not count as imports.
ImportedOpenOnly(i) == \E t \in TaskIds :
    TaskExists(t) /\ task[t].issue = i /\ task[t].status # "done"

\* The duplicate check: a task whose metadata names the issue.
Imported(i) == \E t \in TaskIds : TaskExists(t) /\ task[t].issue = i

\* Fault: GitHub's state is taken for a column.
ImportStatusRaw(state) == state

ImportStatus(state) == IF state = "closed" THEN "done" ELSE "inbox"

\* sync, from the list on: one task for every issue that has none.  The agent
\* the tasks are assigned to is neither subscribed nor told.
ImportIssues(list, agent) ==
    /\ list \in syncs
    /\ syncs' = syncs \ {list}
    /\ \E id \in Injection({i \in DOMAIN list : ~Imported(i)},
                           {t \in TaskIds : task[t].state = "none"}) :
         LET new == Range(id)
             from(t) == CHOOSE i \in DOMAIN id : id[i] = t
         IN  /\ task' = [t \in TaskIds |-> IF t \notin new THEN task[t]
                  ELSE [state |-> "exists", status |-> ImportStatus(list[from(t)]),
                        assignee |-> agent, issue |-> from(t),
                        github |-> list[from(t)]]]
             /\ origin' = [t \in TaskIds |->
                             IF t \in new THEN from(t) ELSE origin[t]]
    /\ notices' = {}
    /\ UNCHANGED <<latest, subs, issue, closing, casting>>

\* Fault: a refusal is taken for a confirmation.
CloseUnconfirmed(i) ==
    /\ closing' = closing \cup {i}
    /\ notices' = {}
    /\ UNCHANGED <<taskTables, issue, syncs, casting>>

\* close: GitHub closes the issue and confirms, or refuses and nothing is
\* changed.
CloseIssue(i) ==
    /\ issue' = [issue EXCEPT ![i] = "closed"]
    /\ closing' = closing \cup {i}
    /\ notices' = {}
    /\ UNCHANGED <<taskTables, syncs, casting>>

RecordClose(i) == [t \in TaskIds |->
    IF TaskExists(t) /\ task[t].issue = i
    THEN [task[t] EXCEPT !.github = "closed"] ELSE task[t]]

\* close, behind its await.
CloseRecorded(i) ==
    /\ i \in closing
    /\ closing' = closing \ {i}
    /\ task' = RecordClose(i)
    /\ notices' = {}
    /\ UNCHANGED <<origin, latest, subs, issue, syncs, casting>>
---------------------------------------------------------------------------
\* For a row without an issue, metadata that says so is {}.
Bodies(t) == [status : Statuses \cup {"absent"},
              assignee : Names \cup {NoOne, "absent"},
              metadata : {FALSE, task[t].issue # NoIssue}]

EditTasks == \E t \in TaskIds :
    \/ \E by \in Names, s \in Statuses, a \in Names \cup {NoOne} : CreateTask(t, by, s, a)
    \/ \E body \in Bodies(t) : UpdateTask(t, body)
    \/ DeleteTask(t)
    \/ \E v \in {"approved", "rejected"}, same \in BOOLEAN : Review(t, v, same)

Discuss == \E t \in TaskIds, n \in Names :
    \/ \E mentions \in SUBSET Names : AddComment(t, n, mentions)
    \/ Broadcast(t, n)
    \/ \E ok \in BOOLEAN : BroadcastSent(t, n, ok)

GitHub ==
    \/ \E closedToo \in BOOLEAN : FetchIssues(closedToo)
    \/ \E list \in syncs, a \in Names \cup {NoOne} : ImportIssues(list, a)
    \/ \E i \in Issues : IssueClosedElsewhere(i) \/ CloseIssue(i) \/ CloseRecorded(i)

TaskNext ==
    \/ EditTasks \/ Discuss \/ GitHub
    \/ \E S \in SUBSET TaskIds : \E moves \in [S -> Statuses] : BulkUpdate(moves)

TaskSpec == TaskInit /\ [][TaskNext]_taskVars
---------------------------------------------------------------------------
(* Properties.                                                             *)

\* Rows, lists and notices keep their types.
TaskTypeOK ==
    /\ task \in [TaskIds -> Tasks]
    /\ origin \in [TaskIds -> Issues \cup {NoIssue}]
    /\ latest \in [TaskIds -> SUBSET {"approved", "rejected"}]
    /\ subs \in [TaskIds -> SUBSET Names]
    /\ issue \in [Issues -> {"open", "closed"}]
    /\ \A list \in syncs : /\ DOMAIN list \subseteq Issues
                          /\ Range(list) \subseteq {"open", "closed"}
    /\ closing \subseteq Issues /\ casting \subseteq TaskIds \X Names
    /\ notices \subseteq Notices

\* "Aegis approval is required to move task to done": whoever moves it, alone
\* or with others, by hand or by a review, a task on the board enters 'done'
\* only while its newest aegis verdict can be read as an approval.
GateHolds ==
    [][\A t \in TaskIds :
          /\ TaskExists(t) /\ task[t].status # "done"
          /\ task'[t].state = "exists" /\ task'[t].status = "done"
          => "approved" \in latest'[t]]_taskVars

\* However imports, edits and deletions overlap, at most one task on the
\* board is linked to an issue, so that a close is recorded on the right one.
LinkedOnce ==
    \A t, u \in TaskIds :
        TaskExists(t) /\ TaskExists(u) /\ task[t].issue = task[u].issue
        => t = u \/ task[t].issue = NoIssue

\* A task says its issue is closed only if it is: close records nothing that
\* GitHub has not confirmed, and an import nothing it has not read.
ClosedIsClosed ==
    \A t \in TaskIds : task[t].github = "closed" =>
        task[t].issue # NoIssue /\ issue[task[t].issue] = "closed"

\* The assignee of a task follows it, and so hears of its comments and
\* broadcasts, unless the task was imported.
AssigneeFollows ==
    \A t \in TaskIds : TaskExists(t) /\ task[t].assignee # NoOne =>
        task[t].assignee \in subs[t] \/ origin[t] # NoIssue

\* "Check for duplicate: existing task with same github_repo +
\* github_issue_number": an issue is imported again only after its task was
\* deleted.
ImportedOnce ==
    \A t, u \in TaskIds :
        TaskExists(t) /\ TaskExists(u) /\ origin[t] = origin[u]
        => t = u \/ origin[t] = NoIssue

\* Tasks and issues stay consistent through overlapping imports, closes, edits
\* and deletions, and no way to 'done' goes round the gate.
TasksSafe ==
    /\ [](TaskTypeOK /\ LinkedOnce /\ ClosedIsClosed)
    /\ GateHolds
============================================================================
