------------------------------ MODULE Database ------------------------------
(***************************************************************************)
(* Opening the SQLite file: getDatabase, runMigrations with its list of    *)
(* migrations, and the seeding of the first administrator.                 *)
(*                                                                         *)
(* Several Node.js processes may open one file (a server and the workers   *)
(* of a build, or a server and its replacement).  Inside a process opening *)
(* is synchronous; between processes every transaction is a step.          *)
(***************************************************************************)
EXTENDS Naturals, FiniteSets

CONSTANTS
    Procs,       \* Node.js processes
    Envs,        \* values of AUTH_PASS_B64 and AUTH_PASS
    OldReleases, \* how many migrations the file may have had so far
    MaxStops     \* bound on terminations and failed migrations

ASSUME DatabaseAssumption == OldReleases \subseteq 0..23

VARIABLES
    tables,      \* tables of the file
    columns,     \* columns added by ALTER TABLE, pairs of table and column
    applied,     \* schema_migrations
    inReview,    \* tasks with status 'review' exist
    admins,      \* usernames inserted by the seeding, with their passwords
    env,         \* the environment of the deployment
    proc,        \* the processes
    stops

dbVars == <<tables, columns, applied, inReview, admins, env, proc, stops>>
---------------------------------------------------------------------------
(* The migrations: tables they need and create, columns they add, and      *)
(* tables that get a workspace_id if they exist.                           *)

Migration(needs, creates, adds, scoped) ==
    [needs |-> needs, creates |-> creates, adds |-> adds, scoped |-> scoped]
Creates(needs, creates) == Migration(needs, creates, {}, {})

M001 == Creates({}, {"tasks", "agents", "comments", "activities",
    "notifications", "task_subscriptions", "standup_reports", "quality_reviews"})
M002 == Creates({"tasks"}, {"quality_reviews"})
\* Also moves every task in 'review' to 'quality_review'.
M003 == Creates({"tasks"}, {})
M004 == Creates({}, {"messages"})
M005 == Creates({}, {"users", "user_sessions"})
M006 == Creates({}, {"workflow_templates"})
M007 == Creates({}, {"audit_log"})
M008 == Creates({}, {"webhooks", "webhook_deliveries"})
M009 == Creates({}, {"workflow_pipelines", "pipeline_runs"})
M010 == Creates({}, {"settings"})
M011 == Creates({}, {"alert_rules"})
M012 == Creates({}, {"tenants", "provision_jobs", "provision_events"})
\* Returns at once where the table is missing, unlike the ones below.
M013 == Migration({}, {},
    IF "tenants" \in tables THEN {<<"tenants", "owner_gateway">>} ELSE {}, {})
M014 == Migration({"users"}, {"access_requests"},
    {"users"} \X {"provider", "provider_user_id", "email", "avatar_url",
                  "is_approved", "approved_by", "approved_at"}, {})
M015 == Creates({"notifications", "activities", "messages"}, {})
M016 == Creates({"agents"}, {"direct_connections"})
M017 == Creates({}, {"github_syncs"})
M018 == Creates({}, {"token_usage"})
M019 == Migration({"webhook_deliveries", "webhooks"}, {},
    ({"webhook_deliveries"} \X {"attempt", "next_retry_at", "is_retry",
                                "parent_delivery_id"})
    \cup {<<"webhooks", "consecutive_failures">>}, {})
M020 == Creates({}, {"claude_sessions"})
\* The indexes at their end need the column in every table of the list.
M021 == LET scoped == {"users", "user_sessions", "tasks", "agents", "comments",
                       "activities", "notifications", "quality_reviews",
                       "standup_reports"}
        IN  Migration(scoped, {"workspaces"}, {}, scoped)
M022 == LET scoped == {"messages", "alert_rules", "direct_connections",
                       "github_syncs", "workflow_pipelines", "pipeline_runs"}
        IN  Migration(scoped, {}, {}, scoped)
M023 == LET scoped == {"workflow_templates", "webhooks", "webhook_deliveries",
                       "token_usage"}
        IN  Migration(scoped, {}, {}, scoped)

Migrations == <<M001, M002, M003, M004, M005, M006, M007, M008, M009, M010,
                M011, M012, M013, M014, M015, M016, M017, M018, M019, M020,
                M021, M022, M023>>
Ids == 1..23

\* CREATE TABLE IF NOT EXISTS, and ALTER TABLE for columns PRAGMA does not
\* list: running a migration a second time adds nothing.
TablesAfter(i) == tables \cup Migrations[i].creates
ColumnsAfter(i) == columns \cup Migrations[i].adds
    \cup {<<t, "workspace_id">> : t \in Migrations[i].scoped \cap TablesAfter(i)}

Missing(i) == Migrations[i].needs \ tables
---------------------------------------------------------------------------
(* Seeding.                                                                *)

\* resolveSeedAuthPassword: AUTH_PASS_B64 if it decodes to something, else
\* AUTH_PASS.
ResolveSeedAuthPassword(e) ==
    IF e.b64 \notin {"absent", "invalid", "empty"} THEN e.b64 ELSE e.pass

\* Fault: the decoded password is not compared with the known defaults.
SeedablePlain(e) == ResolveSeedAuthPassword(e) # "absent" /\ e.pass # "insecure"

Seedable(e) == ResolveSeedAuthPassword(e) \notin {"absent", "insecure"}

\* INSERT OR IGNORE: username is unique.
InsertAdmin(p) ==
    IF \E a \in admins : a.name = env.user THEN admins
    ELSE admins \cup {[name |-> env.user, by |-> p,
                       password |-> ResolveSeedAuthPassword(env)]}
---------------------------------------------------------------------------
Down == [pc |-> "down", applied |-> {}]
At(p, pc) == proc' = [proc EXCEPT ![p].pc = pc]

DbInit ==
    /\ tables = {} /\ columns = {} /\ applied = {} /\ inReview = FALSE
    /\ admins = {} /\ env \in Envs
    /\ proc = [p \in Procs |-> Down] /\ stops = 0

\* The file comes from an older release: its migrations have been applied.
OldFile(n) ==
    /\ applied = {} /\ tables = {} /\ \A p \in Procs : proc[p] = Down
    /\ applied' = 1..n
    /\ tables' = UNION {Migrations[i].creates : i \in 1..n}
    /\ columns' = (IF n >= 13 THEN {<<"tenants", "owner_gateway">>} ELSE {})
          \cup (UNION {Migrations[i].adds : i \in 1..n})
          \cup {<<t, "workspace_id">> : t \in UNION {Migrations[i].scoped : i \in 1..n}}
    /\ inReview' \in BOOLEAN
    /\ UNCHANGED <<admins, env, proc, stops>>

\* getDatabase opens the file and runMigrations reads, once, what has been
\* applied.
OpenDatabase(p) ==
    /\ proc[p].pc = "down"
    /\ proc' = [proc EXCEPT ![p] = [pc |-> "migrating", applied |-> applied]]
    /\ UNCHANGED <<tables, columns, applied, inReview, admins, env, stops>>

\* Fault: every migration is run at every start.
PendingAll(p) == IF proc[p].applied = Ids THEN {3} ELSE Ids \ proc[p].applied

\* What the loop of runMigrations has still to do: it skips what it read as
\* applied, not what another process applied since.
Pending(p) == Ids \ proc[p].applied

NextMigration(p) == CHOOSE i \in Pending(p) : \A j \in Pending(p) : i <= j

\* One transaction: the migration and its row in schema_migrations.
ApplyMigration(p) ==
    /\ proc[p].pc = "migrating" /\ Pending(p) # {}
    /\ LET i == NextMigration(p) IN
         /\ Missing(i) = {}
         /\ tables' = TablesAfter(i) /\ columns' = ColumnsAfter(i)
         /\ inReview' = (inReview /\ i # 3)
         /\ applied' = applied \cup {i}
         /\ proc' = [proc EXCEPT ![p].applied = @ \cup {i}]
    /\ UNCHANGED <<admins, env, stops>>

\* Fault: the failed migration stays recorded.
RolledBackNot(p) == applied \cup {NextMigration(p)}

\* db.transaction rolls the row of schema_migrations back with its migration.
RolledBack(p) == applied

\* The migration throws: another process holds the file, the disk is full,
\* schema.sql is not where the process was started, a table is missing.  The
\* transaction is rolled back, initializeSchema throws, but the handle is
\* already set, so that this process goes on with the file as it is.
MigrationThrows(p) ==
    /\ proc[p].pc = "migrating" /\ Pending(p) # {} /\ stops < MaxStops
    /\ stops' = stops + 1
    /\ applied' = RolledBack(p)
    /\ At(p, "broken")
    /\ UNCHANGED <<tables, columns, inReview, admins, env>>

\* seedAdminUserFromEnv up to its count, and its insert.
CountUsers(p) ==
    /\ proc[p].pc = "migrating" /\ Pending(p) = {}
    /\ At(p, IF admins = {} /\ Seedable(env) THEN "seeding" ELSE "up")
    /\ UNCHANGED <<tables, columns, applied, inReview, admins, env, stops>>
SeedAdmin(p) ==
    /\ proc[p].pc = "seeding"
    /\ admins' = InsertAdmin(p)
    /\ At(p, "up")
    /\ UNCHANGED <<tables, columns, applied, inReview, env, stops>>

\* An operator moves a task to 'review'.
MoveToReview(p) ==
    /\ proc[p].pc = "up" /\ ~inReview
    /\ inReview' = TRUE
    /\ UNCHANGED <<tables, columns, applied, admins, env, proc, stops>>

\* The process is stopped or dies; the environment may be edited before the
\* first one is started again.
ProcessStops(p) ==
    /\ proc[p].pc # "down" /\ stops < MaxStops
    /\ stops' = stops + 1
    /\ proc' = [proc EXCEPT ![p] = Down]
    /\ env' \in IF \A q \in Procs \ {p} : proc[q] = Down THEN Envs ELSE {env}
    /\ UNCHANGED <<tables, columns, applied, inReview, admins>>

DbNext ==
    \/ \E n \in OldReleases : OldFile(n)
    \/ \E p \in Procs :
         \/ OpenDatabase(p) \/ ApplyMigration(p) \/ MigrationThrows(p)
         \/ CountUsers(p) \/ SeedAdmin(p) \/ MoveToReview(p) \/ ProcessStops(p)

DbSpec == DbInit /\ [][DbNext]_dbVars
---------------------------------------------------------------------------
(* Properties.                                                             *)

\* A process that has started without an error works on the whole schema:
\* every table and, in every table scoped to a workspace, the column that the
\* queries of the handlers name, whatever crashes and other processes did.
UpMeansMigrated ==
    (\E p \in Procs : proc[p].pc \in {"seeding", "up"}) =>
        /\ applied = Ids
        /\ UNION {M.creates : M \in {Migrations[i] : i \in Ids}} \subseteq tables
        /\ \A i \in Ids : /\ Migrations[i].adds \subseteq columns
                          /\ Migrations[i].scoped \X {"workspace_id"} \subseteq columns

\* A process that finds a migrated file changes neither schema nor tasks
\* while it starts: unless a process is under way that opened the file before
\* the last migration, 003's move of tasks out of 'review' is not repeated.
LateStarterChangesNothing ==
    [][/\ Ids \subseteq applied
       /\ \A p \in Procs : proc[p].pc = "migrating" => Ids \subseteq proc[p].applied
       => UNCHANGED <<tables, columns>> /\ (inReview => inReview')]_dbVars

\* Two processes that start at once seed one administrator, and never with
\* one of the published default passwords.
OneSeededAdmin ==
    /\ Cardinality(admins) <= 1
    /\ \A a \in admins : a.password \notin {"absent", "insecure"}

\* What a start of the server promises, in whatever order processes open,
\* migrate, fail and seed one file.
DatabaseSafe ==
    /\ [](UpMeansMigrated /\ OneSeededAdmin)
    /\ LateStarterChangesNothing
============================================================================
