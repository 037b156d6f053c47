--------------------------- MODULE Provisioning ---------------------------
(***************************************************************************)
(* Tenant provisioning: the job table, its approval workflow, the          *)
(* asynchronous executor inside the Next.js server and the privileged      *)
(* provisioner daemon it talks to over a Unix socket.                      *)
(*                                                                         *)
(* The server is one Node.js process over a synchronous SQLite driver, so  *)
(* a handler is atomic between two awaits; executeProvisionJob suspends    *)
(* once per plan step, while it waits for the daemon.  Every run request   *)
(* gets a socket of its own per command.                                   *)
(***************************************************************************)
EXTENDS Naturals, Sequences, FiniteSets

CONSTANTS
    Tenants,        \* tenants by slug; slug and linux_user are UNIQUE columns
    Admins,         \* administrators, the only callers of these routes
    JobIds,         \* AUTOINCREMENT job ids; a fresh one is taken per insert
    Runs,           \* run requests that can be in flight at the same time
    NoOne,          \* SQL NULL in approved_by, and no job in an idle run
    NoRequest,      \* the row of an id that has not been allocated
    DecommissionBodies, \* bodies posted to /tenants/[id]/decommission
    JobBodies,      \* bodies posted to /api/super/provision-jobs
    MaxDaemonExits, \* bound on terminations of the provisioner daemon
    MaxCrashes      \* bound on terminations of the server

\* The keys of the steps the two plan builders write; "custom" stands for a
\* step of a plan posted by an administrator.
StepKeys ==
    {"create-linux-user", "create-openclaw-state", "create-workspace-root",
     "seed-openclaw-template", "set-owner-home",
     "ensure-openclaw-tenants-dir", "install-gateway-systemd-template",
     "install-tenant-gateway-env", "systemd-daemon-reload",
     "enable-start-gateway", "disable-stop-gateway",
     "remove-tenant-gateway-env", "remove-openclaw-state-dir",
     "remove-workspace-dir", "remove-linux-user", "custom"}

ASSUME ConstantsAssumption ==
    /\ NoOne \notin Admins /\ NoOne \notin Runs /\ NoOne \notin JobIds
    /\ MaxDaemonExits \in Nat /\ MaxCrashes \in Nat
    /\ DecommissionBodies \subseteq
         [dryRun : BOOLEAN, removeUser : BOOLEAN, removeDirs : BOOLEAN]
    /\ JobBodies \subseteq
         [type : {"bootstrap", "update", "decommission"}, dryRun : BOOLEAN,
          reqDry : BOOLEAN, port : BOOLEAN, plan : Seq(StepKeys)]

VARIABLES
    tenantStatus,   \* tenants.status, "none" before the row exists
    status,         \* provision_jobs.status, "none" before the row exists
    approvedBy,     \* provision_jobs.approved_by
    request,        \* the columns of provision_jobs no handler updates
    run,            \* the suspended executeProvisionJob calls
    inflight,       \* commands the daemon has to answer, by their socket
    daemonUp,       \* the daemon listens on its socket
    allowExec,      \* MC_SUPER_PROVISION_EXEC = 'true' where the server runs
    daemonExits, crashes

jobVars == <<status, approvedBy, request>>
vars == <<tenantStatus, status, approvedBy, request, run, inflight,
          daemonUp, allowExec, daemonExits, crashes>>

TenantStatus == {"none", "pending", "provisioning", "decommissioning",
                 "active", "suspended", "error"}
JobStatus == {"none", "queued", "approved", "running", "completed",
              "failed", "rejected", "cancelled"}
JobTypes == {"bootstrap", "update", "decommission"}

\* buildBootstrapPlan: the ten commands that create a tenant, in order.
BootstrapPlan ==
    <<"create-linux-user", "create-openclaw-state", "create-workspace-root",
      "seed-openclaw-template", "set-owner-home",
      "ensure-openclaw-tenants-dir", "install-gateway-systemd-template",
      "install-tenant-gateway-env", "systemd-daemon-reload",
      "enable-start-gateway">>

\* buildDecommissionPlan: removing the user also removes its directories.
DecommissionPlan(removeUser, removeDirs) ==
    <<"disable-stop-gateway", "remove-tenant-gateway-env">>
    \o (IF removeDirs /\ ~removeUser
        THEN <<"remove-openclaw-state-dir", "remove-workspace-dir">> ELSE <<>>)
    \o (IF removeUser THEN <<"remove-linux-user">> ELSE <<>>)

\* A queued job: dryRun is the dry_run column and reqDry the flag inside
\* request_json; port says that request_json holds a usable gateway_port.
Requests == [tenant : Tenants, type : JobTypes, dryRun : BOOLEAN,
             reqDry : BOOLEAN, port : BOOLEAN, requestedBy : Admins,
             plan : Seq(StepKeys)]

Replies == {"ok", "skipped", "failed"}
\* A suspended run: the job, the caller, the 1-based step it awaits, the
\* tenant status it read when it started and, once one has arrived, the
\* reply.
RunStates == [pc : {"idle", "awaiting", "replied", "hung"},
              job : JobIds \cup {NoOne}, actor : Admins \cup {NoOne},
              step : Nat, prev : TenantStatus,
              reply : Replies \cup {"none"}]
Suspended(j, a, k, prev) ==
    [pc |-> "awaiting", job |-> j, actor |-> a, step |-> k, prev |-> prev,
     reply |-> "none"]
Idle == [Suspended(NoOne, NoOne, 0, "none") EXCEPT !.pc = "idle"]
Commands == [job : JobIds, step : Nat, dryRun : BOOLEAN,
             run : Runs]

Init ==
    /\ tenantStatus = [t \in Tenants |-> "none"]
    /\ status = [j \in JobIds |-> "none"]
    /\ approvedBy = [j \in JobIds |-> NoOne]
    /\ request = [j \in JobIds |-> NoRequest]
    /\ run = [r \in Runs |-> Idle]
    /\ inflight = {}
    /\ daemonUp = TRUE /\ allowExec \in BOOLEAN
    /\ daemonExits = 0 /\ crashes = 0

execVars == <<run, inflight, daemonUp, allowExec, daemonExits, crashes>>
---------------------------------------------------------------------------
(* Queueing.                                                               *)

Insert(j, req) ==
    /\ status[j] = "none"
    /\ status' = [status EXCEPT ![j] = "queued"]
    /\ request' = [request EXCEPT ![j] = req]
    /\ UNCHANGED <<approvedBy, execVars>>

\* POST /api/super/tenants: one transaction inserts the tenant and its job.
CreateTenantAndBootstrapJob(t, a, j, dry) ==
    /\ tenantStatus[t] = "none"
    /\ tenantStatus' = [tenantStatus EXCEPT ![t] = "pending"]
    /\ Insert(j, [tenant |-> t, type |-> "bootstrap", dryRun |-> dry,
                  reqDry |-> dry, port |-> TRUE, requestedBy |-> a,
                  plan |-> BootstrapPlan])

\* POST /api/super/tenants/[id]/decommission.
CreateTenantDecommissionJob(t, a, j, b) ==
    /\ tenantStatus[t] # "none"
    /\ Insert(j, [tenant |-> t, type |-> "decommission", dryRun |-> b.dryRun,
                  reqDry |-> b.dryRun, port |-> FALSE, requestedBy |-> a,
                  plan |-> DecommissionPlan(b.removeUser, b.removeDirs)])
    /\ UNCHANGED tenantStatus

\* POST /api/super/provision-jobs: the body supplies plan and request_json,
\* whose dry_run and gateway_port need not agree with the columns.
QueueProvisionJob(t, a, j, b) ==
    /\ tenantStatus[t] # "none"
    /\ Insert(j, [tenant |-> t, type |-> b.type, dryRun |-> b.dryRun,
                  reqDry |-> b.reqDry, port |-> b.port, requestedBy |-> a,
                  plan |-> b.plan])
    /\ UNCHANGED tenantStatus
---------------------------------------------------------------------------
(* transitionProvisionJobStatus: approve, reject, cancel.                  *)

\* Faults: a branch whose guard also accepts a job it must not touch.
ApprovableRunning == {"queued", "rejected", "failed", "running"}
RejectableRunning == {"queued", "approved", "failed", "running"}
CancellableRunning == {"queued", "approved", "failed", "rejected", "running"}
CancellableCompleted == {"queued", "approved", "failed", "rejected", "completed"}

\* Guards of the three branches; 'running', 'completed' and 'cancelled' are
\* in none of them.
ApprovableFrom == {"queued", "rejected", "failed"}
RejectableFrom == {"queued", "approved", "failed"}
CancellableFrom == {"queued", "approved", "failed", "rejected"}

Approve(j, a) ==
    /\ status[j] \in ApprovableFrom
    /\ status' = [status EXCEPT ![j] = "approved"]
    /\ approvedBy' = [approvedBy EXCEPT ![j] = a]
    /\ UNCHANGED <<tenantStatus, request, execVars>>

Reject(j) ==
    /\ status[j] \in RejectableFrom
    /\ status' = [status EXCEPT ![j] = "rejected"]
    /\ UNCHANGED <<tenantStatus, approvedBy, request, execVars>>

Cancel(j) ==
    /\ status[j] \in CancellableFrom
    /\ status' = [status EXCEPT ![j] = "cancelled"]
    /\ UNCHANGED <<tenantStatus, approvedBy, request, execVars>>
---------------------------------------------------------------------------
(* executeProvisionJob.                                                    *)

TwoPersonRule(j, a) ==
    request[j].dryRun \/ approvedBy[j] \notin {request[j].requestedBy, a}

\* Fault: the check that the approver does not run the job is missing.
MayExecuteByApprover(j, a) ==
    /\ status[j] = "approved"
    /\ request[j].plan # <<>>
    /\ request[j].reqDry = request[j].dryRun
    /\ approvedBy[j] # NoOne
    /\ request[j].dryRun \/ approvedBy[j] # request[j].requestedBy
    /\ request[j].type = "bootstrap" => request[j].port

\* No condition holds under which the call throws before it writes anything.
MayExecute(j, a) ==
    /\ status[j] = "approved"
    /\ request[j].plan # <<>>
    /\ request[j].reqDry = request[j].dryRun
    /\ approvedBy[j] # NoOne
    /\ TwoPersonRule(j, a)
    /\ request[j].type = "bootstrap" => request[j].port

StartedTenantStatus(req, prev) ==
    IF req.dryRun THEN prev
    ELSE IF req.type = "decommission" THEN "decommissioning"
    ELSE "provisioning"

CompletedTenantStatus(req, prev) ==
    IF req.dryRun THEN prev
    ELSE IF req.type = "decommission" THEN "suspended" ELSE "active"

\* Fault: the dry-run flag is lost on the way to the daemon.
DispatchLive(r, j, a, k, prev) ==
    /\ run' = [run EXCEPT ![r] = Suspended(j, a, k, prev)]
    /\ inflight' = inflight \cup
                     {[job |-> j, step |-> k, dryRun |-> FALSE, run |-> r]}

\* runProvisionerCommand for step k: a new socket, one request on it.  A
\* daemon that is not listening answers with a connection error.  Every step
\* the plan builders write requires root and goes to the daemon; a posted step
\* that does not is run by the server itself and is left out.
Dispatch(r, j, a, k, prev) ==
    /\ run' = [run EXCEPT ![r] = Suspended(j, a, k, prev)]
    /\ inflight' = IF daemonUp
                   THEN inflight \cup {[job |-> j, step |-> k,
                          dryRun |-> request[j].dryRun, run |-> r]}
                   ELSE inflight

\* Faults: a tenant status written to the job, a tenant left as it was.
FailJobAsError(j) ==
    /\ status' = [status EXCEPT ![j] = "error"]
    /\ tenantStatus' = [tenantStatus EXCEPT ![request[j].tenant] = "error"]
FailJobOnly(j) ==
    /\ status' = [status EXCEPT ![j] = "failed"]
    /\ UNCHANGED tenantStatus

\* The catch block: the job fails and the tenant goes to 'error', whatever
\* the job was and whether or not it was a dry run.
FailJob(j) ==
    /\ status' = [status EXCEPT ![j] = "failed"]
    /\ tenantStatus' = [tenantStatus EXCEPT ![request[j].tenant] = "error"]

\* Fault: the execution switch is not consulted.
SwitchIgnored(req) == FALSE

\* A live job throws inside the try block on a server that executes none.
ExecutionDisabled(req) == ~req.dryRun /\ ~allowExec

\* From the first read to the first await.
ExecuteProvisionJob(r, j, a) ==
    /\ run[r] = Idle
    /\ MayExecute(j, a)
    /\ LET req == request[j]
           prev == tenantStatus[req.tenant]
       IN  IF ExecutionDisabled(req)
           THEN FailJob(j) /\ UNCHANGED <<run, inflight>>
           ELSE /\ status' = [status EXCEPT ![j] = "running"]
                /\ tenantStatus' = [tenantStatus EXCEPT ![req.tenant] =
                                        StartedTenantStatus(req, prev)]
                /\ Dispatch(r, j, a, 1, prev)
    /\ UNCHANGED <<approvedBy, request, daemonUp, allowExec, daemonExits, crashes>>

\* socket 'data': the awaited result arrives and the loop goes on to the
\* next step, or past the last one, or into the catch block.
OnReply(r) ==
    /\ run[r].pc = "replied"
    /\ LET s == run[r]  req == request[s.job] IN
       \/ /\ s.reply = "failed"
          /\ FailJob(s.job)
          /\ run' = [run EXCEPT ![r] = Idle]
          /\ UNCHANGED inflight
       \/ /\ s.reply # "failed" /\ s.step < Len(req.plan)
          /\ Dispatch(r, s.job, s.actor, s.step + 1, s.prev)
          /\ UNCHANGED <<status, tenantStatus>>
       \/ /\ s.reply # "failed" /\ s.step >= Len(req.plan)
          /\ status' = [status EXCEPT ![s.job] = "completed"]
          /\ tenantStatus' = [tenantStatus EXCEPT ![req.tenant] =
                                  CompletedTenantStatus(req, s.prev)]
          /\ run' = [run EXCEPT ![r] = Idle]
          /\ UNCHANGED inflight
    /\ UNCHANGED <<approvedBy, request, daemonUp, allowExec, daemonExits, crashes>>

\* A command whose socket is gone may run to its end on the host, but its
\* answer has nowhere to go: only commands on open sockets are kept.
Closed(rs) == {c \in inflight : c.run \in rs}

\* Fault: the timer runs only once data has arrived.
TimerAfterData(r) == run[r].pc = "replied"

\* The timer runs from the connection attempt to the data handler; the close
\* handler stops it when no data has arrived.
TimerArmed(r) == run[r].pc \in {"awaiting", "replied"}

\* The timer destroys the socket, or the connection attempt failed.
StepTimeout(r) ==
    /\ TimerArmed(r)
    /\ FailJob(run[r].job)
    /\ run' = [run EXCEPT ![r] = Idle]
    /\ inflight' = inflight \ Closed({r})
    /\ UNCHANGED <<approvedBy, request, daemonUp, allowExec, daemonExits, crashes>>

\* The server dies and is started again, perhaps in another environment:
\* suspended runs are lost, rows stay as they are.
ServerCrash ==
    /\ crashes < MaxCrashes
    /\ crashes' = crashes + 1
    /\ run' = [r \in Runs |-> Idle]
    /\ inflight' = inflight \ Closed(Runs)
    /\ allowExec' \in BOOLEAN
    /\ UNCHANGED <<tenantStatus, jobVars, daemonUp, daemonExits>>
---------------------------------------------------------------------------
(* The provisioner daemon.                                                 *)

\* validateCommand refuses what is not allowlisted; a dry run of the rest is
\* skipped, a live command ends with an exit code or is killed.
DaemonResults(c) == {"failed", IF c.dryRun THEN "skipped" ELSE "ok"}

\* The daemon writes its answer on the socket the request came from.
DaemonFinish(c, result) ==
    /\ c \in inflight
    /\ result \in DaemonResults(c)
    /\ inflight' = inflight \ {c}
    /\ run' = [r \in Runs |->
                 IF c.run = r /\ run[r].pc = "awaiting"
                 THEN [run[r] EXCEPT !.pc = "replied", !.reply = result]
                 ELSE run[r]]
    /\ UNCHANGED <<tenantStatus, jobVars, daemonUp, allowExec, daemonExits, crashes>>

\* SIGTERM: sockets close without an answer, child processes live on.  The
\* client's close handler cancels the timer and settles nothing.
DaemonExit ==
    /\ daemonUp /\ daemonExits < MaxDaemonExits
    /\ daemonUp' = FALSE
    /\ daemonExits' = daemonExits + 1
    /\ run' = [r \in Runs |-> IF Closed({r}) # {}
                              THEN [run[r] EXCEPT !.pc = "hung"] ELSE run[r]]
    /\ inflight' = inflight \ Closed(Runs)
    /\ UNCHANGED <<tenantStatus, jobVars, allowExec, crashes>>

DaemonStart ==
    /\ ~daemonUp
    /\ daemonUp' = TRUE
    /\ UNCHANGED <<tenantStatus, jobVars, run, inflight, allowExec, daemonExits, crashes>>
---------------------------------------------------------------------------
Queueing ==
    \E t \in Tenants, a \in Admins, j \in JobIds :
        \/ \E dry \in BOOLEAN : CreateTenantAndBootstrapJob(t, a, j, dry)
        \/ \E b \in DecommissionBodies : CreateTenantDecommissionJob(t, a, j, b)
        \/ \E b \in JobBodies : QueueProvisionJob(t, a, j, b)

Approval == \E j \in JobIds :
    (\E a \in Admins : Approve(j, a)) \/ Reject(j) \/ Cancel(j)

Execution == \E r \in Runs :
    \/ \E j \in JobIds, a \in Admins : ExecuteProvisionJob(r, j, a)
    \/ OnReply(r)
    \/ StepTimeout(r)

Daemon ==
    \/ \E c \in inflight, result \in Replies : DaemonFinish(c, result)
    \/ DaemonExit
    \/ DaemonStart

Next == Queueing \/ Approval \/ Execution \/ Daemon \/ ServerCrash

\* The event loop delivers what has arrived and fires timers that are due;
\* nothing is assumed of administrators, of the daemon or of the host.
Fairness == \A r \in Runs : WF_vars(OnReply(r)) /\ WF_vars(StepTimeout(r))

Spec == Init /\ [][Next]_vars
FairSpec == Spec /\ Fairness
---------------------------------------------------------------------------
(* Properties.                                                             *)

\* Every row, suspended call and daemon command keeps its type.
TypeOK ==
    /\ tenantStatus \in [Tenants -> TenantStatus]
    /\ status \in [JobIds -> JobStatus]
    /\ approvedBy \in [JobIds -> Admins \cup {NoOne}]
    /\ request \in [JobIds -> Requests \cup {NoRequest}]
    /\ run \in [Runs -> RunStates]
    /\ inflight \subseteq Commands
    /\ daemonUp \in BOOLEAN /\ allowExec \in BOOLEAN
    /\ daemonExits \in Nat /\ crashes \in Nat

\* A job is executed by at most one suspended executeProvisionJob call, and
\* its row says 'running' as long as that call is suspended: no sequence of
\* approvals, failures, timeouts and re-runs starts a second executor.
OneRunPerJob ==
    \A r \in Runs : run[r].pc # "idle" =>
        /\ status[run[r].job] = "running"
        /\ \A q \in Runs \ {r} : run[q].job # run[r].job

\* The two-person rule at every step of a live job, not only at its start:
\* while commands are sent to the host, the recorded approver is neither the
\* requester nor the administrator who runs the job.
LiveRunIsTwoPerson ==
    \A r \in Runs : run[r].pc # "idle" =>
        /\ approvedBy[run[r].job] # NoOne
        /\ TwoPersonRule(run[r].job, run[r].actor)

\* Only live jobs reach the host, and only with the plan's own steps.
OnlyLiveCommandsExecute ==
    \A c \in inflight : /\ c.dryRun = request[c.job].dryRun
                        /\ c.step \in 1..Len(request[c.job].plan)

\* A completed or cancelled job keeps its status for ever, whatever calls are
\* still suspended and whatever administrators post.
SettledIsFinal ==
    [][\A j \in JobIds : status[j] \in {"completed", "cancelled"} =>
            status'[j] = status[j]]_vars

\* A job whose executor was lost in a crash, or hangs because the daemon
\* closed the socket without an answer, is 'running' for ever: no
\* administrator action and no restart recovers it.
Orphaned(j) ==
    status[j] = "running" /\ \A r \in Runs : run[r].job = j => run[r].pc = "hung"
OrphanedIsStuck ==
    [][\A j \in JobIds : Orphaned(j) => status'[j] = "running"]_vars

\* While run requests are served one at a time and the server stays up, a
\* tenant shown as provisioning or decommissioning has a live job in flight.
TransitionalTenantHasLiveRun ==
    \A t \in Tenants : tenantStatus[t] \in {"provisioning", "decommissioning"} =>
        \E r \in Runs : /\ run[r].pc # "idle"
                        /\ request[run[r].job].tenant = t
                        /\ ~request[run[r].job].dryRun

\* While the daemon and the server stay up, a running job ends: the client
\* timer settles a command the daemon never answers.
RunningJobSettles ==
    \A j \in JobIds :
        status[j] = "running" ~> status[j] \in {"completed", "failed"}

\* Run requests that follow one another come to an end and leave the tenant
\* in no transitional status.
RunsSettle == []TransitionalTenantHasLiveRun /\ RunningJobSettles

\* With live execution switched off (MC_SUPER_PROVISION_EXEC unset), no
\* command of a live job is sent to the daemon, whatever a server with the
\* switch on has left behind.
DisabledMeansDry == ~allowExec => \A c \in inflight : c.dryRun

\* The executor, the daemon and their failures, seen through the job rows,
\* do nothing the lifecycle does not allow.
Lifecycle == INSTANCE ProvisionLifecycle
             WITH status <- status, approvedBy <- approvedBy, request <- request
ImplementsLifecycle == Lifecycle!LifecycleSpec
---------------------------------------------------------------------------
(* The inductive strengthening behind OneRunPerJob, LiveRunIsTwoPerson     *)
(* and OnlyLiveCommandsExecute.                                            *)

QueuedHasRequest == \A j \in JobIds : status[j] # "none" => request[j] \in Requests

RunInv == \A r \in Runs :
    IF run[r].pc = "idle" THEN run[r].job = NoOne
    ELSE /\ run[r].job \in JobIds /\ run[r].actor \in Admins
         /\ run[r].step \in 1..Len(request[run[r].job].plan)

CommandInv == \A c \in inflight :
    /\ run[c.run].pc = "awaiting"
    /\ c.job = run[c.run].job /\ c.step = run[c.run].step
    /\ c.dryRun = request[c.job].dryRun

\* Behind DisabledMeansDry: a live job is suspended only where the switch is on.
SwitchInv == \A r \in Runs :
    run[r].pc # "idle" => request[run[r].job].dryRun \/ allowExec

IndInv ==
    /\ TypeOK /\ QueuedHasRequest /\ RunInv /\ CommandInv
    /\ OneRunPerJob /\ LiveRunIsTwoPerson
===========================================================================
