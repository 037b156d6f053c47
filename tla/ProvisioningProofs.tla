------------------------ MODULE ProvisioningProofs ------------------------
(***************************************************************************)
(* Proofs about tenant provisioning, for any number of tenants,            *)
(* administrators, jobs, overlapping run requests, daemon exits and server *)
(* crashes.                                                                *)
(***************************************************************************)
EXTENDS Provisioning, TLAPS

\* The plans the two builders return are sequences of commands.
LEMMA PlansAreSequences ==
    /\ BootstrapPlan \in Seq(StepKeys)
    /\ \A u, d \in BOOLEAN : DecommissionPlan(u, d) \in Seq(StepKeys)
<1>1. BootstrapPlan \in Seq(StepKeys)
  BY DEF BootstrapPlan, StepKeys
<1>2. ASSUME NEW u \in BOOLEAN, NEW d \in BOOLEAN
      PROVE  DecommissionPlan(u, d) \in Seq(StepKeys)
  <2> DEFINE head == <<"disable-stop-gateway", "remove-tenant-gateway-env">>
             dirs == IF d /\ ~u
                     THEN <<"remove-openclaw-state-dir", "remove-workspace-dir">>
                     ELSE <<>>
             user == IF u THEN <<"remove-linux-user">> ELSE <<>>
  <2>1. head \in Seq(StepKeys)
    BY DEF StepKeys
  <2>4. dirs \in Seq(StepKeys)
    <3>1. <<"remove-openclaw-state-dir", "remove-workspace-dir">> \in Seq(StepKeys)
      BY DEF StepKeys
    <3>2. <<>> \in Seq(StepKeys)
      OBVIOUS
    <3>3. dirs \in {<<"remove-openclaw-state-dir", "remove-workspace-dir">>, <<>>}
      BY Zenon
    <3> QED BY <3>1, <3>2, <3>3, Zenon
  <2>5. user \in Seq(StepKeys)
    <3>1. <<"remove-linux-user">> \in Seq(StepKeys)
      BY DEF StepKeys
    <3>2. <<>> \in Seq(StepKeys)
      OBVIOUS
    <3>3. user \in {<<"remove-linux-user">>, <<>>}
      BY Zenon
    <3> QED BY <3>1, <3>2, <3>3, Zenon
  <2>2. DecommissionPlan(u, d) = head \o dirs \o user
    BY DEF DecommissionPlan
  <2> HIDE DEF head, dirs, user
  <2>3. head \o dirs \in Seq(StepKeys)
    BY <2>1, <2>4
  <2> QED BY <2>2, <2>3, <2>5
<1> QED BY <1>1, <1>2

\* What the three ways of queueing a job write is a well-typed row.
LEMMA InsertedRequests ==
    ASSUME NEW t \in Tenants, NEW a \in Admins
    PROVE  /\ \A dry \in BOOLEAN :
                [tenant |-> t, type |-> "bootstrap", dryRun |-> dry,
                 reqDry |-> dry, port |-> TRUE, requestedBy |-> a,
                 plan |-> BootstrapPlan] \in Requests
           /\ \A b \in DecommissionBodies :
                [tenant |-> t, type |-> "decommission", dryRun |-> b.dryRun,
                 reqDry |-> b.dryRun, port |-> FALSE, requestedBy |-> a,
                 plan |-> DecommissionPlan(b.removeUser, b.removeDirs)] \in Requests
           /\ \A b \in JobBodies :
                [tenant |-> t, type |-> b.type, dryRun |-> b.dryRun,
                 reqDry |-> b.reqDry, port |-> b.port, requestedBy |-> a,
                 plan |-> b.plan] \in Requests
<1>1. ASSUME NEW dry \in BOOLEAN
      PROVE  [tenant |-> t, type |-> "bootstrap", dryRun |-> dry,
              reqDry |-> dry, port |-> TRUE, requestedBy |-> a,
              plan |-> BootstrapPlan] \in Requests
  BY PlansAreSequences DEF Requests, JobTypes
<1>2. ASSUME NEW b \in DecommissionBodies
      PROVE  [tenant |-> t, type |-> "decommission", dryRun |-> b.dryRun,
              reqDry |-> b.dryRun, port |-> FALSE, requestedBy |-> a,
              plan |-> DecommissionPlan(b.removeUser, b.removeDirs)] \in Requests
  <2>1. b.dryRun \in BOOLEAN /\ b.removeUser \in BOOLEAN /\ b.removeDirs \in BOOLEAN
    BY ConstantsAssumption
  <2>2. DecommissionPlan(b.removeUser, b.removeDirs) \in Seq(StepKeys)
    BY <2>1, PlansAreSequences
  <2> QED BY <2>1, <2>2 DEF Requests, JobTypes
<1>3. ASSUME NEW b \in JobBodies
      PROVE  [tenant |-> t, type |-> b.type, dryRun |-> b.dryRun,
              reqDry |-> b.reqDry, port |-> b.port, requestedBy |-> a,
              plan |-> b.plan] \in Requests
  BY ConstantsAssumption DEF Requests, JobTypes
<1> QED BY <1>1, <1>2, <1>3

\* An idle and a suspended call are well typed.
LEMMA RunStateTypes ==
    /\ Idle \in RunStates
    /\ Idle.pc = "idle" /\ Idle.job = NoOne
    /\ \A j \in JobIds, a \in Admins, k \in Nat, p \in TenantStatus :
          /\ Suspended(j, a, k, p) \in RunStates
          /\ Suspended(j, a, k, p).pc = "awaiting"
          /\ Suspended(j, a, k, p).job = j
          /\ Suspended(j, a, k, p).actor = a
          /\ Suspended(j, a, k, p).step = k
BY DEF Idle, Suspended, RunStates, TenantStatus, Replies

---------------------------------------------------------------------------
(* Init and each action preserve IndInv.                                   *)

\* The empty tables and an idle server satisfy the invariant.
LEMMA InitIndInv == Init => IndInv
<1> SUFFICES ASSUME Init PROVE IndInv
  OBVIOUS
<1>1. TypeOK
  BY RunStateTypes DEF Init, TypeOK, TenantStatus, JobStatus
<1>2. \A r \in Runs : run[r] = Idle
  BY DEF Init
<1> QED
  BY <1>1, <1>2, RunStateTypes DEF Init, IndInv, QueuedHasRequest, RunInv,
     CommandInv, OneRunPerJob, LiveRunIsTwoPerson

\* A new row touches no job that a suspended call or a command refers to.
LEMMA InsertIndInv ==
    ASSUME IndInv, NEW j \in JobIds, NEW req \in Requests, Insert(j, req),
           tenantStatus' \in [Tenants -> TenantStatus]
    PROVE  IndInv'
<1> USE DEF IndInv, Insert, execVars
<1>1. TypeOK'
  BY DEF TypeOK, JobStatus
<1>2. \A r \in Runs : run[r].pc # "idle" => run[r].job \in JobIds /\ run[r].job # j
  BY DEF RunInv, OneRunPerJob
<1>3. \A i \in JobIds : i # j => status'[i] = status[i] /\ request'[i] = request[i]
  BY DEF TypeOK
<1>4. QueuedHasRequest'
  BY DEF TypeOK, QueuedHasRequest
<1>5. RunInv'
  BY <1>2, <1>3 DEF RunInv
<1>6. CommandInv'
  BY <1>2, <1>3 DEF CommandInv, TypeOK, Commands
<1>7. OneRunPerJob'
  BY <1>2, <1>3 DEF OneRunPerJob
<1>8. LiveRunIsTwoPerson'
  BY <1>2, <1>3 DEF LiveRunIsTwoPerson, TwoPersonRule
<1> QED BY <1>1, <1>4, <1>5, <1>6, <1>7, <1>8

\* The three ways of queueing a job insert one row.
LEMMA QueueingIndInv == IndInv /\ Queueing => IndInv'
<1> SUFFICES ASSUME IndInv, NEW t \in Tenants, NEW a \in Admins, NEW j \in JobIds,
                    \/ \E dry \in BOOLEAN : CreateTenantAndBootstrapJob(t, a, j, dry)
                    \/ \E b \in DecommissionBodies :
                          CreateTenantDecommissionJob(t, a, j, b)
                    \/ \E b \in JobBodies : QueueProvisionJob(t, a, j, b)
             PROVE  IndInv'
  BY DEF Queueing
<1>1. tenantStatus \in [Tenants -> TenantStatus]
  BY DEF IndInv, TypeOK
<1>2. CASE \E dry \in BOOLEAN : CreateTenantAndBootstrapJob(t, a, j, dry)
  <2>1. tenantStatus' \in [Tenants -> TenantStatus]
    BY <1>1, <1>2 DEF CreateTenantAndBootstrapJob, TenantStatus
  <2> QED
    BY <1>2, <2>1, InsertedRequests, InsertIndInv DEF CreateTenantAndBootstrapJob
<1>3. CASE \E b \in DecommissionBodies : CreateTenantDecommissionJob(t, a, j, b)
  BY <1>1, <1>3, InsertedRequests, InsertIndInv DEF CreateTenantDecommissionJob
<1>4. CASE \E b \in JobBodies : QueueProvisionJob(t, a, j, b)
  BY <1>1, <1>4, InsertedRequests, InsertIndInv DEF QueueProvisionJob
<1> QED BY <1>2, <1>3, <1>4

\* Approve, reject and cancel refuse a running job, and suspended calls and
\* commands belong to running jobs.
LEMMA ApprovalIndInv == IndInv /\ Approval => IndInv'
<1> SUFFICES ASSUME IndInv, NEW j \in JobIds,
                    (\E a \in Admins : Approve(j, a)) \/ Reject(j) \/ Cancel(j)
             PROVE  IndInv'
  BY DEF Approval
<1> USE DEF IndInv
<1>1. /\ status[j] \notin {"none", "running"}
      /\ \A i \in JobIds : i # j => /\ status'[i] = status[i]
                                    /\ approvedBy'[i] = approvedBy[i]
      /\ status' \in [JobIds -> JobStatus]
      /\ approvedBy' \in [JobIds -> Admins \cup {NoOne}]
      /\ UNCHANGED <<tenantStatus, request, run, inflight, daemonUp,
                     allowExec, daemonExits, crashes>>
  BY DEF Approve, Reject, Cancel, ApprovableFrom, RejectableFrom,
         CancellableFrom, execVars, TypeOK, JobStatus
<1>2. \A r \in Runs : run[r].pc # "idle" => run[r].job \in JobIds /\ run[r].job # j
  BY <1>1 DEF RunInv, OneRunPerJob
<1>3. TypeOK'
  BY <1>1 DEF TypeOK
<1>4. QueuedHasRequest'
  BY <1>1 DEF QueuedHasRequest
<1>5. RunInv' /\ CommandInv'
  BY <1>1 DEF RunInv, CommandInv
<1>6. OneRunPerJob'
  BY <1>1, <1>2 DEF OneRunPerJob
<1>7. LiveRunIsTwoPerson'
  BY <1>1, <1>2 DEF LiveRunIsTwoPerson, TwoPersonRule
<1> QED BY <1>3, <1>4, <1>5, <1>6, <1>7

\* The catch block fails one job whose call is then gone.
LEMMA FailJobTypes ==
    ASSUME TypeOK, NEW j \in JobIds, request[j] \in Requests, FailJob(j)
    PROVE  /\ status' \in [JobIds -> JobStatus]
           /\ tenantStatus' \in [Tenants -> TenantStatus]
           /\ status'[j] = "failed"
           /\ \A i \in JobIds : i # j => status'[i] = status[i]
BY DEF TypeOK, FailJob, JobStatus, TenantStatus, Requests

\* A step that ends the call of run request r: it becomes idle and no
\* command of it stays in flight.
LEMMA EndRunIndInv ==
    ASSUME IndInv, NEW r \in Runs, run[r].pc # "idle",
           run' = [run EXCEPT ![r] = Idle],
           inflight' \subseteq inflight,
           \A c \in inflight' : c.run # r,
           status' \in [JobIds -> JobStatus],
           status'[run[r].job] # "none",
           \A i \in JobIds : i # run[r].job => status'[i] = status[i],
           tenantStatus' \in [Tenants -> TenantStatus],
           UNCHANGED <<approvedBy, request, daemonUp, allowExec, daemonExits, crashes>>
    PROVE  IndInv'
<1> USE DEF IndInv
<1>1. TypeOK'
  BY RunStateTypes DEF TypeOK
<1>2. run'[r] = Idle /\ \A q \in Runs : q # r => run'[q] = run[q]
  BY DEF TypeOK
<1>3. \A q \in Runs : q # r /\ run[q].pc # "idle" =>
        run[q].job \in JobIds /\ run[q].job # run[r].job
  BY DEF OneRunPerJob, RunInv
<1>4. run[r].job \in JobIds /\ request[run[r].job] \in Requests
  BY DEF RunInv, OneRunPerJob, QueuedHasRequest
<1>5. QueuedHasRequest'
  BY <1>4 DEF QueuedHasRequest
<1>6. RunInv'
  BY <1>2, RunStateTypes DEF RunInv
<1>7. CommandInv'
  BY <1>2 DEF CommandInv, TypeOK, Commands
<1>8. OneRunPerJob'
  BY <1>2, <1>3, <1>4, RunStateTypes, ConstantsAssumption DEF OneRunPerJob
<1>9. LiveRunIsTwoPerson'
  BY <1>2, RunStateTypes DEF LiveRunIsTwoPerson, TwoPersonRule
<1> QED BY <1>1, <1>5, <1>6, <1>7, <1>8, <1>9

\* Dispatch of step k by run request r: what it leaves in flight.
LEMMA DispatchIndInv ==
    ASSUME IndInv, NEW r \in Runs, NEW j \in JobIds, NEW a \in Admins,
           NEW k \in Nat, NEW prev \in TenantStatus,
           Dispatch(r, j, a, k, prev),
           request[j] \in Requests,
           k \in 1..Len(request[j].plan),
           approvedBy[j] # NoOne, TwoPersonRule(j, a),
           status' \in [JobIds -> JobStatus],
           status'[j] = "running",
           \A i \in JobIds : i # j => status'[i] = status[i],
           \A q \in Runs : q # r => run[q].job # j,
           \A c \in inflight : c.run # r,
           tenantStatus' \in [Tenants -> TenantStatus],
           UNCHANGED <<approvedBy, request, daemonUp, allowExec, daemonExits, crashes>>
    PROVE  IndInv'
<1> USE DEF IndInv
<1>0. Suspended(j, a, k, prev) \in RunStates
  BY RunStateTypes
<1>1. request[j].dryRun \in BOOLEAN
  BY DEF Requests
<1>2. run'[r] = Suspended(j, a, k, prev) /\ \A q \in Runs : q # r => run'[q] = run[q]
  BY DEF TypeOK, Dispatch
<1>3. \A c \in inflight' : c \in inflight \/
          c = [job |-> j, step |-> k, dryRun |-> request[j].dryRun, run |-> r]
  BY DEF Dispatch
<1>4. TypeOK'
  BY <1>0, <1>1, <1>3 DEF TypeOK, Dispatch, Commands
<1>5. QueuedHasRequest'
  BY DEF QueuedHasRequest
<1>6. RunInv'
  BY <1>2, RunStateTypes DEF RunInv
<1>7. CommandInv'
  BY <1>2, <1>3, RunStateTypes DEF CommandInv, TypeOK, Commands
<1>8. OneRunPerJob'
  <2> SUFFICES ASSUME NEW q \in Runs, run'[q].pc # "idle"
               PROVE  /\ status'[run'[q].job] = "running"
                      /\ \A p \in Runs \ {q} : run'[p].job # run'[q].job
    BY DEF OneRunPerJob
  <2>1. CASE q = r
    BY <1>2, <2>1, RunStateTypes
  <2>2. CASE q # r
    <3>1. run'[q] = run[q] /\ run[q].job \in JobIds /\ run[q].job # j
      BY <1>2, <2>2, ConstantsAssumption DEF RunInv
    <3>2. status'[run'[q].job] = "running"
      BY <3>1 DEF OneRunPerJob
    <3>3. \A p \in Runs \ {q} : run'[p].job # run'[q].job
      BY <1>2, <3>1, RunStateTypes DEF OneRunPerJob
    <3> QED BY <3>2, <3>3
  <2> QED BY <2>1, <2>2
<1>9. LiveRunIsTwoPerson'
  BY <1>2, RunStateTypes DEF LiveRunIsTwoPerson, TwoPersonRule
<1> QED BY <1>4, <1>5, <1>6, <1>7, <1>8, <1>9

\* The guards of executeProvisionJob are what the invariant says of a run.
LEMMA ExecuteIndInv ==
    ASSUME IndInv, NEW r \in Runs, NEW j \in JobIds, NEW a \in Admins,
           ExecuteProvisionJob(r, j, a)
    PROVE  IndInv'
<1> USE DEF IndInv
<1>1. /\ status[j] = "approved" /\ request[j] \in Requests
      /\ approvedBy[j] # NoOne /\ TwoPersonRule(j, a)
      /\ run[r] = Idle
  BY DEF ExecuteProvisionJob, MayExecute, QueuedHasRequest
<1>2. 1 \in 1..Len(request[j].plan)
  <2>1. request[j].plan \in Seq(StepKeys) /\ request[j].plan # <<>>
    BY <1>1 DEF ExecuteProvisionJob, MayExecute, Requests
  <2> QED BY <2>1
<1>3. \A q \in Runs : run[q].job # j
  BY <1>1, ConstantsAssumption DEF OneRunPerJob, RunInv
<1>4. \A c \in inflight : c.run # r
  BY <1>1, RunStateTypes DEF CommandInv
<1>5. tenantStatus[request[j].tenant] \in TenantStatus
  BY <1>1 DEF TypeOK, Requests
<1>6. UNCHANGED <<approvedBy, request, daemonUp, allowExec, daemonExits, crashes>>
  BY DEF ExecuteProvisionJob
<1>7. CASE ExecutionDisabled(request[j])
  <2>1. FailJob(j) /\ UNCHANGED <<run, inflight>>
    BY <1>7 DEF ExecuteProvisionJob
  <2>2. /\ status' \in [JobIds -> JobStatus]
        /\ tenantStatus' \in [Tenants -> TenantStatus]
        /\ \A i \in JobIds : i # j => status'[i] = status[i]
    BY <1>1, <2>1, FailJobTypes
  <2>3. TypeOK'
    BY <1>6, <2>1, <2>2 DEF TypeOK
  <2>4. QueuedHasRequest'
    BY <1>1, <1>6, <2>2 DEF QueuedHasRequest
  <2>5. RunInv' /\ CommandInv' /\ LiveRunIsTwoPerson'
    BY <1>6, <2>1 DEF RunInv, CommandInv, LiveRunIsTwoPerson,
                      TwoPersonRule
  <2>6. OneRunPerJob'
    BY <1>3, <2>1, <2>2 DEF OneRunPerJob, RunInv
  <2> QED BY <2>3, <2>4, <2>5, <2>6
<1>8. CASE ~ExecutionDisabled(request[j])
  <2> DEFINE prev == tenantStatus[request[j].tenant]
  <2>1. /\ status' = [status EXCEPT ![j] = "running"]
        /\ tenantStatus' = [tenantStatus EXCEPT ![request[j].tenant] =
                                StartedTenantStatus(request[j], prev)]
        /\ Dispatch(r, j, a, 1, prev)
    BY <1>8 DEF ExecuteProvisionJob
  <2>2. /\ status' \in [JobIds -> JobStatus] /\ status'[j] = "running"
        /\ \A i \in JobIds : i # j => status'[i] = status[i]
    BY <2>1 DEF TypeOK, JobStatus
  <2>3. tenantStatus' \in [Tenants -> TenantStatus]
    BY <2>1, <1>5 DEF TypeOK, StartedTenantStatus, TenantStatus
  <2> HIDE DEF prev
  <2>4. prev \in TenantStatus
    BY <1>5 DEF prev
  <2> QED
    BY <1>1, <1>2, <1>3, <1>4, <1>6, <2>1, <2>2, <2>3, <2>4, DispatchIndInv
<1> QED BY <1>7, <1>8

\* A reply ends the call or dispatches the next step of the same job.
LEMMA OnReplyIndInv ==
    ASSUME IndInv, NEW r \in Runs, OnReply(r)
    PROVE  IndInv'
<1> USE DEF IndInv
<1> DEFINE s == run[r]
           req == request[s.job]
<1>1. /\ s.pc = "replied" /\ s.job \in JobIds /\ s.actor \in Admins
      /\ s.step \in 1..Len(req.plan)
      /\ status[s.job] = "running" /\ req \in Requests
      /\ approvedBy[s.job] # NoOne /\ TwoPersonRule(s.job, s.actor)
      /\ s.prev \in TenantStatus /\ s.step \in Nat
  BY DEF OnReply, RunInv, OneRunPerJob, QueuedHasRequest, LiveRunIsTwoPerson,
         TypeOK, RunStates
<1>2. \A c \in inflight : c.run # r
  BY <1>1 DEF CommandInv
<1>3. \A q \in Runs : q # r => run[q].job # s.job
  BY <1>1 DEF OneRunPerJob
<1>4. UNCHANGED <<approvedBy, request, daemonUp, allowExec, daemonExits, crashes>>
  BY DEF OnReply
<1>5. CASE /\ FailJob(s.job) /\ run' = [run EXCEPT ![r] = Idle]
           /\ UNCHANGED inflight
  <2>1. /\ status' \in [JobIds -> JobStatus]
        /\ tenantStatus' \in [Tenants -> TenantStatus]
        /\ status'[s.job] = "failed"
        /\ \A i \in JobIds : i # s.job => status'[i] = status[i]
    BY <1>1, <1>5, FailJobTypes
  <2> QED BY <1>1, <1>2, <1>4, <1>5, <2>1, EndRunIndInv
<1>6. CASE /\ s.step < Len(req.plan)
           /\ Dispatch(r, s.job, s.actor, s.step + 1, s.prev)
           /\ UNCHANGED <<status, tenantStatus>>
  <2>1. s.step + 1 \in Nat /\ s.step + 1 \in 1..Len(req.plan)
    <3>1. Len(req.plan) \in Nat
      BY <1>1 DEF Requests
    <3> QED BY <1>1, <1>6, <3>1
  <2>2. status' \in [JobIds -> JobStatus] /\ tenantStatus' \in [Tenants -> TenantStatus]
    BY <1>6 DEF TypeOK
  <2> QED BY <1>1, <1>2, <1>3, <1>4, <1>6, <2>1, <2>2, DispatchIndInv
<1>7. CASE /\ status' = [status EXCEPT ![s.job] = "completed"]
           /\ tenantStatus' = [tenantStatus EXCEPT ![req.tenant] =
                                   CompletedTenantStatus(req, s.prev)]
           /\ run' = [run EXCEPT ![r] = Idle]
           /\ UNCHANGED inflight
  <2>1. /\ status' \in [JobIds -> JobStatus] /\ status'[s.job] = "completed"
        /\ \A i \in JobIds : i # s.job => status'[i] = status[i]
    BY <1>1, <1>7 DEF TypeOK, JobStatus
  <2>2. tenantStatus' \in [Tenants -> TenantStatus]
    BY <1>1, <1>7 DEF TypeOK, CompletedTenantStatus, TenantStatus
  <2> QED BY <1>1, <1>2, <1>4, <1>7, <2>1, <2>2, EndRunIndInv
<1> QED BY <1>5, <1>6, <1>7 DEF OnReply

\* The timer of callProvisioner ends the call and closes its socket.
LEMMA StepTimeoutIndInv ==
    ASSUME IndInv, NEW r \in Runs, StepTimeout(r)
    PROVE  IndInv'
<1> USE DEF IndInv
<1>1. run[r].pc # "idle" /\ run[r].job \in JobIds /\ request[run[r].job] \in Requests
  BY DEF StepTimeout, TimerArmed, RunInv, OneRunPerJob, QueuedHasRequest
<1>2. /\ status' \in [JobIds -> JobStatus]
      /\ tenantStatus' \in [Tenants -> TenantStatus]
      /\ status'[run[r].job] = "failed"
      /\ \A i \in JobIds : i # run[r].job => status'[i] = status[i]
  BY <1>1, FailJobTypes DEF StepTimeout
<1>3. inflight' \subseteq inflight /\ \A c \in inflight' : c.run # r
  BY DEF StepTimeout, Closed
<1> QED BY <1>1, <1>2, <1>3, EndRunIndInv DEF StepTimeout

\* A crash leaves no suspended call and no open socket.
LEMMA ServerCrashIndInv == IndInv /\ ServerCrash => IndInv'
<1> SUFFICES ASSUME IndInv, ServerCrash PROVE IndInv'
  OBVIOUS
<1> USE DEF IndInv, jobVars
<1>1. inflight' = {}
  BY DEF ServerCrash, Closed, TypeOK, Commands
<1>2. \A r \in Runs : run'[r] = Idle
  BY DEF ServerCrash
<1>3. TypeOK'
  BY <1>1, RunStateTypes DEF ServerCrash, TypeOK
<1> QED
  BY <1>1, <1>2, <1>3, RunStateTypes DEF ServerCrash, QueuedHasRequest, RunInv,
     CommandInv, OneRunPerJob, LiveRunIsTwoPerson

\* The daemon answers the step its request asked for.
LEMMA DaemonFinishIndInv ==
    ASSUME IndInv, NEW c \in inflight, NEW result \in Replies,
           DaemonFinish(c, result)
    PROVE  IndInv'
<1> USE DEF IndInv, jobVars
<1> DEFINE target == c.run
<1>1. /\ target \in Runs /\ c.job \in JobIds /\ c.step \in Nat
      /\ run[target].pc = "awaiting" /\ c.job = run[target].job /\ c.step = run[target].step
      /\ run[target] \in RunStates
  BY DEF CommandInv, TypeOK, Commands
<1>2. \A r \in Runs \ {target} : run'[r] = run[r]
  BY DEF DaemonFinish
<1>3. run'[target] = [run[target] EXCEPT !.pc = "replied", !.reply = result]
  BY <1>1 DEF DaemonFinish
<1>4. /\ run'[target] \in RunStates /\ run'[target].pc = "replied"
      /\ run'[target].job = run[target].job /\ run'[target].actor = run[target].actor
      /\ run'[target].step = run[target].step
  BY <1>1, <1>3 DEF RunStates
<1>5. TypeOK'
  BY <1>2, <1>4 DEF DaemonFinish, TypeOK
<1>6. \A d \in inflight' : d.run # target
  <2> SUFFICES ASSUME NEW d \in inflight', d.run = target PROVE FALSE
    OBVIOUS
  <2>1. d \in inflight /\ d # c
    BY DEF DaemonFinish
  <2>2. d.job = c.job /\ d.step = c.step /\ d.dryRun = c.dryRun /\ d.run = c.run
    BY <2>1 DEF CommandInv
  <2> QED BY <2>1, <2>2 DEF TypeOK, Commands
<1>7. CommandInv'
  BY <1>2, <1>6 DEF DaemonFinish, CommandInv, TypeOK, Commands
<1>9. UNCHANGED <<status, approvedBy, request>>
  BY DEF DaemonFinish
<1>11. \A r \in Runs :
          /\ run'[r].job = run[r].job /\ run'[r].actor = run[r].actor
          /\ run'[r].step = run[r].step
          /\ run'[r].pc = "idle" <=> run[r].pc = "idle"
  BY <1>1, <1>2, <1>4
<1>8. QueuedHasRequest' /\ RunInv'
  BY <1>9, <1>11 DEF QueuedHasRequest, RunInv
<1>12. OneRunPerJob'
  BY <1>9, <1>11 DEF OneRunPerJob
<1>13. LiveRunIsTwoPerson'
  BY <1>9, <1>11 DEF LiveRunIsTwoPerson, TwoPersonRule
<1> QED BY <1>5, <1>7, <1>8, <1>12, <1>13

\* A call whose socket the daemon closes keeps its job.
LEMMA DaemonExitIndInv == IndInv /\ DaemonExit => IndInv'
<1> SUFFICES ASSUME IndInv, DaemonExit PROVE IndInv'
  OBVIOUS
<1> USE DEF IndInv, jobVars
<1>1. inflight' = {}
  BY DEF DaemonExit, Closed, TypeOK, Commands
<1>2. ASSUME NEW r \in Runs
      PROVE  /\ run'[r] \in RunStates
             /\ run'[r] = run[r] \/ (run'[r].pc = "hung" /\ run[r].pc = "awaiting")
             /\ run'[r].job = run[r].job /\ run'[r].actor = run[r].actor
             /\ run'[r].step = run[r].step
  <2>1. run[r] \in RunStates
    BY DEF TypeOK
  <2>2. CASE Closed({r}) = {}
    <3>1. run'[r] = run[r]
      BY <2>2, Zenon DEF DaemonExit
    <3> QED BY <2>1, <3>1, Zenon
  <2>3. CASE Closed({r}) # {}
    <3>1. run'[r] = [run[r] EXCEPT !.pc = "hung"]
      BY <2>3 DEF DaemonExit
    <3>2. run[r].pc = "awaiting"
      BY <2>3 DEF Closed, CommandInv
    <3> QED BY <2>1, <3>1, <3>2 DEF RunStates
  <2> QED BY <2>2, <2>3
<1>7. UNCHANGED <<tenantStatus, status, approvedBy, request, allowExec, crashes>>
  BY DEF DaemonExit
<1>8. \A r \in Runs : run'[r].pc = "idle" <=> run[r].pc = "idle"
  BY <1>2
<1>3. TypeOK'
  <2>1. run' \in [Runs -> RunStates]
    <3>1. run' = [r \in Runs |-> run'[r]]
      BY DEF DaemonExit
    <3> QED BY <1>2, <3>1
  <2>2. daemonUp' \in BOOLEAN
    BY Zenon DEF DaemonExit
  <2>3. daemonExits' \in Nat
    BY DEF DaemonExit, TypeOK
  <2> QED BY <1>1, <1>7, <2>1, <2>2, <2>3 DEF TypeOK
<1>4. QueuedHasRequest' /\ RunInv' /\ CommandInv'
  BY <1>1, <1>2, <1>7, <1>8 DEF QueuedHasRequest, RunInv, CommandInv
<1>5. OneRunPerJob'
  BY <1>2, <1>7, <1>8 DEF OneRunPerJob
<1>6. LiveRunIsTwoPerson'
  BY <1>2, <1>7, <1>8 DEF LiveRunIsTwoPerson, TwoPersonRule
<1> QED BY <1>3, <1>4, <1>5, <1>6

\* A daemon that starts has no command to answer.
LEMMA DaemonStartIndInv == IndInv /\ DaemonStart => IndInv'
BY DEF IndInv, DaemonStart, jobVars, TypeOK, QueuedHasRequest, RunInv, CommandInv,
       OneRunPerJob, LiveRunIsTwoPerson, TwoPersonRule

\* Every step preserves the invariant.
LEMMA NextIndInv == IndInv /\ [Next]_vars => IndInv'
<1> SUFFICES ASSUME IndInv, [Next]_vars PROVE IndInv'
  OBVIOUS
<1>1. CASE Queueing
  BY <1>1, QueueingIndInv
<1>2. CASE Approval
  BY <1>2, ApprovalIndInv
<1>3. CASE Execution
  BY <1>3, ExecuteIndInv, OnReplyIndInv, StepTimeoutIndInv DEF Execution
<1>4. CASE Daemon
  BY <1>4, DaemonFinishIndInv, DaemonExitIndInv, DaemonStartIndInv DEF Daemon
<1>5. CASE ServerCrash
  BY <1>5, ServerCrashIndInv
<1>6. CASE UNCHANGED vars
  BY <1>6 DEF vars, IndInv, TypeOK, QueuedHasRequest, RunInv, CommandInv,
     OneRunPerJob, LiveRunIsTwoPerson, TwoPersonRule
<1> QED BY <1>1, <1>2, <1>3, <1>4, <1>5, <1>6 DEF Next
---------------------------------------------------------------------------
(* Safety.                                                                 *)

\* IndInv holds in every reachable state.
THEOREM Invariance == Spec => []IndInv
BY InitIndInv, NextIndInv, PTL DEF Spec

\* Rows, suspended calls and daemon commands keep their types.
THEOREM TypeCorrect == Spec => []TypeOK
<1>1. IndInv => TypeOK
  BY DEF IndInv
<1> QED BY <1>1, Invariance, PTL

\* executeProvisionJob never has two suspended calls for one job, and the
\* row of a job with a suspended call says 'running'.
THEOREM AtMostOneExecutor == Spec => []OneRunPerJob
<1>1. IndInv => OneRunPerJob
  BY DEF IndInv
<1> QED BY <1>1, Invariance, PTL

\* The check of approved_by against requested_by and the caller, made once
\* when executeProvisionJob starts, holds for as long as the call lasts.
THEOREM TwoPersonThroughout == Spec => []LiveRunIsTwoPerson
<1>1. IndInv => LiveRunIsTwoPerson
  BY DEF IndInv
<1> QED BY <1>1, Invariance, PTL

\* A command in flight carries its job's dry_run flag and a step of its plan.
THEOREM CommandsFollowTheJob == Spec => []OnlyLiveCommandsExecute
<1>1. IndInv => OnlyLiveCommandsExecute
  BY DEF IndInv, CommandInv, RunInv, TypeOK, Commands, OnlyLiveCommandsExecute
<1> QED BY <1>1, Invariance, PTL

\* A step that starts no run and leaves the switch and the requests of
\* suspended runs alone keeps SwitchInv.
LEMMA SwitchKept ==
    ASSUME SwitchInv, UNCHANGED allowExec,
           \A r \in Runs : run'[r].pc # "idle" =>
              /\ run[r].pc # "idle" /\ run'[r].job = run[r].job
              /\ request'[run[r].job] = request[run[r].job]
    PROVE  SwitchInv'
BY DEF SwitchInv

\* Every step keeps SwitchInv: a live run is suspended only behind the check
\* of the switch, and a restart that may change the switch leaves no run.
LEMMA SwitchStep ==
    ASSUME IndInv, SwitchInv, [Next]_vars
    PROVE  SwitchInv'
<1>1. run \in [Runs -> RunStates] /\ request \in [JobIds -> Requests \cup {NoRequest}]
  BY DEF IndInv, TypeOK
<1>2. \A r \in Runs : run[r].pc # "idle" =>
         run[r].job \in JobIds /\ status[run[r].job] = "running"
  BY DEF IndInv, RunInv, OneRunPerJob
<1>3. CASE Queueing
  <2>1. PICK j, req : j \in JobIds /\ Insert(j, req)
    BY <1>3 DEF Queueing, CreateTenantAndBootstrapJob, CreateTenantDecommissionJob,
                QueueProvisionJob
  <2>2. \A i \in JobIds : status[i] = "running" => request'[i] = request[i]
    BY <1>1, <2>1 DEF Insert
  <2> QED BY <1>2, <2>1, <2>2, SwitchKept DEF Insert, execVars
<1>4. CASE Approval
  BY <1>4, SwitchKept DEF Approval, Approve, Reject, Cancel, execVars
<1>5. ASSUME NEW r \in Runs, NEW j \in JobIds, NEW a \in Admins,
             ExecuteProvisionJob(r, j, a)
      PROVE  SwitchInv'
  <2>1. UNCHANGED <<allowExec, request>>
    BY <1>5 DEF ExecuteProvisionJob
  <2>2. CASE ExecutionDisabled(request[j])
    BY <1>5, <2>1, <2>2, SwitchKept DEF ExecuteProvisionJob
  <2>3. CASE ~ExecutionDisabled(request[j])
    <3>1. PICK prev : Dispatch(r, j, a, 1, prev)
      BY <1>5, <2>3 DEF ExecuteProvisionJob
    <3>2. run'[r].job = j /\ \A q \in Runs \ {r} : run'[q] = run[q]
      BY <1>1, <3>1 DEF Dispatch, Suspended
    <3> QED BY <2>1, <2>3, <3>2 DEF SwitchInv, ExecutionDisabled
  <2> QED BY <2>2, <2>3
<1>6. ASSUME NEW r \in Runs, OnReply(r)
      PROVE  SwitchInv'
  <2>1. UNCHANGED <<allowExec, request>> /\ run[r].pc # "idle"
    BY <1>6 DEF OnReply
  <2>2. run'[r].job = run[r].job \/ run'[r].pc = "idle"
    BY <1>1, <1>6, RunStateTypes DEF OnReply, Dispatch, Suspended
  <2>3. \A q \in Runs \ {r} : run'[q] = run[q]
    BY <1>1, <1>6 DEF OnReply, Dispatch
  <2> QED BY <2>1, <2>2, <2>3, SwitchKept
<1>7. ASSUME NEW r \in Runs, StepTimeout(r)
      PROVE  SwitchInv'
  <2>1. UNCHANGED <<allowExec, request>> /\ run'[r].pc = "idle"
    BY <1>1, <1>7, RunStateTypes DEF StepTimeout
  <2>2. \A q \in Runs \ {r} : run'[q] = run[q]
    BY <1>1, <1>7 DEF StepTimeout
  <2> QED BY <2>1, <2>2, SwitchKept
<1>8. ASSUME NEW c \in inflight, NEW result \in Replies, DaemonFinish(c, result)
      PROVE  SwitchInv'
  <2>1. \A r \in Runs : run'[r].job = run[r].job /\ (run'[r].pc # "idle" => run[r].pc # "idle")
    BY <1>1, <1>8 DEF DaemonFinish, RunStates
  <2> QED BY <1>8, <2>1, SwitchKept DEF DaemonFinish, jobVars
<1>9. CASE DaemonExit
  <2>1. \A r \in Runs : Closed({r}) # {} => run[r].pc # "idle"
    BY DEF Closed, IndInv, CommandInv
  <2>2. \A r \in Runs : run'[r].job = run[r].job /\ (run'[r].pc # "idle" => run[r].pc # "idle")
    BY <1>1, <1>9, <2>1 DEF DaemonExit, RunStates
  <2> QED BY <1>9, <2>2, SwitchKept DEF DaemonExit, jobVars
<1>10. CASE DaemonStart
  BY <1>10, SwitchKept DEF DaemonStart, jobVars
<1>11. CASE ServerCrash
  BY <1>11, RunStateTypes DEF ServerCrash, SwitchInv
<1>12. CASE UNCHANGED vars
  BY <1>12, SwitchKept DEF vars
<1> QED BY <1>3, <1>4, <1>5, <1>6, <1>7, <1>8, <1>9, <1>10, <1>11, <1>12
        DEF Next, Execution, Daemon

\* A server whose MC_SUPER_PROVISION_EXEC is not 'true' sends no live command.
THEOREM SwitchedOff == Spec => []DisabledMeansDry
<1>1. Init => SwitchInv
  BY RunStateTypes DEF Init, SwitchInv
<1>2. IndInv /\ SwitchInv => DisabledMeansDry
  BY DEF IndInv, CommandInv, TypeOK, Commands, SwitchInv, DisabledMeansDry
<1> QED BY <1>1, <1>2, SwitchStep, Invariance, PTL DEF Spec
---------------------------------------------------------------------------
(* Refinement of the job lifecycle.                                        *)

\* The catch block, seen through the job row.
LEMMA FailIsFinish ==
    ASSUME NEW j \in JobIds, FailJob(j), status[j] = "running",
           UNCHANGED <<approvedBy, request>>
    PROVE  Lifecycle!Finish(j)
BY DEF FailJob, Lifecycle!Finish, Lifecycle!Move

\* Queueing a job is the lifecycle's Queue.
LEMMA QueueingRefines ==
    ASSUME IndInv, Queueing
    PROVE  \E j \in JobIds : Lifecycle!Queue(j)
<1> PICK t \in Tenants, a \in Admins, j \in JobIds :
        \/ \E dry \in BOOLEAN : CreateTenantAndBootstrapJob(t, a, j, dry)
        \/ \E b \in DecommissionBodies : CreateTenantDecommissionJob(t, a, j, b)
        \/ \E b \in JobBodies : QueueProvisionJob(t, a, j, b)
  BY DEF Queueing
<1>1. PICK req \in Requests : Insert(j, req)
  BY InsertedRequests DEF CreateTenantAndBootstrapJob, CreateTenantDecommissionJob,
                          QueueProvisionJob
<1>2. request'[j] = req
  BY <1>1 DEF Insert, IndInv, TypeOK
<1>3. Lifecycle!Queue(j)
  BY <1>1, <1>2 DEF Insert, execVars, Lifecycle!Queue, Lifecycle!Move
<1> QED BY <1>3

\* Approve, reject and cancel are those of the lifecycle.
LEMMA ApprovalRefines ==
    ASSUME NEW j \in JobIds
    PROVE  /\ \A a \in Admins : Approve(j, a) => Lifecycle!ApproveBy(j, a)
           /\ Reject(j) => Lifecycle!RejectJob(j)
           /\ Cancel(j) => Lifecycle!CancelJob(j)
BY DEF Approve, Reject, Cancel, ApprovableFrom, RejectableFrom, CancellableFrom,
       Lifecycle!ApproveBy, Lifecycle!RejectJob, Lifecycle!CancelJob, Lifecycle!Move

\* The start of a run is Start, or Refuse where execution is off.
LEMMA ExecuteRefines ==
    ASSUME IndInv, NEW r \in Runs, NEW j \in JobIds, NEW a \in Admins,
           ExecuteProvisionJob(r, j, a)
    PROVE  Lifecycle!Start(j, a) \/ Lifecycle!Refuse(j, a)
<1>1. /\ Lifecycle!Authorised(j, a) /\ status[j] = "approved"
      /\ UNCHANGED <<approvedBy, request>>
  BY DEF ExecuteProvisionJob, MayExecute, TwoPersonRule, IndInv, TypeOK,
         Lifecycle!Authorised
<1>2. CASE ExecutionDisabled(request[j])
  <2>1. status' = [status EXCEPT ![j] = "failed"]
    BY <1>2 DEF ExecuteProvisionJob, FailJob
  <2>2. ~request[j].dryRun
    BY <1>2 DEF ExecutionDisabled
  <2> QED BY <1>1, <2>1, <2>2 DEF Lifecycle!Refuse, Lifecycle!Move
<1>3. CASE ~ExecutionDisabled(request[j])
  <2>1. status' = [status EXCEPT ![j] = "running"]
    BY <1>3 DEF ExecuteProvisionJob
  <2> QED BY <1>1, <2>1 DEF Lifecycle!Start, Lifecycle!Move
<1> QED BY <1>2, <1>3

\* A reply is Finish or leaves the rows alone.
LEMMA OnReplyRefines ==
    ASSUME IndInv, NEW r \in Runs, OnReply(r)
    PROVE  Lifecycle!Finish(run[r].job) \/ UNCHANGED Lifecycle!lifecycleVars
<1>1. /\ run[r].job \in JobIds /\ status[run[r].job] = "running"
      /\ UNCHANGED <<approvedBy, request>>
  BY DEF OnReply, IndInv, OneRunPerJob, RunInv
<1>2. CASE FailJob(run[r].job)
  BY <1>1, <1>2, FailIsFinish
<1>3. CASE UNCHANGED status
  BY <1>1, <1>3 DEF Lifecycle!lifecycleVars
<1>4. CASE status' = [status EXCEPT ![run[r].job] = "completed"]
  BY <1>1, <1>4 DEF Lifecycle!Finish, Lifecycle!Move
<1> QED BY <1>2, <1>3, <1>4 DEF OnReply

\* A timeout is Finish.
LEMMA StepTimeoutRefines ==
    ASSUME IndInv, NEW r \in Runs, StepTimeout(r)
    PROVE  run[r].job \in JobIds /\ Lifecycle!Finish(run[r].job)
<1>1. /\ run[r].job \in JobIds /\ status[run[r].job] = "running"
      /\ UNCHANGED <<approvedBy, request>>
  BY DEF StepTimeout, TimerArmed, IndInv, OneRunPerJob, RunInv
<1> QED BY <1>1, FailIsFinish DEF StepTimeout

\* Every step of the detailed specification is a step of the lifecycle or
\* leaves the job rows alone.
LEMMA StepRefines ==
    IndInv /\ [Next]_vars => [Lifecycle!LifecycleNext]_(Lifecycle!lifecycleVars)
<1> SUFFICES ASSUME IndInv, [Next]_vars
             PROVE  Lifecycle!LifecycleNext \/ UNCHANGED Lifecycle!lifecycleVars
  BY DEF Lifecycle!lifecycleVars
<1>1. CASE Queueing
  BY <1>1, QueueingRefines DEF Lifecycle!LifecycleNext
<1>2. CASE Approval
  BY <1>2, ApprovalRefines DEF Approval, Lifecycle!LifecycleNext
<1>3. CASE Execution
  <2> PICK r \in Runs : \/ \E j \in JobIds, a \in Admins : ExecuteProvisionJob(r, j, a)
                        \/ OnReply(r)
                        \/ StepTimeout(r)
    BY <1>3 DEF Execution
  <2>1. CASE \E j \in JobIds, a \in Admins : ExecuteProvisionJob(r, j, a)
    BY <2>1, ExecuteRefines DEF Lifecycle!LifecycleNext
  <2>2. CASE OnReply(r)
    <3>1. run[r].job \in JobIds
      BY <2>2 DEF OnReply, IndInv, RunInv
    <3> QED BY <2>2, <3>1, OnReplyRefines DEF Lifecycle!LifecycleNext
  <2>3. CASE StepTimeout(r)
    BY <2>3, StepTimeoutRefines DEF Lifecycle!LifecycleNext
  <2> QED BY <2>1, <2>2, <2>3
<1>4. CASE Daemon
  BY <1>4 DEF Daemon, DaemonFinish, DaemonExit, DaemonStart, jobVars,
              Lifecycle!lifecycleVars
<1>5. CASE ServerCrash
  BY <1>5 DEF ServerCrash, jobVars, Lifecycle!lifecycleVars
<1>6. CASE UNCHANGED vars
  BY <1>6 DEF vars, Lifecycle!lifecycleVars
<1> QED BY <1>1, <1>2, <1>3, <1>4, <1>5, <1>6 DEF Next

\* The executor, the daemon and their failures implement the lifecycle.
THEOREM Refinement == Spec => ImplementsLifecycle
<1>1. Init => Lifecycle!LifecycleInit
  BY DEF Init, Lifecycle!LifecycleInit
<1>2. Spec => Lifecycle!LifecycleInit /\ [][Lifecycle!LifecycleNext]_(Lifecycle!lifecycleVars)
  BY <1>1, StepRefines, Invariance, PTL DEF Spec
<1> QED BY <1>2 DEF ImplementsLifecycle, Lifecycle!LifecycleSpec
---------------------------------------------------------------------------
(* Action properties.                                                      *)

\* A lifecycle step keeps settled jobs, and a running job without an
\* executor that could still finish it.
LEMMA SettledStep ==
    ASSUME IndInv, [Next]_vars, NEW j \in JobIds,
           status[j] \in {"completed", "cancelled"}
    PROVE  status'[j] = status[j]
<1>1. status \in [JobIds -> JobStatus]
  BY DEF IndInv, TypeOK
<1>2. CASE Lifecycle!LifecycleNext
  BY <1>1, <1>2 DEF Lifecycle!LifecycleNext, Lifecycle!Queue, Lifecycle!RejectJob,
     Lifecycle!CancelJob, Lifecycle!Finish, Lifecycle!ApproveBy, Lifecycle!Start,
     Lifecycle!Refuse, Lifecycle!Move
<1>3. CASE UNCHANGED Lifecycle!lifecycleVars
  BY <1>3 DEF Lifecycle!lifecycleVars
<1> QED BY <1>2, <1>3, StepRefines

\* A completed or cancelled job is never written again.
THEOREM SettledForEver == Spec => SettledIsFinal
<1>1. IndInv /\ [Next]_vars =>
        [\A j \in JobIds : status[j] \in {"completed", "cancelled"} =>
            status'[j] = status[j]]_vars
  BY SettledStep
<1> QED BY <1>1, Invariance, PTL DEF Spec, SettledIsFinal

\* A lifecycle step that leaves 'running' is one of the job's own executor.
LEMMA OrphanStep ==
    ASSUME IndInv, [Next]_vars, NEW j \in JobIds, Orphaned(j)
    PROVE  status'[j] = "running"
<1> USE DEF Orphaned
<1>1. status \in [JobIds -> JobStatus]
  BY DEF IndInv, TypeOK
<1>2. CASE Queueing
  BY <1>1, <1>2 DEF Queueing, CreateTenantAndBootstrapJob,
     CreateTenantDecommissionJob, QueueProvisionJob, Insert
<1>3. CASE Approval
  BY <1>1, <1>3 DEF Approval, Approve, Reject, Cancel, ApprovableFrom,
     RejectableFrom, CancellableFrom
<1>4. CASE Execution
  <2>1. ASSUME NEW r \in Runs, NEW i \in JobIds, NEW a \in Admins,
               ExecuteProvisionJob(r, i, a)
        PROVE  status'[j] = "running"
    <3>1. i # j
      BY <2>1 DEF ExecuteProvisionJob, MayExecute
    <3> QED BY <1>1, <2>1, <3>1 DEF ExecuteProvisionJob, FailJob
  <2>2. ASSUME NEW r \in Runs, OnReply(r)
        PROVE  status'[j] = "running"
    <3>1. run[r].job # j
      BY <2>2 DEF OnReply
    <3> QED BY <1>1, <2>2, <3>1 DEF OnReply, FailJob
  <2>3. ASSUME NEW r \in Runs, StepTimeout(r)
        PROVE  status'[j] = "running"
    <3>1. run[r].job # j
      BY <2>3 DEF StepTimeout, TimerArmed
    <3> QED BY <1>1, <2>3, <3>1 DEF StepTimeout, FailJob
  <2> QED BY <1>4, <2>1, <2>2, <2>3 DEF Execution
<1>5. CASE Daemon
  BY <1>5 DEF Daemon, DaemonFinish, DaemonExit, DaemonStart, jobVars
<1>6. CASE ServerCrash
  BY <1>6 DEF ServerCrash, jobVars
<1>7. CASE UNCHANGED vars
  BY <1>7 DEF vars
<1> QED BY <1>2, <1>3, <1>4, <1>5, <1>6, <1>7 DEF Next

\* A 'running' job that lost its executor, or whose executor hangs on a
\* closed socket, stays 'running'.
THEOREM OrphansStayRunning == Spec => OrphanedIsStuck
<1>1. IndInv /\ [Next]_vars =>
        [\A j \in JobIds : Orphaned(j) => status'[j] = "running"]_vars
  BY OrphanStep
<1> QED BY <1>1, Invariance, PTL DEF Spec, OrphanedIsStuck
===========================================================================
