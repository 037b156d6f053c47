------------------------ MODULE ProvisionLifecycle ------------------------
(***************************************************************************)
(* What the provisioning service promises of a job row, with the executor, *)
(* the daemon and every failure left out: the edges of the status column,  *)
(* the two-person rule on entering 'running', and a request that is never  *)
(* rewritten once it is queued.                                            *)
(***************************************************************************)
CONSTANTS JobIds, Admins, NoOne, Requests

VARIABLES status, approvedBy, request

lifecycleVars == <<status, approvedBy, request>>

Move(j, from, to) ==
    status[j] \in from /\ status' = [status EXCEPT ![j] = to]

LifecycleInit ==
    /\ status = [j \in JobIds |-> "none"]
    /\ approvedBy = [j \in JobIds |-> NoOne]

Queue(j) ==
    /\ Move(j, {"none"}, "queued")
    /\ request'[j] \in Requests
    /\ request' = [request EXCEPT ![j] = request'[j]]
    /\ UNCHANGED approvedBy

ApproveBy(j, a) ==
    /\ Move(j, {"queued", "rejected", "failed"}, "approved")
    /\ approvedBy' = [approvedBy EXCEPT ![j] = a]
    /\ UNCHANGED request

RejectJob(j) ==
    /\ Move(j, {"queued", "approved", "failed"}, "rejected")
    /\ UNCHANGED <<approvedBy, request>>

CancelJob(j) ==
    /\ Move(j, {"queued", "approved", "failed", "rejected"}, "cancelled")
    /\ UNCHANGED <<approvedBy, request>>

\* Administrator a starts the job: approved, and for a live job by somebody
\* who neither requested it nor is a.
Authorised(j, a) ==
    /\ approvedBy[j] \in Admins
    /\ request[j].dryRun \/ approvedBy[j] \notin {request[j].requestedBy, a}

Start(j, a) ==
    /\ Authorised(j, a)
    /\ Move(j, {"approved"}, "running")
    /\ UNCHANGED <<approvedBy, request>>

\* A live job on an installation that does not execute live jobs.
Refuse(j, a) ==
    /\ Authorised(j, a) /\ ~request[j].dryRun
    /\ Move(j, {"approved"}, "failed")
    /\ UNCHANGED <<approvedBy, request>>

Finish(j) ==
    /\ Move(j, {"running"}, "completed") \/ Move(j, {"running"}, "failed")
    /\ UNCHANGED <<approvedBy, request>>

LifecycleNext == \E j \in JobIds :
    \/ Queue(j) \/ RejectJob(j) \/ CancelJob(j) \/ Finish(j)
    \/ \E a \in Admins : ApproveBy(j, a) \/ Start(j, a) \/ Refuse(j, a)

LifecycleSpec == LifecycleInit /\ [][LifecycleNext]_lifecycleVars
===========================================================================
