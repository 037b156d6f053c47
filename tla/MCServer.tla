------------------------------ MODULE MCServer ------------------------------
(***************************************************************************)
(* Instance for TLC of the components whose state lives in the server:     *)
(* the schema and its migrations, accounts, the rate limiter, the          *)
(* scheduler, the agents' configuration, webhooks, tasks and token usage.  *)
(* They share no variable, so that one run asks of each what runs of their *)
(* own would: in a behaviour one component moves and the others stay as    *)
(* they started.                                                           *)
(***************************************************************************)
EXTENDS Database, Accounts, RateLimiter, Scheduler, AgentConfig,
        WebhookDelivery, TaskBoard, Usage, TLC

VARIABLE focus  \* the component that moves

serverVars == <<dbVars, accVars, rlVars, schedVars, acVars, hookVars,
                taskVars, usageVars, focus>>

Env(u, b, p) == [user |-> u, b64 |-> b, pass |-> p]
MCEnvs == {Env("admin", "absent", "strong"), Env("root", "insecure", "strong"),
           Env("admin", "empty", "insecure"), Env("root", "good", "insecure")}

MCOrder == <<"auto_backup", "agent_heartbeat", "webhook_retry">>
MCInterval == "auto_backup" :> 3 @@ "agent_heartbeat" :> 2 @@ "webhook_retry" :> 1
MCFirstRun == "auto_backup" :> 1 @@ "agent_heartbeat" :> 2 @@ "webhook_retry" :> 1

MCUpdates == {[primary |-> 1], [fallbacks |-> 2]}

\* Every webhook subscribes to '*'.
MCMatching == Webhooks \X Events

\* Processes and events are interchangeable.
Symmetry == Permutations(Procs) \cup Permutations(Events)

Init ==
  /\ focus \in {"database", "accounts", "limiter", "scheduler", "config",
                "webhooks", "tasks", "usage"}
  /\ DbInit /\ AccInit /\ RlInit /\ SchedInit /\ AcInit
  /\ HookInit /\ TaskInit /\ UsageInit
  /\ focus = "database" \/ env = CHOOSE e \in Envs : TRUE
  /\ focus = "usage" \/ gatewayUsage = <<>>
  /\ focus = "config" \/ soulFile = [a \in InWorkspace |-> NoSoul]

Next ==
  /\ UNCHANGED focus
  /\ IF focus = "database" THEN DbNext ELSE UNCHANGED dbVars
  /\ IF focus = "accounts" THEN AccNext ELSE UNCHANGED accVars
  /\ IF focus = "limiter" THEN RlNext ELSE UNCHANGED rlVars
  /\ IF focus = "scheduler" THEN SchedNext ELSE UNCHANGED schedVars
  /\ IF focus = "config" THEN AcNext ELSE UNCHANGED acVars
  /\ IF focus = "webhooks" THEN HookNext ELSE UNCHANGED hookVars
  /\ IF focus = "tasks" THEN TaskNext ELSE UNCHANGED taskVars
  /\ IF focus = "usage" THEN UsageNext ELSE UNCHANGED usageVars

Spec == Init /\ [][Next]_serverVars
=============================================================================
