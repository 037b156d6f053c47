---------------------------- MODULE RunLifecycle ----------------------------
(***************************************************************************)
(* What pipeline runs promise whoever reads them, with suspended requests, *)
(* the launches of agents, edits of the pipeline and crashes left out: a   *)
(* run takes the steps of the plan it began with one after the other, the  *)
(* outcome of a step is recorded once and then stays, and the run ends     *)
(* with the last step, with the first failure its plan does not let pass,  *)
(* or by being cancelled.                                                  *)
(*                                                                         *)
(* The promise is for one operator at a time: a run that had a request     *)
(* while another one for it was suspended has gone astray.                 *)
(***************************************************************************)
EXTENDS Naturals, Sequences

CONSTANTS RunIds, Plans

VARIABLES
    runPlan,    \* per run, its steps
    runState,   \* per run, "none", "running", an end, "deleted" or "astray"
    outcomes    \* per run, how the steps it has taken ended

runLifeVars == <<runPlan, runState, outcomes>>

RunLifeInit ==
    /\ runPlan = [r \in RunIds |-> <<>>]
    /\ runState = [r \in RunIds |-> "none"]
    /\ outcomes = [r \in RunIds |-> <<>>]

Begin(r, p) ==
    /\ runState[r] = "none"
    /\ runPlan' = [runPlan EXCEPT ![r] = p]
    /\ runState' = [runState EXCEPT ![r] = "running"]
    /\ UNCHANGED outcomes

\* The next step ends, and the run with it if that was the last one or a
\* failure that stops it.
TakeStep(r, outcome) ==
    LET i == Len(outcomes[r]) + 1
        stops == outcome = "failed" /\ runPlan[r][i].onFailure = "stop"
    IN  /\ runState[r] = "running" /\ i <= Len(runPlan[r])
        /\ outcomes' = [outcomes EXCEPT ![r] = Append(@, outcome)]
        /\ runState' = [runState EXCEPT ![r] =
               IF stops THEN "failed"
               ELSE IF i = Len(runPlan[r]) THEN "completed" ELSE "running"]
        /\ UNCHANGED runPlan

Cancel(r) ==
    /\ runState[r] = "running"
    /\ runState' = [runState EXCEPT ![r] = "cancelled"]
    /\ UNCHANGED <<runPlan, outcomes>>

GoAstray(r) ==
    /\ runState[r] = "running"
    /\ runState' = [runState EXCEPT ![r] = "astray"]
    /\ outcomes' = [outcomes EXCEPT ![r] = <<>>]
    /\ UNCHANGED runPlan

\* The pipeline is deleted, and every run of it.
DeleteAll ==
    /\ runState' = [r \in RunIds |->
           IF runState[r] \in {"none", "astray"} THEN runState[r] ELSE "deleted"]
    /\ outcomes' = [r \in RunIds |-> <<>>]
    /\ UNCHANGED runPlan

RunLifeNext ==
    \/ \E r \in RunIds :
         \/ \E p \in Plans \ {<<>>} : Begin(r, p)
         \/ \E outcome \in {"completed", "failed"} : TakeStep(r, outcome)
         \/ Cancel(r) \/ GoAstray(r)
    \/ DeleteAll

RunLifeSpec == RunLifeInit /\ [][RunLifeNext]_runLifeVars
=============================================================================
