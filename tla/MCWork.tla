------------------------------- MODULE MCWork -------------------------------
(***************************************************************************)
(* Instance for TLC of what agents are given to do: tasks, workflow        *)
(* pipelines, and the sessions they are spawned in.  They share no         *)
(* variable; in a behaviour one of them moves and the others stay as they  *)
(* started.                                                                *)
(***************************************************************************)
EXTENDS TaskBoard, PipelineRun, Sessions, TLC

VARIABLE focus  \* the component that moves

workVars == <<taskVars, pipeVars, sesVars, focus>>

\* The default column, the gated one and any other, which the handlers do not
\* tell from the default.
MCStatuses == {"inbox", "review", "done"}

\* Three steps that may go on after a failure, two that may not, and the
\* empty list that PUT accepts.
StepOf(t, f) == [template |-> t, onFailure |-> f]
MCStepLists ==
  {<<StepOf("ta", "continue"), StepOf("tb", "stop"), StepOf("ta", "continue")>>,
   <<StepOf("tb", "stop"), StepOf("ta", "stop")>>, <<>>}

MCTranscripts == <<"f1", "f2">>
MCSessionAgents == <<"apex", "gem">>

\* Tasks are interchangeable.
TaskSymmetry == Permutations(TaskIds)

Init ==
  /\ focus \in {"tasks", "pipelines", "sessions"}
  /\ TaskInit /\ PipeInit /\ SessionsInit
  /\ focus = "pipelines" \/ pipeline = <<>>

Next ==
  /\ UNCHANGED focus
  /\ IF focus = "tasks" THEN TaskNext ELSE UNCHANGED taskVars
  /\ IF focus = "pipelines" THEN PipeNext ELSE UNCHANGED pipeVars
  /\ IF focus = "sessions" THEN SessionsNext ELSE UNCHANGED sesVars

Spec == Init /\ [][Next]_workVars
=============================================================================
