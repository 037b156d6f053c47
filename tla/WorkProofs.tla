----------------------------- MODULE WorkProofs -----------------------------
(***************************************************************************)
(* Proofs about the work of agents.  PipelineSafe holds for any number of  *)
(* runs, suspended requests and crashes, for all lists of steps and any    *)
(* edits and deletions of the pipeline and the templates.  TasksSafe and   *)
(* AssigneeFollows hold for any number of tasks, agents and issues, and    *)
(* any number of imports, closes and broadcasts that overlap with edits,   *)
(* reviews and deletions.                                                  *)
(***************************************************************************)
EXTENDS PipelineRun, TaskBoard, TLAPS

(***************************************************************************)
(* Pipelines: the inductive invariant.                                     *)
(***************************************************************************)

\* The types PipeTypeOK leaves open: the columns are functions on the ids.
RowType ==
    /\ plan \in [RunIds -> StepLists \cup {<<>>}]
    /\ steps \in [RunIds -> Seq(StepStatus)]
    /\ current \in [RunIds -> Nat]

\* A run that was not started has no snapshot, no agent and no history.
NotStarted(r) ==
    /\ \A i \in 1..MaxSteps : launches[r][i] = 0
    /\ r \notin raced
    /\ \A c \in RunCalls : call[c].run # r

\* The first step of run r may be passed over.
Excused(r) == r \in raced \/ pipeCrashes > 0

\* The step before step i of run r was launched, unless its template is gone
\* or it may be passed over.
BeforeLaunched(r, i) ==
    \/ i = 1
    \/ launches[r][i - 1] > 0
    \/ plan[r][i - 1].template \notin templates
    \/ i = 2 /\ Excused(r)

\* A suspended call belongs to a run that was started, and holds a copy of
\* its snapshot and the number of the step it launches.
CallInv ==
    \A c \in RunCalls : call[c] # Returned =>
        LET s == call[c] IN
        /\ s.run \in RunIds /\ status[s.run] # "none"
        /\ s.step \in 1..Len(plan[s.run]) /\ Len(s.copy) = Len(plan[s.run])
        /\ s.launched => launches[s.run][s.step] > 0
        /\ BeforeLaunched(s.run, s.step)
        /\ s.starting => s.step = 1

\* The current step was launched, or its template is gone, or it is the first
\* and its start is suspended or lost.
CurrentLaunched ==
    \A r \in RunIds : status[r] # "none" =>
        \/ launches[r][current[r]] > 0
        \/ plan[r][current[r]].template \notin templates
        \/ /\ current[r] = 1
           /\ Excused(r) \/ \E c \in RunCalls : call[c].run = r /\ call[c].starting

\* Step i of run r is over, according to a snapshot, and the run goes on.
DoneIn(r, snapshot, i) ==
    \/ snapshot[i] = "completed"
    \/ snapshot[i] = "failed" /\ plan[r][i].onFailure = "continue"

\* A snapshot in which the run has come to step i.
At(r, snapshot, i) ==
    /\ \A k \in 1..(i - 1) : DoneIn(r, snapshot, k)
    /\ snapshot[i] = "running"
    /\ \A k \in (i + 1)..Len(plan[r]) : snapshot[k] = "pending"

\* Without a race a run has at most one suspended call, and what that call
\* will write is the state of the run one step on.
CallMatchesRow ==
    \A r \in RunIds \ raced :
        /\ \A c, d \in RunCalls : call[c].run = r /\ call[d].run = r => c = d
        /\ \A c \in RunCalls : call[c].run = r =>
             /\ status[r] \in {"running", "deleted"}
             /\ At(r, call[c].copy, call[c].step)
             /\ call[c].step = IF call[c].starting THEN current[r] ELSE current[r] + 1

\* Without a race and a crash, no step behind the one the run has come to
\* was launched.
NoneAhead ==
    pipeCrashes = 0 => \A r \in RunIds \ raced : status[r] = "running" =>
        \A i \in 1..MaxSteps : i > current[r] /\ launches[r][i] > 0 =>
            \E c \in RunCalls : call[c].run = r /\ call[c].step = i

\* Under the same condition, the step a call is about to launch was not
\* launched before.
LaunchIsNew ==
    pipeCrashes = 0 => \A c \in RunCalls :
        call[c].run \in RunIds \ raced /\ ~call[c].launched =>
            launches[call[c].run][call[c].step] = 0

PipeInv ==
    /\ PipeTypeOK /\ RowType
    /\ \A r \in RunIds : status[r] = "none" => NotStarted(r)
    /\ CallInv /\ CurrentLaunched /\ CallMatchesRow /\ NoneAhead /\ LaunchIsNew
    /\ StepsInOrder /\ SnapshotMatchesStatus /\ SpawnedOnce

---------------------------------------------------------------------------
(* Lemmas about sequences.                                                 *)

\* A function on 1..n is a sequence of length n.
LEMMA FunctionIsSeq ==
    ASSUME NEW S, NEW n \in Nat, NEW f \in [1..n -> S]
    PROVE  f \in Seq(S) /\ Len(f) = n /\ DOMAIN f = 1..n
  OBVIOUS

\* Writing one step's status keeps a snapshot.
LEMMA ExceptKeepsSnapshot ==
    ASSUME NEW q \in Seq(StepStatus), NEW i \in Nat, NEW v \in StepStatus
    PROVE  /\ [q EXCEPT ![i] = v] \in Seq(StepStatus)
           /\ Len([q EXCEPT ![i] = v]) = Len(q)
           /\ \A k \in 1..Len(q) :
                [q EXCEPT ![i] = v][k] = IF k = i THEN v ELSE q[k]
<1>1. q \in [1..Len(q) -> StepStatus] /\ Len(q) \in Nat
  OBVIOUS
<1>2. [q EXCEPT ![i] = v] \in [1..Len(q) -> StepStatus]
  BY <1>1
<1> QED BY <1>1, <1>2, FunctionIsSeq

\* The plan of a run is as long as the constants allow.
LEMMA PlanLength ==
    ASSUME NEW p \in StepLists \cup {<<>>}
    PROVE  /\ p \in Seq(PipelineStep) /\ Len(p) \in 0..MaxSteps
           /\ \A i \in 1..Len(p) : p[i] \in PipelineStep
<1>1. p \in Seq(PipelineStep) /\ Len(p) <= MaxSteps
  <2>1. CASE p = <<>>
    BY <2>1, PipelineAssumption
  <2>2. CASE p \in StepLists
    BY <2>2, PipelineAssumption
  <2> QED BY <2>1, <2>2
<1> HIDE DEF PipelineStep
<1> QED BY <1>1, PipelineAssumption

\* Before the first start no run has a snapshot, an agent or a suspended call.
LEMMA PipeInitInv == PipeInit => PipeInv
  BY PipelineAssumption DEF PipeInit, PipeInv, PipeTypeOK, RowType, NotStarted, CallInv,
     CurrentLaunched, CallMatchesRow, NoneAhead, LaunchIsNew, StepsInOrder,
     SnapshotMatchesStatus, SpawnedOnce, Returned, CallStates, RunStatus

---------------------------------------------------------------------------
(* Every action preserves the invariant.                                   *)

\* PUT /api/pipelines changes the steps of later runs only.
LEMMA UpdatePipelineInv ==
    ASSUME PipeInv, NEW p \in StepLists, UpdatePipeline(p)
    PROVE  PipeInv'
<1>1. /\ pipeline' \in StepLists
      /\ UNCHANGED <<exists, templates, rowVars, call, ghostVars, pipeCrashes>>
  BY DEF UpdatePipeline
<1> USE <1>1 DEF PipeInv, rowVars, ghostVars
<1>2. PipeTypeOK' /\ RowType'
  BY DEF PipeTypeOK, RowType
<1>3. (\A r \in RunIds : status[r] = "none" => NotStarted(r))'
  BY DEF NotStarted
<1>4. CallInv' /\ CurrentLaunched'
  BY DEF CallInv, CurrentLaunched, BeforeLaunched, Excused
<1>5. CallMatchesRow' /\ NoneAhead' /\ LaunchIsNew'
  BY DEF CallMatchesRow, At, DoneIn, NoneAhead, LaunchIsNew
<1>6. StepsInOrder' /\ SpawnedOnce'
  BY DEF StepsInOrder, SpawnedOnce
<1>7. SnapshotMatchesStatus'
  BY DEF SnapshotMatchesStatus, SnapshotFits
<1> QED BY <1>2, <1>3, <1>4, <1>5, <1>6, <1>7

\* The cascade of DELETE /api/pipelines ends every run at once.
LEMMA DeletePipelineInv ==
    ASSUME PipeInv, DeletePipeline
    PROVE  PipeInv'
<1> USE DEF PipeInv, DeletePipeline, RunsCascade, ghostVars
<1>1. PipeTypeOK' /\ RowType'
  BY DEF PipeTypeOK, RowType, RunStatus
<1>2. \A r \in RunIds : /\ status'[r] = "none" <=> status[r] = "none"
                        /\ status'[r] \in {"none", "deleted"}
  OBVIOUS
<1>3. (\A r \in RunIds : status[r] = "none" => NotStarted(r))'
  BY <1>2 DEF NotStarted
<1>4. CallInv' /\ CurrentLaunched'
  BY <1>2 DEF CallInv, CurrentLaunched, BeforeLaunched, Excused
<1>5. CallMatchesRow' /\ LaunchIsNew'
  BY <1>2 DEF CallMatchesRow, At, DoneIn, LaunchIsNew
<1>6. NoneAhead' /\ StepsInOrder' /\ SnapshotMatchesStatus' /\ SpawnedOnce'
  BY <1>2 DEF NoneAhead, StepsInOrder, SnapshotMatchesStatus, SpawnedOnce
<1> QED BY <1>1, <1>3, <1>4, <1>5, <1>6

\* A deleted template only makes more steps launch no agent.
LEMMA DeleteTemplateInv ==
    ASSUME PipeInv, NEW t \in Templates, DeleteTemplate(t)
    PROVE  PipeInv'
<1> USE DEF PipeInv, DeleteTemplate, rowVars, ghostVars
<1>1. PipeTypeOK' /\ RowType' /\ CallMatchesRow' /\ NoneAhead' /\ LaunchIsNew'
  BY DEF PipeTypeOK, RowType, CallMatchesRow, At, DoneIn, NoneAhead, LaunchIsNew
<1>5. CallInv'
  BY DEF CallInv, BeforeLaunched, Excused
<1>2. (\A r \in RunIds : status[r] = "none" => NotStarted(r))'
  BY DEF NotStarted
<1>3. CurrentLaunched' /\ StepsInOrder'
  BY DEF CurrentLaunched, StepsInOrder, Excused
<1>4. SnapshotMatchesStatus' /\ SpawnedOnce'
  BY DEF SnapshotMatchesStatus, SnapshotFits, SpawnedOnce
<1> QED BY <1>1, <1>2, <1>3, <1>4, <1>5

\* The server dies with its suspended calls, the rows stay.
LEMMA PipeServerCrashInv ==
    ASSUME PipeInv, PipeServerCrash
    PROVE  PipeInv'
<1> USE DEF PipeInv, PipeServerCrash, rowVars, pipelineVars, ghostVars, Returned
<1>1. PipeTypeOK' /\ RowType'
  BY PipelineAssumption DEF PipeTypeOK, RowType, CallStates
<1>2. pipeCrashes' # 0 /\ pipeCrashes' > 0
  BY DEF PipeTypeOK
<1>3. CallInv' /\ CallMatchesRow' /\ CurrentLaunched' /\ StepsInOrder'
  BY <1>2, PipelineAssumption DEF CallInv, CallMatchesRow, CurrentLaunched, StepsInOrder, Excused
<1>4. (\A r \in RunIds : status[r] = "none" => NotStarted(r))'
  BY PipelineAssumption DEF NotStarted
<1>5. NoneAhead' /\ LaunchIsNew' /\ SnapshotMatchesStatus' /\ SpawnedOnce'
  BY <1>2 DEF NoneAhead, LaunchIsNew, SnapshotMatchesStatus, SnapshotFits, SpawnedOnce
<1> QED BY <1>1, <1>3, <1>4, <1>5

\* cancel skips what is not done and leaves suspended calls alone.
LEMMA CancelRunInv ==
    ASSUME PipeInv, NEW r \in RunIds, CancelRun(r)
    PROVE  PipeInv'
<1> USE DEF PipeInv, CancelRun, pipelineVars
<1>1. /\ steps'[r] \in Seq(StepStatus) /\ Len(steps'[r]) = Len(plan[r])
      /\ \A i \in 1..Len(plan[r]) : steps[r][i] \in {"pending", "running"}
                                      => steps'[r][i] = "skipped"
      /\ \A i \in 1..Len(plan[r]) : steps[r][i] \notin {"pending", "running"}
                                      => steps'[r][i] = steps[r][i]
  <2>1. /\ steps[r] \in Seq(StepStatus) /\ Len(steps[r]) = Len(plan[r])
        /\ Len(plan[r]) \in Nat
    BY DEF PipeTypeOK, RowType
  <2>2. steps'[r] = SkipUnfinished(r)
    BY DEF RowType
  <2>3. SkipUnfinished(r) \in [1..Len(plan[r]) -> StepStatus]
    BY <2>1 DEF SkipUnfinished, StepStatus
  <2> QED BY <2>1, <2>2, <2>3, FunctionIsSeq DEF SkipUnfinished
<1>2. PipeTypeOK' /\ RowType'
  BY <1>1 DEF PipeTypeOK, RowType, RunStatus, NoteRace
<1>3. raced' = raced \/ (raced' = raced \cup {r} /\ \E c \in RunCalls : call[c].run = r)
  BY DEF NoteRace
<1>4. (\A x \in RunIds : status[x] = "none" => NotStarted(x))'
  BY <1>3 DEF NotStarted, PipeTypeOK
<1>5. CallInv' /\ CurrentLaunched' /\ StepsInOrder'
  BY <1>3 DEF CallInv, CurrentLaunched, StepsInOrder, PipeTypeOK, BeforeLaunched, Excused
<1>6. r \in raced' \/ \A c \in RunCalls : call[c].run # r
  BY DEF NoteRace
<1>7. CallMatchesRow'
  BY <1>3, <1>6 DEF CallMatchesRow, At, DoneIn, PipeTypeOK
<1>8. NoneAhead' /\ LaunchIsNew'
  BY <1>3, <1>6 DEF NoneAhead, LaunchIsNew, PipeTypeOK
<1>10. SpawnedOnce'
  BY <1>3, <1>6 DEF SpawnedOnce
<1>9. SnapshotMatchesStatus'
  <2> SUFFICES ASSUME NEW x \in RunIds \ raced', status'[x] \notin {"none", "deleted"}
               PROVE  SnapshotFits(x)'
    BY DEF SnapshotMatchesStatus
  <2>1. status[x] \notin {"none", "deleted"} /\ x \notin raced
    BY <1>3 DEF PipeTypeOK
  <2>2. SnapshotFits(x)
    BY <2>1 DEF SnapshotMatchesStatus
  <2>3. CASE x # r
    <3>1. steps'[x] = steps[x] /\ status'[x] = status[x]
      BY <2>3 DEF PipeTypeOK, RowType
    <3> QED BY <2>2, <3>1 DEF SnapshotFits
  <2>4. CASE x = r
    <3>1. status'[r] = "cancelled"
      BY DEF PipeTypeOK
    <3>2. current[r] \in 1..Len(plan[r]) /\ Len(plan[r]) \in Nat
      BY <2>4, <2>1 DEF PipeTypeOK, RowType
    <3>3. \A i \in 1..(current[r] - 1) : steps'[r][i] = steps[r][i]
      BY <2>2, <2>4, <3>2, <1>1 DEF SnapshotFits
    <3>4. \A i \in current[r]..Len(plan[r]) : steps'[r][i] = "skipped"
      BY <2>2, <2>4, <3>2, <1>1 DEF SnapshotFits
    <3> QED BY <2>2, <2>4, <3>1, <3>2, <3>3, <3>4 DEF SnapshotFits
  <2> QED BY <2>3, <2>4
<1> QED BY <1>2, <1>4, <1>5, <1>7, <1>8, <1>9, <1>10

\* start inserts the run and suspends in spawnStep if the first step has a
\* template.
LEMMA StartPipelineInv ==
    ASSUME PipeInv, NEW c \in RunCalls, NEW r \in RunIds, StartPipeline(c, r)
    PROVE  PipeInv'
<1> DEFINE snapshot == [i \in 1..Len(pipeline) |-> IF i = 1 THEN "running" ELSE "pending"]
           launched == pipeline[1].template \in templates
           copied == Importing(r, 1, snapshot, TRUE)
<1> USE DEF PipeInv, pipelineVars
<1>1. /\ pipeline \in StepLists /\ pipeline \in Seq(PipelineStep)
      /\ Len(pipeline) \in 1..MaxSteps /\ 1 \in 1..MaxSteps
  BY PipelineAssumption, PlanLength DEF StartPipeline, PipeTypeOK
<1>2. /\ status[r] = "none" /\ NotStarted(r) /\ call[c] = Returned
      /\ UNCHANGED <<exists, pipeline, templates, launches, raced, pipeCrashes>>
  BY DEF StartPipeline, ghostVars
<1>3. /\ plan' = [plan EXCEPT ![r] = pipeline]
      /\ status' = [status EXCEPT ![r] = "running"]
      /\ current' = [current EXCEPT ![r] = 1]
      /\ steps' = [steps EXCEPT ![r] = snapshot]
  BY DEF StartPipeline
<1>4. snapshot \in Seq(StepStatus) /\ Len(snapshot) = Len(pipeline)
  <2>1. snapshot \in [1..Len(pipeline) -> StepStatus]
    BY DEF StepStatus
  <2> QED BY <1>1, <2>1, FunctionIsSeq
<1>5. snapshot[1] = "running" /\ \A i \in 2..Len(pipeline) : snapshot[i] = "pending"
  BY <1>1
<1>6. /\ plan'[r] = pipeline /\ status'[r] = "running" /\ current'[r] = 1
      /\ steps'[r] = snapshot
      /\ \A x \in RunIds \ {r} : /\ plan'[x] = plan[x] /\ status'[x] = status[x]
                                  /\ current'[x] = current[x] /\ steps'[x] = steps[x]
  BY <1>3 DEF PipeTypeOK, RowType
<1>7. /\ \A i \in 1..MaxSteps : launches[r][i] = 0
      /\ \A d \in RunCalls : call[d].run # r
      /\ r \notin raced
  BY <1>2 DEF NotStarted
<1>8. \/ launched /\ call' = [call EXCEPT ![c] = copied]
      \/ ~launched /\ UNCHANGED call
  BY DEF StartPipeline, SpawnStep
<1> HIDE DEF snapshot, launched, copied
<1>9. launches' = launches /\ \A i \in 1..MaxSteps : launches'[r][i] = 0
  BY <1>2, <1>7
<1>10. /\ \A d \in RunCalls \ {c} : call'[d] = call[d]
       /\ call'[c] = IF launched THEN copied ELSE Returned
       /\ call' \in [RunCalls -> CallStates]
  <2>1. copied \in CallStates
    BY <1>4 DEF copied, Importing, CallStates
  <2> QED BY <1>2, <1>8, <2>1 DEF PipeTypeOK
<1>11. /\ copied.run = r /\ copied.step = 1 /\ copied.copy = snapshot /\ copied.starting
       /\ ~copied.launched
       /\ Returned.run = NoRun /\ NoRun \notin RunIds
  BY PipelineAssumption DEF copied, Importing, Returned
<1>12. RowType'
  BY <1>1, <1>3, <1>4 DEF RowType
<1>13. PipeTypeOK'
  <2>1. status' \in [RunIds -> RunStatus]
    BY <1>3 DEF PipeTypeOK, RunStatus
  <2>2. ASSUME NEW x \in RunIds
        PROVE  /\ plan'[x] \in StepLists \cup {<<>>}
               /\ steps'[x] \in Seq(StepStatus) /\ Len(steps'[x]) = Len(plan'[x])
               /\ status'[x] # "none" => current'[x] \in 1..Len(plan'[x])
    <3>1. CASE x = r
      BY <1>1, <1>4, <1>6, <3>1
    <3>2. CASE x # r
      BY <1>6, <3>2 DEF PipeTypeOK
    <3> QED BY <3>1, <3>2
  <2> QED BY <1>2, <1>10, <2>1, <2>2 DEF PipeTypeOK
<1>14. (\A x \in RunIds : status[x] = "none" => NotStarted(x))'
  BY <1>2, <1>6, <1>9, <1>10, <1>11 DEF NotStarted
<1>15. CallInv'
  <2> SUFFICES ASSUME NEW d \in RunCalls, call'[d] # Returned
               PROVE  LET s == call'[d] IN
                      /\ s.run \in RunIds /\ status'[s.run] # "none"
                      /\ s.step \in 1..Len(plan'[s.run]) /\ Len(s.copy) = Len(plan'[s.run])
                      /\ s.launched => launches'[s.run][s.step] > 0
                      /\ BeforeLaunched(call[d].run, call[d].step)'
                      /\ s.starting => s.step = 1
    BY DEF CallInv
  <2>1. CASE d = c
    <3>1. launched /\ call'[d] = copied
      BY <1>10, <2>1
    <3> QED BY <1>1, <1>4, <1>6, <1>11, <3>1 DEF BeforeLaunched
  <2>2. CASE d # c
    <3>1. call'[d] = call[d] /\ call[d].run # r
      BY <1>7, <1>10, <2>2
    <3>2. /\ call[d].run \in RunIds \ {r} /\ BeforeLaunched(call[d].run, call[d].step)
          /\ LET s == call[d] IN
             /\ status[s.run] # "none" /\ s.step \in 1..Len(plan[s.run])
             /\ Len(s.copy) = Len(plan[s.run])
             /\ s.launched => launches[s.run][s.step] > 0
             /\ s.starting => s.step = 1
      BY <2>2, <3>1 DEF CallInv
    <3> QED BY <1>2, <1>6, <3>1, <3>2 DEF BeforeLaunched, Excused
  <2> QED BY <2>1, <2>2
<1>17. /\ \A d \in RunCalls : call'[d].run # r => call'[d] = call[d]
       /\ \A d \in RunCalls : call[d].run \in RunIds => call'[d] = call[d]
       /\ \A d \in RunCalls : call'[d].run = r => d = c /\ call'[d] = copied
  BY <1>2, <1>7, <1>10, <1>11
<1>16. CurrentLaunched'
  <2> SUFFICES ASSUME NEW x \in RunIds, status'[x] # "none"
               PROVE  \/ launches'[x][current'[x]] > 0
                      \/ plan'[x][current'[x]].template \notin templates'
                      \/ /\ current'[x] = 1
                         /\ \/ Excused(x)'
                            \/ \E d \in RunCalls : call'[d].run = x /\ call'[d].starting
    BY DEF CurrentLaunched
  <2>1. CASE x = r
    BY <1>2, <1>6, <1>10, <1>11, <2>1 DEF launched
  <2>2. CASE x # r
    BY <1>2, <1>6, <1>17, <2>2 DEF CurrentLaunched, Excused
  <2> QED BY <2>1, <2>2
<1>23. LaunchIsNew'
  <2> SUFFICES ASSUME pipeCrashes = 0, NEW d \in RunCalls, call'[d].run \in RunIds \ raced,
                      ~call'[d].launched
               PROVE  launches[call'[d].run][call'[d].step] = 0
    BY <1>2 DEF LaunchIsNew
  <2>1. CASE call'[d].run = r
    BY <1>1, <1>7, <1>11, <1>17, <2>1
  <2>2. CASE call'[d].run # r
    BY <1>17, <2>2 DEF LaunchIsNew
  <2> QED BY <2>1, <2>2
<1>18. CallMatchesRow'
  <2> SUFFICES ASSUME NEW x \in RunIds \ raced'
               PROVE  /\ \A d, e \in RunCalls : call'[d].run = x /\ call'[e].run = x => d = e
                      /\ \A d \in RunCalls : call'[d].run = x =>
                           /\ status'[x] \in {"running", "deleted"}
                           /\ At(x, call[d].copy, call[d].step)'
                           /\ call'[d].step = IF call'[d].starting THEN current'[x]
                                                                   ELSE current'[x] + 1
    BY DEF CallMatchesRow
  <2>1. CASE x = r
    <3>1. \A d \in RunCalls : call'[d].run = r => At(r, call[d].copy, call[d].step)'
      BY <1>1, <1>5, <1>6, <1>11, <1>17, PlanLength DEF At
    <3> QED BY <1>6, <1>11, <1>17, <2>1, <3>1
  <2>2. CASE x # r
    <3>1. /\ status'[x] = status[x] /\ current'[x] = current[x] /\ plan'[x] = plan[x]
          /\ \A d \in RunCalls : call'[d].run = x => call'[d] = call[d]
      BY <1>6, <1>17, <2>2
    <3>2. x \in RunIds \ raced /\ CallMatchesRow
      BY <1>2
    <3>3. ASSUME NEW d \in RunCalls, call'[d].run = x
          PROVE  /\ status[x] \in {"running", "deleted"} /\ At(x, call[d].copy, call[d].step)
                 /\ call[d].step = IF call[d].starting THEN current[x] ELSE current[x] + 1
      BY <3>1, <3>2, <3>3 DEF CallMatchesRow
    <3>4. \A d, e \in RunCalls : call'[d].run = x /\ call'[e].run = x => d = e
      BY <3>1, <3>2 DEF CallMatchesRow
    <3> HIDE DEF PipeInv
    <3> QED BY <3>1, <3>3, <3>4 DEF At, DoneIn
  <2> QED BY <2>1, <2>2
<1>19. NoneAhead'
  <2> SUFFICES ASSUME pipeCrashes' = 0, NEW x \in RunIds \ raced', status'[x] = "running",
                      NEW i \in 1..MaxSteps, i > current'[x], launches'[x][i] > 0
               PROVE  \E d \in RunCalls : call'[d].run = x /\ call'[d].step = i
    BY DEF NoneAhead
  <2>1. x # r
    BY <1>6, <1>9
  <2>2. \E d \in RunCalls : call[d].run = x /\ call[d].step = i
    <3>1. status[x] = "running" /\ current[x] = current'[x] /\ launches[x] = launches'[x]
      BY <1>6, <1>9, <2>1
    <3>2. pipeCrashes = 0 /\ x \in RunIds \ raced /\ NoneAhead
      BY <1>2
    <3> HIDE DEF PipeInv
    <3> QED BY <3>1, <3>2 DEF NoneAhead
  <2> QED BY <1>17, <2>1, <2>2
<1>20. StepsInOrder'
  BY <1>2, <1>6, <1>9 DEF StepsInOrder
<1>21. SnapshotMatchesStatus'
  <2> SUFFICES ASSUME NEW x \in RunIds \ raced', status'[x] \notin {"none", "deleted"}
               PROVE  SnapshotFits(x)'
    BY DEF SnapshotMatchesStatus
  <2>1. CASE x = r
    BY <1>1, <1>5, <1>6, <2>1 DEF SnapshotFits
  <2>2. CASE x # r
    BY <1>2, <1>6, <2>2 DEF SnapshotMatchesStatus, SnapshotFits
  <2> QED BY <2>1, <2>2
<1>22. SpawnedOnce'
  <2> SUFFICES ASSUME pipeCrashes' = 0, NEW x \in RunIds \ raced', NEW i \in 1..MaxSteps
               PROVE  launches'[x][i] <= 1
    BY DEF SpawnedOnce
  <2>1. CASE x = r
    BY <1>9, <2>1
  <2>2. CASE x # r
    BY <1>2, <1>9, <2>2 DEF SpawnedOnce
  <2> QED BY <2>1, <2>2
<1> QED BY <1>12, <1>13, <1>14, <1>15, <1>16, <1>18, <1>19, <1>20, <1>21, <1>22, <1>23

\* A call that resumes writes its copy over the row, deleted rows excepted.
LEMMA SpawnReturnsInv ==
    ASSUME PipeInv, NEW c \in RunCalls, SpawnReturns(c)
    PROVE  PipeInv'
<1> DEFINE s == call[c]
           r == s.run
<1> USE DEF PipeInv, pipelineVars, ghostVars
<1>1. /\ call[c] # Returned /\ s.launched
      /\ call' = [call EXCEPT ![c] = Returned]
      /\ UNCHANGED <<exists, pipeline, templates, plan, status, launches, raced, pipeCrashes>>
  BY DEF SpawnReturns, WriteBack, Returned
<1>2. /\ r \in RunIds /\ status[r] # "none"
      /\ s.step \in 1..Len(plan[r]) /\ Len(s.copy) = Len(plan[r])
      /\ launches[r][s.step] > 0
      /\ s.starting => s.step = 1
      /\ s.copy \in Seq(StepStatus)
  BY <1>1 DEF CallInv, PipeTypeOK, CallStates
<1>3. \/ status[r] = "deleted" /\ UNCHANGED <<steps, current>>
      \/ /\ status[r] # "deleted"
         /\ steps' = [steps EXCEPT ![r] = s.copy]
         /\ current' = IF s.starting THEN current ELSE [current EXCEPT ![r] = s.step]
  BY DEF SpawnReturns, WriteBack
<1>4. /\ \A d \in RunCalls : call'[d] # Returned => call'[d] = call[d] /\ d # c
      /\ call'[c].run = NoRun
  BY <1>1 DEF PipeTypeOK, Returned
<1> HIDE DEF s, r
<1>5. RowType'
  <2>1. s.step \in Nat
    BY <1>2, PlanLength DEF RowType
  <2>2. steps' \in [RunIds -> Seq(StepStatus)]
    BY <1>2, <1>3 DEF RowType
  <2>3. current' \in [RunIds -> Nat]
    BY <1>3, <2>1 DEF RowType
  <2> QED BY <1>1, <2>2, <2>3 DEF RowType
<1>6. PipeTypeOK'
  <2>1. call' \in [RunCalls -> CallStates]
    BY <1>1, PipelineAssumption DEF PipeTypeOK, CallStates, Returned
  <2>2. ASSUME NEW x \in RunIds
        PROVE  /\ plan'[x] \in StepLists \cup {<<>>}
               /\ steps'[x] \in Seq(StepStatus) /\ Len(steps'[x]) = Len(plan'[x])
               /\ status'[x] # "none" => current'[x] \in 1..Len(plan'[x])
    BY <1>1, <1>2, <1>3 DEF PipeTypeOK, RowType
  <2> QED BY <1>1, <2>1, <2>2 DEF PipeTypeOK
<1>7. (\A x \in RunIds : status[x] = "none" => NotStarted(x))'
  BY <1>1, PipelineAssumption DEF NotStarted, PipeTypeOK, Returned
<1>8. CallInv'
  BY <1>1, <1>4 DEF CallInv, BeforeLaunched, Excused
<1>9. CurrentLaunched'
  <2> SUFFICES ASSUME NEW x \in RunIds, status[x] # "none"
               PROVE  \/ launches[x][current'[x]] > 0
                      \/ plan[x][current'[x]].template \notin templates
                      \/ /\ current'[x] = 1
                         /\ \/ Excused(x)
                            \/ \E d \in RunCalls : call'[d].run = x /\ call'[d].starting
    BY <1>1 DEF CurrentLaunched, Excused
  <2>1. CASE x = r /\ current'[r] = s.step
    BY <1>2, <2>1
  <2>2. CASE ~(x = r /\ current'[r] = s.step)
    <3>1. current'[x] = current[x]
      BY <1>2, <1>3, <2>2 DEF RowType
    <3>2. ASSUME NEW d \in RunCalls, call[d].run = x, call[d].starting, current[x] = 1
          PROVE  call'[d] = call[d]
      <4>1. d # c
        BY <1>2, <2>2, <3>1, <3>2 DEF r, s
      <4> QED BY <1>1, <4>1 DEF PipeTypeOK
    <3> QED BY <3>1, <3>2 DEF CurrentLaunched
  <2> QED BY <2>1, <2>2
<1>15. LaunchIsNew'
  BY <1>1, <1>4, PipelineAssumption DEF LaunchIsNew, Returned
<1>10. \A d \in RunCalls, x \in RunIds : call'[d].run = x => call'[d] = call[d] /\ d # c
  BY <1>4, PipelineAssumption DEF Returned
<1>11. CallMatchesRow'
  <2> SUFFICES ASSUME NEW x \in RunIds \ raced',
                      NEW d \in RunCalls, call'[d].run = x
               PROVE  /\ \A e \in RunCalls : call'[e].run = x => d = e
                      /\ status'[x] \in {"running", "deleted"}
                      /\ At(x, call[d].copy, call[d].step)'
                      /\ call'[d].step = IF call'[d].starting THEN current'[x]
                                                              ELSE current'[x] + 1
    BY DEF CallMatchesRow
  <2>1. call'[d] = call[d] /\ d # c
    BY <1>10
  <2>2. x # r
    BY <1>1, <2>1 DEF CallMatchesRow, r, s
  <2>3. current'[x] = current[x]
    BY <1>2, <1>3, <2>2 DEF RowType
  <2> QED BY <1>1, <1>10, <2>1, <2>3 DEF CallMatchesRow, At, DoneIn
<1>12. NoneAhead'
  <2> SUFFICES ASSUME pipeCrashes' = 0, NEW x \in RunIds \ raced', status'[x] = "running",
                      NEW i \in 1..MaxSteps, i > current'[x], launches'[x][i] > 0
               PROVE  \E d \in RunCalls : call'[d].run = x /\ call'[d].step = i
    BY DEF NoneAhead
  <2>1. CASE x = r
    <3>1. /\ \A d \in RunCalls : call[d].run = r => d = c
          /\ s.step = IF s.starting THEN current[r] ELSE current[r] + 1
      BY <1>1, <1>2, <2>1 DEF CallMatchesRow, r, s
    <3>2. i > current[r]
      BY <1>2, <1>3, <2>1, <3>1 DEF RowType
    <3>3. s.step = i
      BY <1>1, <2>1, <3>1, <3>2 DEF NoneAhead, s, r
    <3> QED BY <1>1, <1>2, <1>3, <2>1, <3>1, <3>2, <3>3 DEF RowType
  <2>2. CASE x # r
    <3>1. current'[x] = current[x]
      BY <1>2, <1>3, <2>2 DEF RowType
    <3>2. PICK d \in RunCalls : call[d].run = x /\ call[d].step = i
      BY <1>1, <3>1 DEF NoneAhead
    <3>3. d # c
      BY <2>2, <3>2 DEF r, s
    <3> QED BY <1>1, <3>2, <3>3 DEF PipeTypeOK
  <2> QED BY <2>1, <2>2
<1>13. StepsInOrder' /\ SpawnedOnce'
  BY <1>1 DEF StepsInOrder, SpawnedOnce
<1>14. SnapshotMatchesStatus'
  <2> SUFFICES ASSUME NEW x \in RunIds \ raced', status'[x] \notin {"none", "deleted"}
               PROVE  SnapshotFits(x)'
    BY DEF SnapshotMatchesStatus
  <2>1. CASE x = r
    <3>1. /\ status[r] = "running" /\ At(r, s.copy, s.step)
          /\ s.step = IF s.starting THEN current[r] ELSE current[r] + 1
      BY <1>1, <1>2, <2>1 DEF CallMatchesRow, r, s
    <3>2. steps'[r] = s.copy /\ current'[r] = s.step /\ status'[r] = "running"
      BY <1>1, <1>2, <1>3, <3>1 DEF RowType
    <3> QED BY <1>1, <2>1, <3>1, <3>2 DEF SnapshotFits, At, DoneIn
  <2>2. CASE x # r
    <3>1. steps'[x] = steps[x] /\ current'[x] = current[x]
      BY <1>2, <1>3, <2>2 DEF RowType
    <3> QED BY <1>1, <3>1 DEF SnapshotMatchesStatus, SnapshotFits
  <2> QED BY <2>1, <2>2
<1> QED BY <1>5, <1>6, <1>7, <1>8, <1>9, <1>11, <1>12, <1>13, <1>14, <1>15

\* The snapshots advance makes out of the row's: the current step is marked
\* with its result, the rest is skipped or the next step is set running.
LEMMA AdvanceSnapshots ==
    ASSUME PipeTypeOK, RowType, NEW r \in RunIds, status[r] = "running",
           NEW result \in {"completed", "failed"}
    PROVE  LET cur == current[r]
               n == Len(plan[r])
               marked == [steps[r] EXCEPT ![cur] = result]
               next == [marked EXCEPT ![cur + 1] = "running"]
           IN  /\ n \in 0..MaxSteps /\ cur \in 1..n
               /\ marked \in Seq(StepStatus) /\ Len(marked) = n
               /\ \A i \in 1..n : marked[i] = IF i = cur THEN result ELSE steps[r][i]
               /\ next \in Seq(StepStatus) /\ Len(next) = n
               /\ \A i \in 1..n : next[i] = IF i = cur + 1 THEN "running" ELSE marked[i]
               /\ SkipRest(r, marked) \in Seq(StepStatus) /\ Len(SkipRest(r, marked)) = n
               /\ \A i \in 1..n : SkipRest(r, marked)[i] =
                                    IF i > cur THEN "skipped" ELSE marked[i]
<1> DEFINE cur == current[r]
           n == Len(plan[r])
           marked == [steps[r] EXCEPT ![cur] = result]
           next == [marked EXCEPT ![cur + 1] = "running"]
<1>1. n \in 0..MaxSteps /\ cur \in 1..n /\ steps[r] \in Seq(StepStatus) /\ Len(steps[r]) = n
  BY PlanLength DEF PipeTypeOK, RowType
<1>2. result \in StepStatus /\ "running" \in StepStatus
  BY DEF StepStatus
<1>3. /\ marked \in Seq(StepStatus) /\ Len(marked) = n
      /\ \A i \in 1..n : marked[i] = IF i = cur THEN result ELSE steps[r][i]
  BY <1>1, <1>2, ExceptKeepsSnapshot
<1> HIDE DEF marked
<1>4. /\ next \in Seq(StepStatus) /\ Len(next) = n
      /\ \A i \in 1..n : next[i] = IF i = cur + 1 THEN "running" ELSE marked[i]
  BY <1>1, <1>2, <1>3, ExceptKeepsSnapshot
<1>5. SkipRest(r, marked) \in [1..n -> StepStatus]
  <2>1. \A i \in 1..n : marked[i] \in StepStatus
    BY <1>1, <1>3
  <2> QED BY <1>3, <2>1 DEF SkipRest, StepStatus
<1>6. SkipRest(r, marked) \in Seq(StepStatus) /\ Len(SkipRest(r, marked)) = n
  BY <1>1, <1>5, FunctionIsSeq
<1>7. \A i \in 1..n : SkipRest(r, marked)[i] = IF i > cur THEN "skipped" ELSE marked[i]
  BY <1>3 DEF SkipRest
<1> QED BY <1>1, <1>3, <1>4, <1>6, <1>7 DEF marked

\* advance that writes its result before it returns: the run failed, was
\* completed, or goes on without an agent for the next step.
LEMMA AdvanceWritesInv ==
    ASSUME PipeInv, NEW c \in RunCalls, NEW r \in RunIds, NEW success \in BOOLEAN,
           AdvanceRun(c, r, success), UNCHANGED call
    PROVE  PipeInv'
<1> DEFINE cur == current[r]
           n == Len(plan[r])
           result == IF success THEN "completed" ELSE "failed"
           marked == [steps[r] EXCEPT ![cur] = result]
           next == [marked EXCEPT ![cur + 1] = "running"]
<1> USE DEF PipeInv
<1>1. /\ status[r] = "running"
      /\ UNCHANGED <<exists, pipeline, templates, plan, launches, pipeCrashes>>
      /\ raced' = raced \/ (raced' = raced \cup {r} /\ \E d \in RunCalls : call[d].run = r)
      /\ r \in raced' \/ \A d \in RunCalls : call[d].run # r
  BY DEF AdvanceRun, Advanceable, NoteRace, pipelineVars
<1>2. /\ n \in 0..MaxSteps /\ cur \in 1..n
      /\ marked \in Seq(StepStatus) /\ Len(marked) = n
      /\ \A i \in 1..n : marked[i] = IF i = cur THEN result ELSE steps[r][i]
      /\ next \in Seq(StepStatus) /\ Len(next) = n
      /\ \A i \in 1..n : next[i] = IF i = cur + 1 THEN "running" ELSE marked[i]
      /\ SkipRest(r, marked) \in Seq(StepStatus) /\ Len(SkipRest(r, marked)) = n
      /\ \A i \in 1..n : SkipRest(r, marked)[i] = IF i > cur THEN "skipped" ELSE marked[i]
  <2>1. result \in {"completed", "failed"} /\ PipeTypeOK /\ RowType /\ status[r] = "running"
    BY <1>1
  <2> HIDE DEF result, PipeInv
  <2> QED BY <2>1, AdvanceSnapshots
<1>3. \/ /\ ~success /\ plan[r][cur].onFailure = "stop"
         /\ status' = [status EXCEPT ![r] = "failed"]
         /\ steps' = [steps EXCEPT ![r] = SkipRest(r, marked)]
         /\ current' = current
      \/ /\ success \/ plan[r][cur].onFailure # "stop"
         /\ cur >= n
         /\ status' = [status EXCEPT ![r] = "completed"]
         /\ steps' = [steps EXCEPT ![r] = marked]
         /\ current' = current
      \/ /\ success \/ plan[r][cur].onFailure # "stop"
         /\ cur < n
         /\ plan[r][cur + 1].template \notin templates
         /\ current' = [current EXCEPT ![r] = cur + 1]
         /\ steps' = [steps EXCEPT ![r] = next]
         /\ status' = status
  <2>1. ~SpawnStep(c, r, cur + 1, next, FALSE)
    BY <1>2, PipelineAssumption DEF SpawnStep, Importing, AdvanceRun, PipeTypeOK, Returned
  <2> QED BY <1>2, <2>1 DEF AdvanceRun, StopsRun
<1>4. plan[r][cur].onFailure \in {"stop", "continue"}
  <2>1. plan[r][cur] \in PipelineStep
    BY <1>2, PlanLength DEF RowType
  <2> QED BY <2>1 DEF PipelineStep
<1> HIDE DEF marked, next
<1>5. /\ status'[r] \in {"failed", "completed", "running"}
      /\ current'[r] \in 1..n /\ current'[r] >= cur
      /\ steps'[r] \in Seq(StepStatus) /\ Len(steps'[r]) = n
      /\ \A x \in RunIds \ {r} : /\ status'[x] = status[x] /\ current'[x] = current[x]
                                 /\ steps'[x] = steps[x]
  BY <1>1, <1>2, <1>3 DEF PipeTypeOK, RowType
<1>6. RowType'
  <2>1. current' \in [RunIds -> Nat]
    BY <1>2, <1>3 DEF RowType
  <2>2. steps' \in [RunIds -> Seq(StepStatus)]
    BY <1>2, <1>3 DEF RowType
  <2> QED BY <1>1, <2>1, <2>2 DEF RowType
<1>7. PipeTypeOK'
  <2>1. status' \in [RunIds -> RunStatus]
    BY <1>3 DEF PipeTypeOK, RunStatus
  <2>2. ASSUME NEW x \in RunIds
        PROVE  /\ plan'[x] \in StepLists \cup {<<>>}
               /\ steps'[x] \in Seq(StepStatus) /\ Len(steps'[x]) = Len(plan'[x])
               /\ status'[x] # "none" => current'[x] \in 1..Len(plan'[x])
    BY <1>1, <1>5 DEF PipeTypeOK
  <2> QED BY <1>1, <2>1, <2>2 DEF PipeTypeOK
<1>8. (\A x \in RunIds : status[x] = "none" => NotStarted(x))'
  BY <1>1, <1>5 DEF NotStarted
<1>9. \A x \in RunIds : status'[x] = "none" <=> status[x] = "none"
  BY <1>1, <1>5
<1>10. CallInv'
  BY <1>1, <1>9 DEF CallInv, BeforeLaunched, Excused
<1>11. CurrentLaunched'
  <2> SUFFICES ASSUME NEW x \in RunIds, status'[x] # "none"
               PROVE  \/ launches[x][current'[x]] > 0
                      \/ plan[x][current'[x]].template \notin templates
                      \/ /\ current'[x] = 1
                         /\ Excused(x)' \/ \E d \in RunCalls : call[d].run = x /\ call[d].starting
    BY <1>1 DEF CurrentLaunched
  <2>1. CASE current'[x] = current[x]
    BY <1>1, <1>9, <2>1 DEF CurrentLaunched, Excused
  <2>2. CASE current'[x] # current[x]
    BY <1>3, <2>2 DEF RowType
  <2> QED BY <2>1, <2>2
<1>16. LaunchIsNew'
  BY <1>1 DEF LaunchIsNew
<1>12. CallMatchesRow'
  <2> SUFFICES ASSUME NEW x \in RunIds \ raced', NEW d \in RunCalls, call[d].run = x
               PROVE  /\ \A e \in RunCalls : call[e].run = x => d = e
                      /\ status'[x] \in {"running", "deleted"}
                      /\ At(x, call[d].copy, call[d].step)'
                      /\ call[d].step = IF call[d].starting THEN current'[x]
                                                            ELSE current'[x] + 1
    BY DEF CallMatchesRow
  <2>1. x # r
    BY <1>1
  <2>2. /\ x \in RunIds \ raced /\ status'[x] = status[x] /\ current'[x] = current[x]
    BY <1>1, <1>5, <2>1
  <2> QED BY <1>1, <2>2 DEF CallMatchesRow, At, DoneIn
<1>13. NoneAhead'
  <2> SUFFICES ASSUME pipeCrashes = 0, NEW x \in RunIds \ raced', status'[x] = "running",
                      NEW i \in 1..MaxSteps, i > current'[x], launches[x][i] > 0
               PROVE  \E d \in RunCalls : call[d].run = x /\ call[d].step = i
    BY <1>1 DEF NoneAhead
  <2>1. status[x] = "running" /\ i > current[x] /\ x \in RunIds \ raced
    BY <1>1, <1>2, <1>5
  <2> QED BY <2>1 DEF NoneAhead
<1>14. StepsInOrder' /\ SpawnedOnce'
  BY <1>1 DEF StepsInOrder, SpawnedOnce
<1>15. SnapshotMatchesStatus'
  <2> SUFFICES ASSUME NEW x \in RunIds \ raced', status'[x] \notin {"none", "deleted"}
               PROVE  SnapshotFits(x)'
    BY DEF SnapshotMatchesStatus
  <2>1. CASE x # r
    BY <1>1, <1>5, <2>1 DEF SnapshotMatchesStatus, SnapshotFits
  <2>2. CASE x = r
    <3>1. SnapshotFits(r) /\ plan'[r] = plan[r]
      BY <1>1, <2>2 DEF SnapshotMatchesStatus
    <3>2. /\ \A i \in 1..(cur - 1) : DoneIn(r, steps[r], i)
          /\ \A i \in (cur + 1)..n : steps[r][i] = "pending"
      BY <1>1, <3>1 DEF SnapshotFits, DoneIn
    <3>3. \A i \in 1..(cur - 1) : DoneIn(r, marked, i)
      BY <1>2, <3>2 DEF DoneIn
    <3>4. CASE status'[r] = "failed"
      <4>1. /\ steps'[r] = SkipRest(r, marked) /\ current'[r] = cur /\ ~success
            /\ plan[r][cur].onFailure = "stop"
        BY <1>1, <1>3, <3>4 DEF PipeTypeOK, RowType
      <4>2. \A i \in 1..(cur - 1) : DoneIn(r, steps'[r], i)
        BY <1>2, <3>3, <4>1 DEF DoneIn
      <4>3. steps'[r][cur] = "failed" /\ \A i \in (cur + 1)..n : steps'[r][i] = "skipped"
        BY <1>2, <4>1
      <4> QED BY <2>2, <3>1, <3>4, <4>1, <4>2, <4>3 DEF SnapshotFits, DoneIn
    <3>5. CASE status'[r] = "completed"
      <4>1. /\ steps'[r] = marked /\ current'[r] = cur /\ cur = n
            /\ success \/ plan[r][cur].onFailure # "stop"
        BY <1>1, <1>2, <1>3, <3>5 DEF PipeTypeOK, RowType
      <4>2. DoneIn(r, marked, cur)
        BY <1>2, <1>4, <4>1 DEF DoneIn
      <4> QED BY <2>2, <3>1, <3>3, <3>5, <4>1, <4>2 DEF SnapshotFits, DoneIn
    <3>6. CASE status'[r] = "running"
      <4>1. /\ steps'[r] = next /\ current'[r] = cur + 1 /\ cur < n
            /\ success \/ plan[r][cur].onFailure # "stop"
        BY <1>1, <1>2, <1>3, <3>6 DEF PipeTypeOK, RowType
      <4>2. DoneIn(r, marked, cur)
        BY <1>2, <1>4, <4>1 DEF DoneIn
      <4>3. \A i \in 1..cur : DoneIn(r, next, i)
        BY <1>2, <3>3, <4>2 DEF DoneIn
      <4>4. next[cur + 1] = "running" /\ \A i \in (cur + 2)..n : next[i] = "pending"
        <5>1. cur + 1 \in 1..n /\ next[cur + 1] = "running"
          BY <1>2, <4>1
        <5>2. ASSUME NEW i \in (cur + 2)..n
              PROVE  next[i] = "pending"
          <6>1. /\ i \in 1..n /\ i # cur /\ i # cur + 1
                /\ i \in (cur + 1)..n
            BY <1>2
          <6>2. next[i] = marked[i] /\ marked[i] = steps[r][i]
            BY <1>2, <6>1
          <6> QED BY <3>2, <6>1, <6>2
        <5> QED BY <5>1, <5>2
      <4>5. current'[r] - 1 = cur /\ current'[r] + 1 = cur + 2
        BY <1>2, <4>1
      <4> HIDE DEF cur, n, PipeInv
      <4>6. /\ \A i \in 1..(current'[r] - 1) : DoneIn(r, steps'[r], i)
            /\ steps'[r][current'[r]] = "running"
            /\ \A i \in (current'[r] + 1)..Len(plan'[r]) : steps'[r][i] = "pending"
        BY <3>1, <4>1, <4>3, <4>4, <4>5 DEF n
      <4> QED BY <2>2, <3>1, <3>6, <4>6 DEF SnapshotFits, DoneIn
    <3> QED BY <1>5, <3>4, <3>5, <3>6
  <2> QED BY <2>1, <2>2
<1> QED BY <1>6, <1>7, <1>8, <1>10, <1>11, <1>12, <1>13, <1>14, <1>15, <1>16

\* advance that suspends to launch the next step: the row is left as it
\* is, and the copy the call took is the snapshot one step on.
LEMMA AdvanceSuspendsInv ==
    ASSUME PipeInv, NEW c \in RunCalls, NEW r \in RunIds, NEW success \in BOOLEAN,
           AdvanceRun(c, r, success), call' # call
    PROVE  PipeInv'
<1> DEFINE cur == current[r]
           n == Len(plan[r])
           result == IF success THEN "completed" ELSE "failed"
           marked == [steps[r] EXCEPT ![cur] = result]
           next == [marked EXCEPT ![cur + 1] = "running"]
           copied == Importing(r, cur + 1, next, FALSE)
<1> USE DEF PipeInv
<1>1. /\ status[r] = "running" /\ call[c] = Returned
      /\ UNCHANGED <<exists, pipeline, templates, plan, launches, pipeCrashes>>
      /\ raced' = raced \/ (raced' = raced \cup {r} /\ \E d \in RunCalls : call[d].run = r)
      /\ r \in raced' \/ \A d \in RunCalls : call[d].run # r
  BY DEF AdvanceRun, Advanceable, NoteRace, pipelineVars
<1>2. /\ n \in 0..MaxSteps /\ cur \in 1..n
      /\ marked \in Seq(StepStatus) /\ Len(marked) = n
      /\ \A i \in 1..n : marked[i] = IF i = cur THEN result ELSE steps[r][i]
      /\ next \in Seq(StepStatus) /\ Len(next) = n
      /\ \A i \in 1..n : next[i] = IF i = cur + 1 THEN "running" ELSE marked[i]
      /\ SkipRest(r, marked) \in Seq(StepStatus) /\ Len(SkipRest(r, marked)) = n
      /\ \A i \in 1..n : SkipRest(r, marked)[i] = IF i > cur THEN "skipped" ELSE marked[i]
  <2>1. result \in {"completed", "failed"} /\ PipeTypeOK /\ RowType /\ status[r] = "running"
    BY <1>1
  <2> HIDE DEF result, PipeInv
  <2> QED BY <2>1, AdvanceSnapshots
<1>3. /\ success \/ plan[r][cur].onFailure # "stop"
      /\ cur < n
      /\ call' = [call EXCEPT ![c] = copied]
      /\ UNCHANGED <<status, current, steps>>
  BY <1>2 DEF AdvanceRun, StopsRun, SpawnStep
<1>4. plan[r][cur].onFailure \in {"stop", "continue"}
  <2>1. plan[r][cur] \in PipelineStep
    BY <1>2, PlanLength DEF RowType
  <2> QED BY <2>1 DEF PipelineStep
<1>5. cur + 1 \in 1..n /\ cur + 1 \in 1..MaxSteps /\ cur + 1 \in Nat
  BY <1>2, <1>3, PipelineAssumption
<1> HIDE DEF marked, next, copied
<1>9. /\ \A d \in RunCalls \ {c} : call'[d] = call[d]
      /\ call'[c] = copied
      /\ call' \in [RunCalls -> CallStates]
  <2>1. copied \in CallStates
    BY <1>2, <1>5 DEF copied, Importing, CallStates
  <2> QED BY <1>3, <2>1 DEF PipeTypeOK
<1>10. /\ copied.run = r /\ copied.step = cur + 1 /\ copied.copy = next /\ ~copied.starting
       /\ ~copied.launched
       /\ Returned.run = NoRun /\ NoRun \notin RunIds
  BY PipelineAssumption DEF copied, Importing, Returned
<1>11. /\ \A d \in RunCalls : call'[d].run # r => call'[d] = call[d]
       /\ \A d \in RunCalls : call[d].run \in RunIds => call'[d] = call[d]
  BY <1>1, <1>9, <1>10
<1>12. RowType' /\ PipeTypeOK'
  <2>1. raced' \subseteq RunIds
    BY <1>1 DEF PipeTypeOK
  <2>2. RowType'
    BY <1>1, <1>3 DEF RowType
  <2> QED BY <1>1, <1>3, <1>9, <2>1, <2>2 DEF PipeTypeOK
<1>13. (\A x \in RunIds : status[x] = "none" => NotStarted(x))'
  <2> SUFFICES ASSUME NEW x \in RunIds, status[x] = "none"
               PROVE  NotStarted(x)'
    BY <1>3
  <2>1. NotStarted(x) /\ x # r
    BY <1>1
  <2> QED BY <1>1, <1>9, <1>10, <2>1 DEF NotStarted
<1>14. CallInv'
  <2> SUFFICES ASSUME NEW d \in RunCalls, call'[d] # Returned
               PROVE  LET s == call'[d] IN
                      /\ s.run \in RunIds /\ status[s.run] # "none"
                      /\ s.step \in 1..Len(plan[s.run]) /\ Len(s.copy) = Len(plan[s.run])
                      /\ s.launched => launches[s.run][s.step] > 0
                      /\ BeforeLaunched(call[d].run, call[d].step)'
                      /\ s.starting => s.step = 1
    BY <1>1, <1>3 DEF CallInv
  <2>1. CASE d = c
    <3>1. \/ launches[r][cur] > 0 \/ plan[r][cur].template \notin templates
          \/ cur = 1 /\ (r \in raced' \/ pipeCrashes > 0)
      BY <1>1 DEF CurrentLaunched, Excused
    <3>2. call'[d].run = r /\ call'[d].step = cur + 1 /\ (cur + 1) - 1 = cur
      BY <1>2, <1>9, <1>10, <2>1
    <3>3. BeforeLaunched(call[d].run, call[d].step)'
      BY <1>1, <3>1, <3>2 DEF BeforeLaunched, Excused
    <3> QED BY <1>1, <1>2, <1>5, <1>9, <1>10, <2>1, <3>3
  <2>2. CASE d # c
    <3>1. call'[d] = call[d]
      BY <1>9, <2>2
    <3>2. BeforeLaunched(call[d].run, call[d].step)
      BY <3>1 DEF CallInv
    <3>3. BeforeLaunched(call[d].run, call[d].step)'
      BY <1>1, <3>1, <3>2 DEF BeforeLaunched, Excused
    <3> QED BY <3>1, <3>3 DEF CallInv
  <2> QED BY <2>1, <2>2
<1>15. CurrentLaunched'
  BY <1>1, <1>3, <1>11 DEF CurrentLaunched, Excused
<1>16. StepsInOrder'
  BY <1>1 DEF StepsInOrder
<1>17. r \notin raced' => SnapshotFits(r)
  BY <1>1 DEF SnapshotMatchesStatus
<1>18. CallMatchesRow'
  <2> SUFFICES ASSUME NEW x \in RunIds \ raced', NEW d \in RunCalls, call'[d].run = x
               PROVE  /\ \A e \in RunCalls : call'[e].run = x => d = e
                      /\ status[x] \in {"running", "deleted"}
                      /\ At(x, call[d].copy, call[d].step)'
                      /\ call'[d].step = IF call'[d].starting THEN current[x]
                                                            ELSE current[x] + 1
    BY <1>3 DEF CallMatchesRow
  <2>1. CASE x = r
    <3>1. \A e \in RunCalls : call'[e].run = r => e = c
      BY <1>1, <1>9, <2>1
    <3>2. /\ \A i \in 1..(cur - 1) : DoneIn(r, steps[r], i)
          /\ \A i \in (cur + 1)..n : steps[r][i] = "pending"
      BY <1>1, <1>17, <2>1 DEF SnapshotFits, DoneIn
    <3>3. DoneIn(r, marked, cur)
      BY <1>2, <1>3, <1>4 DEF DoneIn
    <3>4. \A i \in 1..cur : DoneIn(r, next, i)
      BY <1>2, <3>2, <3>3 DEF DoneIn
    <3>5. ASSUME NEW i \in (cur + 2)..n
          PROVE  next[i] = "pending"
      <4>1. /\ i \in 1..n /\ i # cur /\ i # cur + 1
            /\ i \in (cur + 1)..n
        BY <1>2
      <4>2. next[i] = marked[i] /\ marked[i] = steps[r][i]
        BY <1>2, <4>1
      <4> QED BY <3>2, <4>1, <4>2
    <3>6. next[cur + 1] = "running"
      BY <1>2, <1>5
    <3>7. At(r, next, cur + 1)
      <4> DEFINE i == cur + 1
      <4>1. cur \in Nat
        BY <1>2
      <4> HIDE DEF cur, PipeInv
      <4>2. i - 1 = cur /\ i + 1 = cur + 2 /\ Len(plan[r]) = n /\ i = cur + 1
        BY <4>1
      <4> HIDE DEF i, n
      <4>3. /\ \A k \in 1..(i - 1) : DoneIn(r, next, k)
            /\ next[i] = "running"
            /\ \A k \in (i + 1)..Len(plan[r]) : next[k] = "pending"
        BY <3>4, <3>5, <3>6, <4>2
      <4>4. At(r, next, i)
        BY <4>3 DEF At
      <4> QED BY <4>2, <4>4
    <3>8. At(r, call[d].copy, call[d].step)'
      BY <1>1, <1>9, <1>10, <2>1, <3>1, <3>7 DEF At, DoneIn
    <3> QED BY <1>1, <1>9, <1>10, <2>1, <3>1, <3>8
  <2>2. CASE x # r
    <3>1. /\ call'[d] = call[d] /\ x \in RunIds \ raced
          /\ \A e \in RunCalls : call'[e].run = x => call'[e] = call[e]
      BY <1>1, <1>11, <2>2
    <3> QED BY <1>1, <3>1 DEF CallMatchesRow, At, DoneIn
  <2> QED BY <2>1, <2>2
<1>19. ASSUME r \notin raced', pipeCrashes = 0, NEW i \in 1..MaxSteps, i > cur
       PROVE  launches[r][i] = 0
  <2>1. r \in RunIds \ raced /\ (\A d \in RunCalls : call[d].run # r) /\ NoneAhead
    BY <1>1, <1>19
  <2>2. ~(launches[r][i] > 0)
    BY <1>1, <1>19, <2>1 DEF NoneAhead
  <2>3. launches[r][i] \in 0..2
    BY DEF PipeTypeOK
  <2> QED BY <2>2, <2>3
<1>20. NoneAhead'
  <2> SUFFICES ASSUME pipeCrashes = 0, NEW x \in RunIds \ raced', status[x] = "running",
                      NEW i \in 1..MaxSteps, i > current[x], launches[x][i] > 0
               PROVE  \E d \in RunCalls : call'[d].run = x /\ call'[d].step = i
    BY <1>1, <1>3 DEF NoneAhead
  <2>1. x # r
    BY <1>19
  <2>2. PICK d \in RunCalls : call[d].run = x /\ call[d].step = i
    BY <1>1, <2>1 DEF NoneAhead
  <2> QED BY <1>11, <2>2
<1>21. LaunchIsNew'
  <2> SUFFICES ASSUME pipeCrashes = 0, NEW d \in RunCalls, call'[d].run \in RunIds \ raced',
                      ~call'[d].launched
               PROVE  launches[call'[d].run][call'[d].step] = 0
    BY <1>1 DEF LaunchIsNew
  <2>1. CASE d = c
    <3>1. call'[d].run = r /\ call'[d].step = cur + 1 /\ r \notin raced'
      BY <1>9, <1>10, <2>1
    <3>2. cur + 1 > cur
      BY <1>2
    <3>3. launches[r][cur + 1] = 0
      BY <1>5, <1>19, <3>1, <3>2
    <3> QED BY <3>1, <3>3
  <2>2. CASE d # c
    BY <1>1, <1>9, <2>2 DEF LaunchIsNew
  <2> QED BY <2>1, <2>2
<1>6. SpawnedOnce'
  BY <1>1 DEF SpawnedOnce
<1>22. SnapshotMatchesStatus'
  <2> SUFFICES ASSUME NEW x \in RunIds \ raced', status[x] \notin {"none", "deleted"}
               PROVE  SnapshotFits(x)'
    BY <1>3 DEF SnapshotMatchesStatus
  <2>1. SnapshotFits(x)
    BY <1>1 DEF SnapshotMatchesStatus
  <2> QED BY <1>1, <1>3, <2>1 DEF SnapshotFits
<1> QED BY <1>6, <1>12, <1>13, <1>14, <1>15, <1>16, <1>18, <1>20, <1>21, <1>22

\* The launch behind the import: no row is touched, and the agent is the
\* first for its step unless the run is excused.
LEMMA LaunchInv ==
    ASSUME PipeInv, NEW c \in RunCalls, Launch(c)
    PROVE  PipeInv'
<1> DEFINE r == call[c].run
           k == call[c].step
           more == IF launches[r][k] = 2 THEN 2 ELSE launches[r][k] + 1
           behind == [call[c] EXCEPT !.launched = TRUE]
<1> USE DEF PipeInv
<1>1. /\ call[c] # Returned /\ ~call[c].launched
      /\ call' = [call EXCEPT ![c] = behind]
      /\ launches' = [launches EXCEPT ![r] = [@ EXCEPT ![k] = more]]
      /\ UNCHANGED <<exists, pipeline, templates, plan, status, current, steps, raced, pipeCrashes>>
  BY DEF Launch, pipelineVars, rowVars
<1>2. /\ r \in RunIds /\ status[r] # "none" /\ k \in 1..Len(plan[r])
      /\ BeforeLaunched(r, k)
  BY <1>1 DEF CallInv
<1>3. k \in 1..MaxSteps
  BY <1>2, PlanLength, PipelineAssumption DEF RowType
<1>4. /\ launches \in [RunIds -> [1..MaxSteps -> 0..2]] /\ call \in [RunCalls -> CallStates]
      /\ call[c] \in CallStates
  BY DEF PipeTypeOK
<1>5. launches[r] \in [1..MaxSteps -> 0..2] /\ more \in 1..2
  <2>1. launches[r][k] \in 0..2
    BY <1>2, <1>3, <1>4
  <2> QED BY <1>2, <1>4, <2>1
<1>6. /\ behind \in CallStates /\ behind.run = r /\ behind.step = k
      /\ behind.copy = call[c].copy /\ behind.starting = call[c].starting /\ behind.launched
  BY <1>4 DEF CallStates
<1> HIDE DEF behind, more
<1>7. /\ \A d \in RunCalls \ {c} : call'[d] = call[d]
      /\ call'[c] = behind /\ call' \in [RunCalls -> CallStates]
  BY <1>1, <1>4, <1>6
<1>8. /\ \A x \in RunIds \ {r} : launches'[x] = launches[x]
      /\ \A i \in (1..MaxSteps) \ {k} : launches'[r][i] = launches[r][i]
      /\ launches'[r][k] = more
      /\ launches' \in [RunIds -> [1..MaxSteps -> 0..2]]
  <2>0. more \in 0..2
    BY <1>5
  <2>1. [launches[r] EXCEPT ![k] = more] \in [1..MaxSteps -> 0..2]
    BY <1>5, <2>0
  <2>2. launches'[r] = [launches[r] EXCEPT ![k] = more]
    BY <1>1, <1>2, <1>4
  <2> QED BY <1>1, <1>2, <1>3, <1>4, <1>5, <2>1, <2>2
<1>9. \A d \in RunCalls : /\ call'[d].run = call[d].run /\ call'[d].step = call[d].step
                          /\ call'[d].copy = call[d].copy /\ call'[d].starting = call[d].starting
  BY <1>6, <1>7
<1>10. \A x \in RunIds, i \in 1..MaxSteps : launches[x][i] > 0 => launches'[x][i] > 0
  <2> SUFFICES ASSUME NEW x \in RunIds, NEW i \in 1..MaxSteps, launches[x][i] > 0
               PROVE  launches'[x][i] > 0
    OBVIOUS
  <2>1. CASE x = r /\ i = k
    BY <1>5, <1>8, <2>1
  <2>2. CASE x = r /\ i # k
    BY <1>8, <2>2
  <2>3. CASE x # r
    BY <1>8, <2>3
  <2> QED BY <2>1, <2>2, <2>3
<1>11. PipeTypeOK' /\ RowType'
  BY <1>1, <1>7, <1>8 DEF PipeTypeOK, RowType
<1>12. (\A x \in RunIds : status[x] = "none" => NotStarted(x))'
  BY <1>1, <1>2, <1>8, <1>9 DEF NotStarted
<1>13. ASSUME NEW x \in RunIds, NEW i \in 1..MaxSteps, BeforeLaunched(x, i)
       PROVE  BeforeLaunched(x, i)'
  <2>1. i = 1 \/ i - 1 \in 1..MaxSteps
    BY PipelineAssumption
  <2> QED BY <1>1, <1>10, <1>13, <2>1 DEF BeforeLaunched, Excused
<1>14. CallInv'
  <2> SUFFICES ASSUME NEW d \in RunCalls, call'[d] # Returned
               PROVE  LET s == call'[d] IN
                      /\ s.run \in RunIds /\ status[s.run] # "none"
                      /\ s.step \in 1..Len(plan[s.run]) /\ Len(s.copy) = Len(plan[s.run])
                      /\ s.launched => launches'[s.run][s.step] > 0
                      /\ BeforeLaunched(call[d].run, call[d].step)'
                      /\ s.starting => s.step = 1
    BY <1>1 DEF CallInv
  <2>1. call[d] # Returned
    BY <1>1, <1>7
  <2>2. /\ call[d].run \in RunIds /\ status[call[d].run] # "none"
        /\ call[d].step \in 1..Len(plan[call[d].run])
        /\ Len(call[d].copy) = Len(plan[call[d].run])
        /\ call[d].launched => launches[call[d].run][call[d].step] > 0
        /\ BeforeLaunched(call[d].run, call[d].step)
        /\ call[d].starting => call[d].step = 1
    BY <2>1 DEF CallInv
  <2>3. call[d].step \in 1..MaxSteps
    BY <2>2, PlanLength, PipelineAssumption DEF RowType
  <2>4. BeforeLaunched(call[d].run, call[d].step)'
    BY <1>9, <1>13, <2>2, <2>3 DEF BeforeLaunched, Excused
  <2>5. call'[d].launched => launches'[call[d].run][call[d].step] > 0
    <3>1. CASE d = c
      BY <1>5, <1>8, <3>1
    <3>2. CASE d # c
      BY <1>7, <1>10, <2>2, <2>3, <3>2
    <3> QED BY <3>1, <3>2
  <2> QED BY <1>9, <2>2, <2>4, <2>5
<1>15. CurrentLaunched'
  <2> SUFFICES ASSUME NEW x \in RunIds, status[x] # "none"
               PROVE  \/ launches'[x][current[x]] > 0
                      \/ plan[x][current[x]].template \notin templates
                      \/ /\ current[x] = 1
                         /\ Excused(x) \/ \E d \in RunCalls : call'[d].run = x /\ call'[d].starting
    BY <1>1 DEF CurrentLaunched, Excused
  <2>1. current[x] \in 1..Len(plan[x]) /\ Len(plan[x]) \in 0..MaxSteps
    BY PlanLength DEF PipeTypeOK, RowType
  <2>2. current[x] \in 1..MaxSteps
    BY <2>1, PipelineAssumption
  <2> QED BY <1>9, <1>10, <2>2 DEF CurrentLaunched
<1>16. CallMatchesRow'
  BY <1>1, <1>9 DEF CallMatchesRow, At, DoneIn
<1>17. NoneAhead'
  <2> SUFFICES ASSUME pipeCrashes = 0, NEW x \in RunIds \ raced, status[x] = "running",
                      NEW i \in 1..MaxSteps, i > current[x], launches'[x][i] > 0
               PROVE  \E d \in RunCalls : call'[d].run = x /\ call'[d].step = i
    BY <1>1 DEF NoneAhead
  <2>1. CASE x = r /\ i = k
    BY <1>9, <2>1
  <2>2. CASE ~(x = r /\ i = k)
    <3>1. launches[x][i] > 0
      BY <1>8, <2>2
    <3> QED BY <1>9, <3>1 DEF NoneAhead
  <2> QED BY <2>1, <2>2
<1>18. LaunchIsNew'
  <2> SUFFICES ASSUME pipeCrashes = 0, NEW d \in RunCalls, call[d].run \in RunIds \ raced,
                      ~call'[d].launched
               PROVE  launches'[call[d].run][call[d].step] = 0
    BY <1>1, <1>9 DEF LaunchIsNew
  <2>1. d # c /\ call'[d] = call[d]
    BY <1>6, <1>7
  <2>2. call[d].run # r
    BY <2>1 DEF CallMatchesRow
  <2> QED BY <1>8, <2>1, <2>2 DEF LaunchIsNew
<1>19. StepsInOrder'
  <2> SUFFICES ASSUME NEW x \in RunIds, NEW i \in 2..MaxSteps, launches'[x][i] > 0
               PROVE  \/ launches'[x][i - 1] > 0
                      \/ plan[x][i - 1].template \notin templates
                      \/ i = 2 /\ (x \in raced \/ pipeCrashes > 0)
    BY <1>1 DEF StepsInOrder
  <2>1. i \in 1..MaxSteps /\ i - 1 \in 1..MaxSteps /\ i # 1
    BY PipelineAssumption
  <2>2. CASE x = r /\ i = k
    BY <1>2, <1>10, <2>1, <2>2 DEF BeforeLaunched, Excused
  <2>3. CASE ~(x = r /\ i = k)
    <3>1. launches[x][i] > 0
      BY <1>8, <2>1, <2>3
    <3> QED BY <1>10, <2>1, <3>1 DEF StepsInOrder
  <2> QED BY <2>2, <2>3
<1>20. SpawnedOnce'
  <2> SUFFICES ASSUME pipeCrashes = 0, NEW x \in RunIds \ raced, NEW i \in 1..MaxSteps
               PROVE  launches'[x][i] <= 1
    BY <1>1 DEF SpawnedOnce
  <2>1. CASE x = r /\ i = k
    <3>1. launches[r][k] = 0
      BY <1>1, <2>1 DEF LaunchIsNew
    <3> QED BY <1>8, <2>1, <3>1 DEF more
  <2>2. CASE ~(x = r /\ i = k)
    BY <1>8, <2>2 DEF SpawnedOnce
  <2> QED BY <2>1, <2>2
<1>21. SnapshotMatchesStatus'
  BY <1>1 DEF SnapshotMatchesStatus, SnapshotFits
<1> QED BY <1>11, <1>12, <1>14, <1>15, <1>16, <1>17, <1>18, <1>19, <1>20, <1>21

---------------------------------------------------------------------------
(* The theorems.                                                           *)

\* The invariant holds of every state of the specification.
THEOREM PipeInvHolds == PipeSpec => []PipeInv
<1>1. ASSUME PipeInv, [PipeNext]_pipeVars
      PROVE  PipeInv'
  <2>1. ASSUME NEW p \in StepLists, UpdatePipeline(p)
        PROVE  PipeInv'
    BY <1>1, <2>1, UpdatePipelineInv
  <2>2. CASE DeletePipeline
    BY <1>1, <2>2, DeletePipelineInv
  <2>3. ASSUME NEW t \in Templates, DeleteTemplate(t)
        PROVE  PipeInv'
    BY <1>1, <2>3, DeleteTemplateInv
  <2>4. ASSUME NEW c \in RunCalls, NEW r \in RunIds, StartPipeline(c, r)
        PROVE  PipeInv'
    BY <1>1, <2>4, StartPipelineInv
  <2>5. ASSUME NEW c \in RunCalls, NEW r \in RunIds, NEW success \in BOOLEAN,
               AdvanceRun(c, r, success)
        PROVE  PipeInv'
    <3>1. CASE call' # call
      BY <1>1, <2>5, <3>1, AdvanceSuspendsInv
    <3>2. CASE call' = call
      BY <1>1, <2>5, <3>2, AdvanceWritesInv
    <3> QED BY <3>1, <3>2
  <2>6. ASSUME NEW c \in RunCalls, SpawnReturns(c)
        PROVE  PipeInv'
    BY <1>1, <2>6, SpawnReturnsInv
  <2>10. ASSUME NEW c \in RunCalls, Launch(c)
        PROVE  PipeInv'
    BY <1>1, <2>10, LaunchInv
  <2>7. ASSUME NEW r \in RunIds, CancelRun(r)
        PROVE  PipeInv'
    BY <1>1, <2>7, CancelRunInv
  <2>8. CASE PipeServerCrash
    BY <1>1, <2>8, PipeServerCrashInv
  <2>9. CASE UNCHANGED pipeVars
    <3> USE <1>1, <2>9 DEF PipeInv, pipeVars, pipelineVars, rowVars, ghostVars
    <3>1. PipeTypeOK' /\ RowType' /\ CallMatchesRow' /\ NoneAhead' /\ LaunchIsNew'
      BY DEF PipeTypeOK, RowType, CallMatchesRow, At, DoneIn, NoneAhead, LaunchIsNew
    <3>2. CallInv' /\ CurrentLaunched' /\ (\A x \in RunIds : status[x] = "none" => NotStarted(x))'
      BY DEF CallInv, CurrentLaunched, BeforeLaunched, Excused, NotStarted
    <3>3. StepsInOrder' /\ SnapshotMatchesStatus' /\ SpawnedOnce'
      BY DEF StepsInOrder, SnapshotMatchesStatus, SnapshotFits, SpawnedOnce
    <3> QED BY <3>1, <3>2, <3>3
  <2> QED BY <1>1, <2>1, <2>2, <2>3, <2>4, <2>5, <2>6, <2>7, <2>8, <2>9, <2>10 DEF PipeNext
<1> QED BY <1>1, PipeInitInv, PTL DEF PipeSpec

\* No handler takes a run out of an end state, and the stale copies that
\* suspended advances write back do not either.
THEOREM EndedIsFinalHolds == PipeSpec => EndedIsFinal
<1>1. ASSUME PipeInv, [PipeNext]_pipeVars
      PROVE  \A r \in RunIds : status[r] \in Ended => status'[r] \in {status[r], "deleted"}
  <2>1. status \in [RunIds -> RunStatus]
    BY <1>1 DEF PipeInv, PipeTypeOK
  <2> SUFFICES ASSUME NEW r \in RunIds, status[r] \in Ended
               PROVE  status'[r] \in {status[r], "deleted"}
    OBVIOUS
  <2> USE <2>1 DEF Ended
  <2>2. CASE DeletePipeline
    BY <2>2 DEF DeletePipeline, RunsCascade
  <2>3. CASE \E c \in RunCalls, x \in RunIds : StartPipeline(c, x)
    BY <2>3 DEF StartPipeline
  <2>4. CASE \E c \in RunCalls, x \in RunIds, success \in BOOLEAN : AdvanceRun(c, x, success)
    <3>1. PICK c \in RunCalls, x \in RunIds, success \in BOOLEAN : AdvanceRun(c, x, success)
      BY <2>4
    <3>2. /\ status[x] = "running"
          /\ \/ status' = status
             \/ \E v \in {"failed", "completed"} : status' = [status EXCEPT ![x] = v]
      BY <3>1 DEF AdvanceRun, Advanceable
    <3> QED BY <3>2
  <2>5. CASE \E x \in RunIds : CancelRun(x)
    BY <2>5 DEF CancelRun
  <2>6. CASE UNCHANGED status
    BY <2>6
  <2>7. \/ \E p \in StepLists : UpdatePipeline(p)
        \/ \E t \in Templates : DeleteTemplate(t)
        \/ \E c \in RunCalls : Launch(c) \/ SpawnReturns(c)
        \/ PipeServerCrash
        \/ UNCHANGED pipeVars
        => UNCHANGED status
    BY DEF UpdatePipeline, DeleteTemplate, Launch, SpawnReturns, WriteBack, PipeServerCrash,
           pipeVars, rowVars
  <2> QED BY <1>1, <2>2, <2>3, <2>4, <2>5, <2>6, <2>7 DEF PipeNext
<1> QED BY <1>1, PipeInvHolds, PTL DEF PipeSpec, EndedIsFinal

\* No agent is launched for a run that has ended, unless requests for it
\* overlapped: a call that is still to launch belongs to a run that goes on.
THEOREM NoSpawnAfterEndHolds == PipeSpec => NoSpawnAfterEnd
<1>1. ASSUME PipeInv, [PipeNext]_pipeVars
      PROVE  \A r \in RunIds \ raced : status[r] \in Ended => launches'[r] = launches[r]
  <2> SUFFICES ASSUME NEW r \in RunIds \ raced, status[r] \in Ended
               PROVE  launches'[r] = launches[r]
    OBVIOUS
  <2>1. ASSUME NEW c \in RunCalls, Launch(c)
        PROVE  launches'[r] = launches[r]
    <3>1. call[c].run # r
      BY <1>1 DEF PipeInv, CallMatchesRow, Ended
    <3> QED BY <1>1, <2>1, <3>1 DEF Launch, PipeInv, PipeTypeOK
  <2>2. [PipeNext]_pipeVars /\ ~(\E c \in RunCalls : Launch(c)) => UNCHANGED launches
    BY DEF PipeNext, UpdatePipeline, DeletePipeline, DeleteTemplate, StartPipeline, AdvanceRun,
           SpawnReturns, CancelRun, PipeServerCrash, pipeVars, ghostVars
  <2> QED BY <1>1, <2>1, <2>2
<1> QED BY <1>1, PipeInvHolds, PTL DEF PipeSpec, NoSpawnAfterEnd

---------------------------------------------------------------------------
(***************************************************************************)
(* Pipelines implement the life of a run.  What has to be known beyond     *)
(* PipeInv: the copy a request holds says of the steps that are over what  *)
(* the row says.                                                           *)
(***************************************************************************)
CopyInv ==
    \A c \in RunCalls : call[c].run \in RunIds \ raced =>
        \A i \in 1..(current[call[c].run] - 1) : call[c].copy[i] = steps[call[c].run][i]

\* Run x is as it was: its row, and the requests suspended for it.
SameRow(x) ==
    /\ status'[x] = status[x] /\ current'[x] = current[x] /\ steps'[x] = steps[x]
SameCalls(x) ==
    \A c \in RunCalls : call'[c].run = x => call'[c] = call[c]

LEMMA CopyFrame ==
    ASSUME CopyInv, NEW c \in RunCalls, call'[c].run \in RunIds \ raced', raced \subseteq raced',
           current'[call'[c].run] = current[call'[c].run],
           steps'[call'[c].run] = steps[call'[c].run], SameCalls(call'[c].run)
    PROVE  \A i \in 1..(current'[call'[c].run] - 1) : call'[c].copy[i] = steps'[call'[c].run][i]
<1>1. call'[c] = call[c] BY DEF SameCalls
<1> QED BY <1>1 DEF CopyInv

\* What a step that is not an advance of run r leaves alone.
LEMMA AdvanceFrame ==
    ASSUME PipeInv, NEW c \in RunCalls, NEW r \in RunIds, NEW success \in BOOLEAN,
           AdvanceRun(c, r, success)
    PROVE  /\ status[r] = "running" /\ raced \subseteq raced' /\ raced' \ {r} = raced \ {r}
           /\ UNCHANGED plan
           /\ \A x \in RunIds \ {r} : SameRow(x) /\ SameCalls(x)
           /\ r \notin raced' => raced' = raced /\ \A d \in RunCalls : call[d].run # r
           /\ \A d \in RunCalls \ {c} : call'[d] = call[d]
<1> USE DEF PipeInv, PipeTypeOK, RowType
<1>1. /\ status[r] = "running" /\ UNCHANGED plan /\ NoteRace(r)
      /\ call[c] = Returned
      /\ call' = call \/ \E i, q : call' = [call EXCEPT ![c] = Importing(r, i, q, FALSE)]
  BY DEF AdvanceRun, Advanceable, SpawnStep
<1>2. \A x \in RunIds \ {r} : SameRow(x)
  BY DEF AdvanceRun, SameRow
<1>3. \A x \in RunIds \ {r} : SameCalls(x)
  BY <1>1 DEF SameCalls, Importing
<1>4. raced \subseteq raced' /\ raced' \ {r} = raced \ {r}
  BY <1>1 DEF NoteRace
<1>5. r \notin raced' => raced' = raced /\ \A d \in RunCalls : call[d].run # r
  BY <1>1 DEF NoteRace
<1> QED BY <1>1, <1>2, <1>3, <1>4, <1>5

LEMMA CopyStep == PipeInv /\ CopyInv /\ [PipeNext]_pipeVars => CopyInv'
<1> SUFFICES ASSUME PipeInv, CopyInv, [PipeNext]_pipeVars,
                    NEW c \in RunCalls, call'[c].run \in RunIds \ raced'
             PROVE  \A i \in 1..(current'[call'[c].run] - 1) :
                      call'[c].copy[i] = steps'[call'[c].run][i]
  BY DEF CopyInv
<1>1. CASE \/ \E p \in StepLists : UpdatePipeline(p)
           \/ DeletePipeline
           \/ \E t \in Templates : DeleteTemplate(t)
           \/ UNCHANGED pipeVars
  <2>1. UNCHANGED <<call, current, steps, raced>>
    BY <1>1 DEF UpdatePipeline, DeletePipeline, DeleteTemplate, pipeVars, rowVars, ghostVars
  <2> QED BY <2>1, CopyFrame DEF SameCalls
<1>2. ASSUME NEW d \in RunCalls, NEW r \in RunIds, StartPipeline(d, r)
      PROVE  \A i \in 1..(current'[call'[c].run] - 1) :
               call'[c].copy[i] = steps'[call'[c].run][i]
  <2>1. /\ current'[r] = 1 /\ raced' = raced
        /\ \A x \in RunIds \ {r} : current'[x] = current[x] /\ steps'[x] = steps[x]
    BY <1>2 DEF StartPipeline, PipeInv, RowType, ghostVars
  <2>2. CASE call'[c].run = r
    BY <2>1, <2>2
  <2>3. CASE call'[c].run # r
    <3>1. SameCalls(call'[c].run)
      BY <1>2, <2>3 DEF StartPipeline, SpawnStep, Importing, SameCalls, PipeInv, PipeTypeOK
    <3> QED BY <2>1, <2>3, <3>1, CopyFrame
  <2> QED BY <2>2, <2>3
<1>3. ASSUME NEW d \in RunCalls, NEW r \in RunIds, NEW success \in BOOLEAN,
             AdvanceRun(d, r, success)
      PROVE  \A i \in 1..(current'[call'[c].run] - 1) :
               call'[c].copy[i] = steps'[call'[c].run][i]
  <2>1. CASE call'[c].run = r
    <3>1. r \notin raced' /\ \A e \in RunCalls : call[e].run # r
      BY <1>3, <2>1, AdvanceFrame
    <3>2. c = d /\ call'[c] # call[c]
      BY <1>3, <2>1, <3>1, AdvanceFrame
    <3> DEFINE result == IF success THEN "completed" ELSE "failed"
               marked == [steps[r] EXCEPT ![current[r]] = result]
               next == [marked EXCEPT ![current[r] + 1] = "running"]
    <3>3. /\ status[r] = "running" /\ UNCHANGED <<current, steps>>
          /\ call' = [call EXCEPT ![c] = Importing(r, current[r] + 1, next, FALSE)]
      BY <1>3, <3>2 DEF AdvanceRun, Advanceable, SpawnStep
    <3>4. call'[c].copy = next
      BY <3>3 DEF PipeInv, PipeTypeOK, Importing
    <3>5. /\ Len(plan[r]) \in 0..MaxSteps /\ current[r] \in 1..Len(plan[r])
          /\ marked \in Seq(StepStatus) /\ Len(marked) = Len(plan[r])
          /\ \A i \in 1..Len(plan[r]) : marked[i] = IF i = current[r] THEN result ELSE steps[r][i]
          /\ next \in Seq(StepStatus) /\ Len(next) = Len(plan[r])
          /\ \A i \in 1..Len(plan[r]) : next[i] = IF i = current[r] + 1 THEN "running" ELSE marked[i]
          /\ SkipRest(r, marked) \in Seq(StepStatus) /\ Len(SkipRest(r, marked)) = Len(plan[r])
          /\ \A i \in 1..Len(plan[r]) : SkipRest(r, marked)[i] = IF i > current[r] THEN "skipped" ELSE marked[i]
      <4>1. PipeTypeOK /\ RowType /\ result \in {"completed", "failed"}
        BY DEF PipeInv
      <4> HIDE DEF result
      <4> QED BY <3>3, <4>1, AdvanceSnapshots
    <3> HIDE DEF marked, next
    <3>6. \A i \in 1..(current[r] - 1) : next[i] = steps[r][i]
      BY <3>5
    <3> QED BY <2>1, <3>3, <3>4, <3>6
  <2>2. CASE call'[c].run # r
    BY <1>3, <2>2, AdvanceFrame, CopyFrame DEF SameRow
  <2> QED BY <2>1, <2>2
<1>4. ASSUME NEW d \in RunCalls, SpawnReturns(d)
      PROVE  \A i \in 1..(current'[call'[c].run] - 1) :
               call'[c].copy[i] = steps'[call'[c].run][i]
  <2>1. /\ call' = [call EXCEPT ![d] = Returned] /\ raced' = raced /\ call[d] # Returned
    BY <1>4 DEF SpawnReturns, ghostVars, Returned
  <2>2. c # d /\ call'[c] = call[c]
    BY <2>1, PipelineAssumption DEF Returned, PipeInv, PipeTypeOK
  <2>3. call[d].run \in RunIds /\ call[d].run # call[c].run
    BY <2>1, <2>2 DEF PipeInv, CallMatchesRow, CallInv
  <2>4. current'[call[c].run] = current[call[c].run] /\ steps'[call[c].run] = steps[call[c].run]
    BY <1>4, <2>1, <2>2, <2>3 DEF SpawnReturns, WriteBack, PipeInv, RowType
  <2> QED BY <2>1, <2>2, <2>4 DEF CopyInv
<1>5. ASSUME NEW r \in RunIds, CancelRun(r)
      PROVE  \A i \in 1..(current'[call'[c].run] - 1) :
               call'[c].copy[i] = steps'[call'[c].run][i]
  <2>1. UNCHANGED <<call, current>> /\ raced \subseteq raced' /\ call[c].run # r
    BY <1>5 DEF CancelRun, NoteRace
  <2>2. steps'[call[c].run] = steps[call[c].run]
    BY <1>5, <2>1 DEF CancelRun, PipeInv, RowType
  <2> QED BY <2>1, <2>2, CopyFrame DEF SameCalls
<1>6. CASE PipeServerCrash
  BY <1>6, PipelineAssumption DEF PipeServerCrash, Returned
<1>7. ASSUME NEW d \in RunCalls, Launch(d)
      PROVE  \A i \in 1..(current'[call'[c].run] - 1) :
               call'[c].copy[i] = steps'[call'[c].run][i]
  <2>1. /\ UNCHANGED <<current, steps, raced>>
        /\ call' = [call EXCEPT ![d] = [call[d] EXCEPT !.launched = TRUE]]
        /\ call \in [RunCalls -> CallStates]
    BY <1>7 DEF Launch, rowVars, PipeInv, PipeTypeOK
  <2>2. call'[c].run = call[c].run /\ call'[c].copy = call[c].copy
    BY <2>1 DEF CallStates
  <2> QED BY <2>1, <2>2 DEF CopyInv
<1> QED BY <1>1, <1>2, <1>3, <1>4, <1>5, <1>6, <1>7 DEF PipeNext

\* The rows of the other runs are mapped to what they were mapped to before.
LEMMA RunFrame ==
    ASSUME NEW r \in RunIds, raced' \ {r} = raced \ {r}, \A x \in RunIds \ {r} : SameRow(x)
    PROVE  /\ RunState' = [RunState EXCEPT ![r] = RunState'[r]]
           /\ Outcomes' = [Outcomes EXCEPT ![r] = Outcomes'[r]]
<1>1. ASSUME NEW x \in RunIds \ {r}
      PROVE  RunState'[x] = RunState[x] /\ Outcomes'[x] = Outcomes[x]
  <2>1. SameRow(x) /\ (x \in raced' <=> x \in raced)
    OBVIOUS
  <2>2. Settled(x)' = Settled(x)
    BY <2>1 DEF Settled, SameRow
  <2> QED BY <2>1, <2>2 DEF RunState, Outcomes, SameRow
<1>2. /\ RunState = [x \in RunIds |-> RunState[x]] /\ RunState' = [x \in RunIds |-> RunState'[x]]
      /\ Outcomes = [x \in RunIds |-> Outcomes[x]] /\ Outcomes' = [x \in RunIds |-> Outcomes'[x]]
  BY DEF RunState, Outcomes
<1> HIDE DEF RunState, Outcomes
<1> QED BY <1>1, <1>2

LEMMA RunUnchanged ==
    ASSUME NEW r \in RunIds, raced' \ {r} = raced \ {r}, UNCHANGED plan,
           \A x \in RunIds \ {r} : SameRow(x),
           RunState'[r] = RunState[r], Outcomes'[r] = Outcomes[r]
    PROVE  UNCHANGED <<plan, RunState, Outcomes>>
<1>1. /\ RunState = [x \in RunIds |-> RunState[x]]
      /\ Outcomes = [x \in RunIds |-> Outcomes[x]]
  BY DEF RunState, Outcomes
<1> HIDE DEF RunState, Outcomes
<1> QED BY <1>1, RunFrame

\* A step is taken where the row says so of one more step.
LEMMA StepTaken ==
    ASSUME PipeInv, NEW r \in RunIds \ raced, raced' = raced, UNCHANGED plan,
           NEW o \in {"completed", "failed"}, status[r] = "running",
           \A x \in RunIds \ {r} : SameRow(x),
           \A i \in 1..(current[r] - 1) : steps'[r][i] = steps[r][i],
           steps'[r][current[r]] = o,
           status'[r] = IF o = "failed" /\ plan[r][current[r]].onFailure = "stop" THEN "failed"
                        ELSE IF current[r] = Len(plan[r]) THEN "completed" ELSE "running",
           current'[r] = IF status'[r] = "running" THEN current[r] + 1 ELSE current[r]
    PROVE  RunLife!TakeStep(r, o)
<1> DEFINE cur == current[r]
<1>1. cur \in Nat \ {0} /\ cur <= Len(plan[r]) /\ Len(plan[r]) \in Nat
  <2>1. plan[r] \in StepLists \cup {<<>>} /\ cur \in 1..Len(plan[r])
    BY DEF PipeInv, PipeTypeOK
  <2>2. Len(plan[r]) \in Nat
    BY <2>1, PlanLength
  <2> QED BY <2>1, <2>2
<1>2. Settled(r) = cur - 1 /\ Settled(r)' = cur
  BY <1>1 DEF Settled
<1>3. Outcomes[r] = [i \in 1..(cur - 1) |-> steps[r][i]] /\ Outcomes'[r] = [i \in 1..cur |-> steps'[r][i]]
  BY <1>2 DEF Outcomes
<1>4. Len(Outcomes[r]) = cur - 1 /\ Outcomes'[r] = Append(Outcomes[r], o)
  BY <1>1, <1>3
<1>5. RunState[r] = "running" /\ RunState'[r] = status'[r]
  BY DEF RunState
<1>6. /\ RunState' = [RunState EXCEPT ![r] = RunState'[r]]
      /\ Outcomes' = [Outcomes EXCEPT ![r] = Outcomes'[r]]
  BY RunFrame
<1>7. Len(Outcomes[r]) + 1 = cur
  BY <1>1, <1>4
<1> HIDE DEF RunState, Outcomes, cur
<1> QED BY <1>1, <1>4, <1>5, <1>6, <1>7 DEF RunLife!TakeStep, cur

\* start begins a run.
LEMMA StartRefines ==
    ASSUME PipeInv, NEW c \in RunCalls, NEW r \in RunIds, StartPipeline(c, r)
    PROVE  \E p \in StepLists \ {<<>>} : RunLife!Begin(r, p)
<1>1. /\ pipeline \in StepLists \ {<<>>} /\ status[r] = "none" /\ NotStarted(r)
      /\ plan' = [plan EXCEPT ![r] = pipeline]
      /\ status' = [status EXCEPT ![r] = "running"]
      /\ current' = [current EXCEPT ![r] = 1]
      /\ raced' = raced
      /\ \A x \in RunIds \ {r} : steps'[x] = steps[x]
  BY DEF StartPipeline, PipeInv, PipeTypeOK, RowType, ghostVars
<1>2. r \notin raced
  BY <1>1 DEF NotStarted
<1>3. status'[r] = "running" /\ current'[r] = 1 /\ \A x \in RunIds \ {r} : SameRow(x)
  BY <1>1 DEF PipeInv, PipeTypeOK, RowType, SameRow
<1>4. RunState[r] = "none" /\ RunState'[r] = "running"
  BY <1>1, <1>2, <1>3 DEF RunState
<1>5. Outcomes[r] = <<>> /\ Outcomes'[r] = <<>>
  <2>1. Settled(r) = 0 /\ Settled(r)' = 0
    BY <1>1, <1>2, <1>3 DEF Settled
  <2> QED BY <2>1 DEF Outcomes
<1>6. RunState' = [RunState EXCEPT ![r] = "running"] /\ Outcomes' = Outcomes
  <2>1. Outcomes = [x \in RunIds |-> Outcomes[x]]
    BY DEF Outcomes
  <2> HIDE DEF Outcomes, RunState
  <2> QED BY <1>1, <1>3, <1>4, <1>5, <2>1, RunFrame
<1> QED BY <1>1, <1>4, <1>6 DEF RunLife!Begin

\* A request that meets a suspended one takes the run out of the promise.
LEMMA RaceRefines ==
    ASSUME NEW r \in RunIds, r \in raced', raced' \ {r} = raced \ {r}, UNCHANGED plan,
           status[r] = "running", \A x \in RunIds \ {r} : SameRow(x)
    PROVE  RunLife!GoAstray(r) \/ UNCHANGED <<plan, RunState, Outcomes>>
<1>1. RunState'[r] = "astray" /\ Outcomes'[r] = <<>>
  <2>1. Settled(r)' = 0
    BY DEF Settled
  <2> QED BY <2>1 DEF RunState, Outcomes
<1>2. CASE r \in raced
  <2>1. Settled(r) = 0
    BY <1>2 DEF Settled
  <2>2. RunState[r] = "astray" /\ Outcomes[r] = <<>>
    BY <1>2, <2>1 DEF RunState, Outcomes
  <2> QED BY <1>1, <2>2, RunUnchanged
<1>3. CASE r \notin raced
  <2>1. RunState[r] = "running"
    BY <1>3 DEF RunState
  <2> QED BY <1>1, <2>1, RunFrame DEF RunLife!GoAstray
<1> QED BY <1>2, <1>3

\* advance takes the current step, or only suspends to launch the next.
LEMMA AdvanceRefines ==
    ASSUME PipeInv, NEW c \in RunCalls, NEW r \in RunIds, NEW success \in BOOLEAN,
           AdvanceRun(c, r, success)
    PROVE  \/ \E outcome \in {"completed", "failed"} : RunLife!TakeStep(r, outcome)
           \/ RunLife!GoAstray(r)
           \/ UNCHANGED <<plan, RunState, Outcomes>>
<1> DEFINE cur == current[r]
           result == IF success THEN "completed" ELSE "failed"
           marked == [steps[r] EXCEPT ![cur] = result]
           next == [marked EXCEPT ![cur + 1] = "running"]
<1>1. /\ status[r] = "running" /\ raced' \ {r} = raced \ {r} /\ UNCHANGED plan
      /\ \A x \in RunIds \ {r} : SameRow(x)
      /\ r \notin raced' => raced' = raced
  BY AdvanceFrame
<1>2. CASE r \in raced'
  BY <1>1, <1>2, RaceRefines
<1>3. CASE r \notin raced'
  <2>1. r \in RunIds \ raced /\ raced' = raced
    BY <1>1, <1>3
  <2>2. /\ Len(plan[r]) \in 0..MaxSteps /\ cur \in 1..Len(plan[r])
        /\ marked \in Seq(StepStatus) /\ Len(marked) = Len(plan[r])
        /\ \A i \in 1..Len(plan[r]) : marked[i] = IF i = cur THEN result ELSE steps[r][i]
        /\ next \in Seq(StepStatus) /\ Len(next) = Len(plan[r])
        /\ \A i \in 1..Len(plan[r]) : next[i] = IF i = cur + 1 THEN "running" ELSE marked[i]
        /\ SkipRest(r, marked) \in Seq(StepStatus) /\ Len(SkipRest(r, marked)) = Len(plan[r])
        /\ \A i \in 1..Len(plan[r]) : SkipRest(r, marked)[i] = IF i > cur THEN "skipped" ELSE marked[i]
    <3>1. PipeTypeOK /\ RowType /\ result \in {"completed", "failed"}
      BY DEF PipeInv
    <3> HIDE DEF result
    <3> QED BY <1>1, <3>1, AdvanceSnapshots
  <2>9. /\ cur \in Nat \ {0} /\ cur <= Len(plan[r]) /\ Len(plan[r]) \in Nat
        /\ Len(marked) = Len(plan[r])
        /\ \A i \in 1..(cur - 1) : /\ marked[i] = steps[r][i] /\ next[i] = steps[r][i]
                                  /\ SkipRest(r, marked)[i] = steps[r][i]
        /\ marked[cur] = result /\ next[cur] = result /\ SkipRest(r, marked)[cur] = result
    <3>1. Len(plan[r]) \in Nat /\ cur \in Nat
      BY <2>2, PipelineAssumption
    <3> HIDE DEF cur, result, marked, next
    <3> QED BY <2>2, <3>1
  <2>3. \/ /\ StopsRun(r, success)
           /\ status' = [status EXCEPT ![r] = "failed"]
           /\ steps' = [steps EXCEPT ![r] = SkipRest(r, marked)] /\ UNCHANGED current
        \/ /\ ~StopsRun(r, success) /\ cur >= Len(marked)
           /\ status' = [status EXCEPT ![r] = "completed"]
           /\ steps' = [steps EXCEPT ![r] = marked] /\ UNCHANGED current
        \/ UNCHANGED <<status, current, steps>>
        \/ /\ ~StopsRun(r, success) /\ cur < Len(marked)
           /\ current' = [current EXCEPT ![r] = cur + 1]
           /\ steps' = [steps EXCEPT ![r] = next] /\ UNCHANGED status
    BY DEF AdvanceRun
  <2>4. StopsRun(r, success) <=> result = "failed" /\ plan[r][cur].onFailure = "stop"
    BY DEF StopsRun
  <2>5. result \in {"completed", "failed"}
    OBVIOUS
  <2>6. status \in [RunIds -> RunStatus] /\ RowType
    BY DEF PipeInv, PipeTypeOK
  <2> HIDE DEF marked, next, result
  <2>7. CASE UNCHANGED <<status, current, steps>>
    <3>1. RunState'[r] = RunState[r] /\ Outcomes'[r] = Outcomes[r]
      BY <2>1, <2>7 DEF RunState, Outcomes, Settled
    <3> QED BY <1>1, <3>1, RunUnchanged
  <2>8. CASE ~UNCHANGED <<status, current, steps>>
    <3>1. /\ \A i \in 1..(cur - 1) : steps'[r][i] = steps[r][i]
          /\ steps'[r][cur] = result
          /\ status'[r] = IF result = "failed" /\ plan[r][cur].onFailure = "stop" THEN "failed"
                          ELSE IF cur = Len(plan[r]) THEN "completed" ELSE "running"
          /\ current'[r] = IF status'[r] = "running" THEN cur + 1 ELSE cur
      <4>1. CASE /\ StopsRun(r, success)
                 /\ status' = [status EXCEPT ![r] = "failed"]
                 /\ steps' = [steps EXCEPT ![r] = SkipRest(r, marked)] /\ UNCHANGED current
        <5>1. status'[r] = "failed" /\ steps'[r] = SkipRest(r, marked) /\ current'[r] = cur
          BY <2>6, <4>1 DEF RowType
        <5> QED BY <2>4, <2>9, <4>1, <5>1
      <4>2. CASE /\ ~StopsRun(r, success) /\ cur >= Len(marked)
                 /\ status' = [status EXCEPT ![r] = "completed"]
                 /\ steps' = [steps EXCEPT ![r] = marked] /\ UNCHANGED current
        <5>1. status'[r] = "completed" /\ steps'[r] = marked /\ current'[r] = cur
          BY <2>6, <4>2 DEF RowType
        <5> QED BY <2>4, <2>9, <4>2, <5>1
      <4>3. CASE /\ ~StopsRun(r, success) /\ cur < Len(marked)
                 /\ current' = [current EXCEPT ![r] = cur + 1]
                 /\ steps' = [steps EXCEPT ![r] = next] /\ UNCHANGED status
        <5>1. status'[r] = "running" /\ steps'[r] = next /\ current'[r] = cur + 1
          BY <1>1, <2>6, <4>3 DEF RowType
        <5> QED BY <2>4, <2>9, <4>3, <5>1
      <4> QED BY <2>3, <2>8, <4>1, <4>2, <4>3
    <3>2. RunLife!TakeStep(r, result)
      BY <1>1, <2>1, <2>5, <3>1, StepTaken
    <3> QED BY <2>5, <3>2
  <2> QED BY <2>7, <2>8
<1> QED BY <1>2, <1>3

\* A request that resumes writes the outcome of the step before the one it
\* launched, and no other.
LEMMA SpawnReturnsRefines ==
    ASSUME PipeInv, CopyInv, NEW c \in RunCalls, SpawnReturns(c)
    PROVE  \/ \E r \in RunIds, outcome \in {"completed", "failed"} : RunLife!TakeStep(r, outcome)
           \/ UNCHANGED <<plan, RunState, Outcomes>>
<1> DEFINE s == call[c]
<1>1. PICK r \in RunIds : /\ s # Returned /\ r = s.run /\ s.step \in 1..Len(plan[r])
                          /\ s.starting => s.step = 1
  BY DEF SpawnReturns, PipeInv, CallInv, Returned
<1>2. /\ UNCHANGED <<plan, status, raced>>
      /\ IF status[r] = "deleted" THEN UNCHANGED <<steps, current>>
         ELSE /\ steps' = [steps EXCEPT ![r] = s.copy]
              /\ current' = IF s.starting THEN current ELSE [current EXCEPT ![r] = s.step]
  BY <1>1 DEF SpawnReturns, WriteBack, ghostVars
<1> HIDE DEF s
<1>3. /\ status \in [RunIds -> RunStatus] /\ RowType
      /\ plan[r] \in StepLists \cup {<<>>}
      /\ status[r] # "none" => current[r] \in 1..Len(plan[r])
  BY DEF PipeInv, PipeTypeOK
<1>4. Len(plan[r]) \in Nat
  BY <1>3, PlanLength
<1>5. raced' \ {r} = raced \ {r} /\ \A x \in RunIds \ {r} : SameRow(x)
  BY <1>1, <1>2, <1>3 DEF RowType, SameRow
<1>6. CASE r \in raced
  <2>1. RunState'[r] = RunState[r] /\ Outcomes'[r] = Outcomes[r]
    BY <1>1, <1>2, <1>6 DEF RunState, Outcomes, Settled
  <2> QED BY <1>1, <1>2, <1>5, <2>1, RunUnchanged
<1>7. CASE r \notin raced /\ status[r] = "deleted"
  <2>1. RunState'[r] = RunState[r] /\ Outcomes'[r] = Outcomes[r]
    BY <1>1, <1>2, <1>7 DEF RunState, Outcomes, Settled
  <2> QED BY <1>1, <1>2, <1>5, <2>1, RunUnchanged
<1>8. CASE r \notin raced /\ status[r] # "deleted"
  <2>1. /\ status[r] = "running" /\ At(r, s.copy, s.step)
        /\ s.step = IF s.starting THEN current[r] ELSE current[r] + 1
    BY <1>1, <1>8 DEF PipeInv, CallMatchesRow, s
  <2>2. steps'[r] = s.copy /\ status'[r] = "running"
    BY <1>1, <1>2, <1>3, <1>8, <2>1 DEF RowType
  <2>3. CASE s.starting
    <3>1. current[r] = 1 /\ current'[r] = 1
      BY <1>1, <1>2, <1>8, <2>1, <2>3
    <3>2. Settled(r) = 0 /\ Settled(r)' = 0
      BY <1>2, <1>8, <2>1, <3>1 DEF Settled
    <3>3. RunState'[r] = RunState[r] /\ Outcomes'[r] = Outcomes[r]
      BY <1>1, <1>2, <3>2 DEF RunState, Outcomes
    <3> QED BY <1>1, <1>2, <1>5, <3>3, RunUnchanged
  <2>4. CASE ~s.starting
    <3>1. current'[r] = current[r] + 1 /\ current[r] + 1 \in 1..Len(plan[r])
      BY <1>1, <1>2, <1>3, <1>8, <2>1, <2>4 DEF RowType
    <3>2. current[r] \in Nat /\ current[r] # 0
      BY <1>3, <1>4, <2>1
    <3>3. \A i \in 1..(current[r] - 1) : steps'[r][i] = steps[r][i]
      BY <1>1, <1>2, <1>8, <2>2 DEF CopyInv, s
    <3>4. DoneIn(r, s.copy, current[r])
      BY <2>1, <2>4, <3>2 DEF At
    <3>5. /\ steps'[r][current[r]] \in {"completed", "failed"}
          /\ ~(steps'[r][current[r]] = "failed" /\ plan[r][current[r]].onFailure = "stop")
      BY <2>2, <3>4 DEF DoneIn
    <3>6. current[r] # Len(plan[r])
      BY <1>4, <3>1, <3>2
    <3>7. RunLife!TakeStep(r, steps'[r][current[r]])
      BY <1>1, <1>2, <1>5, <1>8, <2>1, <2>2, <3>1, <3>3, <3>5, <3>6, StepTaken
    <3> QED BY <1>2, <3>5, <3>7
  <2> QED BY <2>3, <2>4
<1> QED BY <1>6, <1>7, <1>8

\* cancel leaves the outcomes there are.
LEMMA CancelRefines ==
    ASSUME PipeInv, NEW r \in RunIds, CancelRun(r)
    PROVE  RunLife!Cancel(r) \/ RunLife!GoAstray(r) \/ UNCHANGED <<plan, RunState, Outcomes>>
<1>1. /\ status[r] = "running" /\ UNCHANGED <<plan, current>> /\ NoteRace(r)
      /\ status'[r] = "cancelled" /\ steps'[r] = SkipUnfinished(r)
      /\ \A x \in RunIds \ {r} : SameRow(x)
  BY DEF CancelRun, PipeInv, PipeTypeOK, RowType, SameRow
<1>2. raced' \ {r} = raced \ {r} /\ (r \notin raced' => r \notin raced /\ raced' = raced)
  BY <1>1 DEF NoteRace
<1>3. CASE r \in raced'
  BY <1>1, <1>2, <1>3, RaceRefines
<1>4. CASE r \notin raced'
  <2>1. SnapshotFits(r)
    BY <1>1, <1>2, <1>4 DEF PipeInv, SnapshotMatchesStatus
  <2>2. /\ steps[r] \in Seq(StepStatus) /\ Len(steps[r]) = Len(plan[r])
        /\ current[r] \in 1..Len(plan[r]) /\ Len(plan[r]) \in Nat
    BY <1>1 DEF PipeInv, PipeTypeOK
  <2>3. \A i \in 1..(current[r] - 1) : steps'[r][i] = steps[r][i]
    <3>1. \A i \in 1..(current[r] - 1) : steps[r][i] \in {"completed", "failed"}
      BY <2>1 DEF SnapshotFits
    <3> QED BY <1>1, <2>2, <3>1 DEF SkipUnfinished
  <2>4. Settled(r) = current[r] - 1 /\ Settled(r)' = current[r] - 1
    BY <1>1, <1>2, <1>4 DEF Settled
  <2>5. Outcomes'[r] = Outcomes[r]
    BY <2>3, <2>4 DEF Outcomes
  <2>6. RunState[r] = "running" /\ RunState'[r] = "cancelled"
    BY <1>1, <1>2, <1>4 DEF RunState
  <2>7. RunState' = [RunState EXCEPT ![r] = "cancelled"] /\ Outcomes' = Outcomes
    <3>1. Outcomes = [x \in RunIds |-> Outcomes[x]]
      BY DEF Outcomes
    <3> HIDE DEF Outcomes, RunState
    <3> QED BY <1>1, <1>2, <2>5, <2>6, <3>1, RunFrame
  <2> QED BY <1>1, <2>6, <2>7 DEF RunLife!Cancel
<1> QED BY <1>3, <1>4

\* The cascade takes every run that is in the table.
LEMMA DeleteRefines == PipeInv /\ DeletePipeline => RunLife!DeleteAll
<1> SUFFICES ASSUME PipeInv, DeletePipeline PROVE RunLife!DeleteAll
  OBVIOUS
<1>1. UNCHANGED <<plan, raced>> /\ \A r \in RunIds : status'[r] = IF status[r] = "none" THEN "none" ELSE "deleted"
  BY DEF DeletePipeline, RunsCascade, ghostVars
<1>2. \A r \in RunIds : RunState'[r] = IF RunState[r] \in {"none", "astray"} THEN RunState[r] ELSE "deleted"
  <2>1. \A r \in RunIds : status[r] # "astray"
    BY DEF PipeInv, PipeTypeOK, RunStatus
  <2> QED BY <1>1, <2>1 DEF RunState
<1>3. \A r \in RunIds : Outcomes'[r] = <<>>
  <2>1. \A r \in RunIds : Settled(r)' = 0
    BY <1>1 DEF Settled
  <2> QED BY <2>1 DEF Outcomes
<1>4. /\ RunState' = [x \in RunIds |-> RunState'[x]] /\ Outcomes' = [x \in RunIds |-> Outcomes'[x]]
  BY DEF RunState, Outcomes
<1> HIDE DEF RunState, Outcomes
<1> QED BY <1>1, <1>2, <1>3, <1>4 DEF RunLife!DeleteAll

\* Every step of the handlers is a step of a run's life, or none.
LEMMA PipeStepRefines ==
    PipeInv /\ CopyInv /\ [PipeNext]_pipeVars => [RunLife!RunLifeNext]_(RunLife!runLifeVars)
<1> SUFFICES ASSUME PipeInv, CopyInv, [PipeNext]_pipeVars
             PROVE  RunLife!RunLifeNext \/ UNCHANGED <<plan, RunState, Outcomes>>
  BY DEF RunLife!runLifeVars
<1>1. CASE \/ \E p \in StepLists : UpdatePipeline(p)
           \/ \E t \in Templates : DeleteTemplate(t)
           \/ \E c \in RunCalls : Launch(c)
           \/ PipeServerCrash
           \/ UNCHANGED pipeVars
  <2>1. UNCHANGED <<plan, status, current, steps, raced>>
    BY <1>1 DEF UpdatePipeline, DeleteTemplate, Launch, PipeServerCrash, pipeVars, rowVars, ghostVars
  <2>2. \A r \in RunIds : Settled(r)' = Settled(r)
    BY <2>1 DEF Settled
  <2> QED BY <2>1, <2>2 DEF RunState, Outcomes
<1>2. CASE DeletePipeline
  BY <1>2, DeleteRefines DEF RunLife!RunLifeNext
<1>3. CASE \E c \in RunCalls, r \in RunIds : StartPipeline(c, r)
  BY <1>3, StartRefines DEF RunLife!RunLifeNext
<1>4. CASE \E c \in RunCalls, r \in RunIds, success \in BOOLEAN : AdvanceRun(c, r, success)
  BY <1>4, AdvanceRefines DEF RunLife!RunLifeNext
<1>5. CASE \E c \in RunCalls : SpawnReturns(c)
  BY <1>5, SpawnReturnsRefines DEF RunLife!RunLifeNext
<1>6. CASE \E r \in RunIds : CancelRun(r)
  BY <1>6, CancelRefines DEF RunLife!RunLifeNext
<1> QED BY <1>1, <1>2, <1>3, <1>4, <1>5, <1>6 DEF PipeNext

\* For any number of runs, requests and crashes, the handlers implement the life of a
\* run: outcomes are written once, one step of the plan after the other.
THEOREM RunLifeRefinement == PipeSpec => ImplementsRunLife
<1>1. PipeInit => RunLife!RunLifeInit /\ CopyInv
  <2> SUFFICES ASSUME PipeInit PROVE RunLife!RunLifeInit /\ CopyInv
    OBVIOUS
  <2>1. \A r \in RunIds : Settled(r) = 0
    BY DEF PipeInit, Settled
  <2>2. RunState = [r \in RunIds |-> "none"] /\ Outcomes = [r \in RunIds |-> <<>>]
    BY <2>1 DEF PipeInit, RunState, Outcomes
  <2> QED BY <2>2, PipelineAssumption DEF PipeInit, RunLife!RunLifeInit, CopyInv, Returned
<1> QED BY <1>1, CopyStep, PipeStepRefines, PipeInvHolds, PTL
        DEF PipeSpec, ImplementsRunLife, RunLife!RunLifeSpec

\* A run goes through its steps once and in order, and ends once.
THEOREM PipelineCorrect == PipeSpec => PipelineSafe
<1>1. PipeInv => PipeTypeOK /\ StepsInOrder /\ SnapshotMatchesStatus /\ SpawnedOnce
  BY DEF PipeInv
<1> QED BY <1>1, PipeInvHolds, EndedIsFinalHolds, NoSpawnAfterEndHolds,
        RunLifeRefinement, PTL DEF PipelineSafe

---------------------------------------------------------------------------
(***************************************************************************)
(* The task board: the inductive invariant.                                *)
(***************************************************************************)

\* A fetched list says "closed" only of issues that are: an issue that was
\* closed when GitHub answered is not reopened by what is modelled.
ListsAreTrue ==
    \A list \in syncs : \A i \in DOMAIN list :
        list[i] = "closed" => issue[i] = "closed"

\* A close that is about to be recorded was confirmed by GitHub.
ClosesAreTrue == \A i \in closing : issue[i] = "closed"

TaskInv ==
    /\ TaskTypeOK /\ ListsAreTrue /\ ClosesAreTrue
    /\ LinkedOnce /\ ClosedIsClosed /\ AssigneeFollows

---------------------------------------------------------------------------

(* Every action preserves the invariant.                                   *)

\* At the start no task exists and no request to GitHub is under way.
LEMMA TaskInitInv == TaskInit => TaskInv
<1> SUFFICES ASSUME TaskInit
             PROVE  TaskInv
  OBVIOUS
<1> USE TaskBoardAssumption DEF TaskInit
<1>1. TaskTypeOK
  <2>1. Free \in Tasks
    BY DEF Free, Tasks
  <2> QED BY <2>1 DEF TaskTypeOK
<1>2. ListsAreTrue /\ ClosesAreTrue
  BY DEF ListsAreTrue, ClosesAreTrue
<1>3. LinkedOnce /\ ClosedIsClosed /\ AssigneeFollows
  BY DEF LinkedOnce, ClosedIsClosed, AssigneeFollows, TaskExists, Free
<1> QED BY <1>1, <1>2, <1>3 DEF TaskInv

\* POST /api/tasks: the new task has no issue, its assignee follows it.
LEMMA CreateTaskInv ==
    ASSUME TaskInv, NEW t \in TaskIds, NEW by \in Names, NEW column \in Statuses,
           NEW assignee \in Names \cup {NoOne}, CreateTask(t, by, column, assignee)
    PROVE  TaskInv'
<1> DEFINE row == [Free EXCEPT !.state = "exists", !.status = column, !.assignee = assignee]
<1>1. /\ task \in [TaskIds -> Tasks] /\ TaskTypeOK
      /\ task' = [task EXCEPT ![t] = row]
      /\ subs' = [subs EXCEPT ![t] = {by} \cup ({assignee} \ {NoOne})]
      /\ notices' = {Notice(n, "assignment", t) : n \in {assignee} \ {NoOne}}
      /\ UNCHANGED <<origin, latest, issue, syncs, closing, casting>>
  BY DEF CreateTask, TaskInv, TaskTypeOK, remote
<1>2. /\ row \in Tasks /\ row.issue = NoIssue /\ row.github = "none"
      /\ row.assignee = assignee
  BY TaskBoardAssumption DEF Free, Tasks
<1> HIDE DEF row
<1>3. \A u \in TaskIds : task'[u] = IF u = t THEN row ELSE task[u]
  BY <1>1
<1>4. TaskTypeOK'
  <2>1. notices' \subseteq Notices
    BY <1>1 DEF Notice, Notices
  <2> QED BY <1>1, <1>2, <2>1 DEF TaskTypeOK
<1>5. ListsAreTrue' /\ ClosesAreTrue'
  BY <1>1 DEF TaskInv, ListsAreTrue, ClosesAreTrue
<1>6. LinkedOnce'
  BY <1>2, <1>3 DEF TaskInv, LinkedOnce, TaskExists
<1>7. ClosedIsClosed'
  BY <1>1, <1>2, <1>3 DEF TaskInv, ClosedIsClosed
<1>8. AssigneeFollows'
  BY <1>1, <1>2, <1>3 DEF TaskInv, TaskTypeOK, AssigneeFollows, TaskExists
<1> QED BY <1>4, <1>5, <1>6, <1>7, <1>8 DEF TaskInv

\* PUT /api/tasks/[id]: the link to the issue is kept or dropped, and a new
\* assignee is subscribed.
LEMMA UpdateTaskInv ==
    ASSUME TaskInv, NEW t \in TaskIds, NEW body \in Bodies(t), UpdateTask(t, body)
    PROVE  TaskInv'
<1> DEFINE new == Parsed(t, body)
           row == [task[t] EXCEPT !.status = new.status, !.assignee = new.assignee,
                                  !.issue = new.issue, !.github = new.github]
<1>1. /\ TaskTypeOK /\ TaskExists(t) /\ task[t] \in Tasks
      /\ task' = [task EXCEPT ![t] = row]
      /\ subs' = IF new.assignee # task[t].assignee THEN Subscribe(t, new.assignee) ELSE subs
      /\ UNCHANGED <<origin, latest, issue, syncs, closing, casting>>
  BY DEF UpdateTask, TaskInv, TaskTypeOK, remote
<1>2. /\ new.status \in Statuses /\ new.assignee \in Names \cup {NoOne}
      /\ \/ new.issue = task[t].issue /\ new.github = task[t].github
         \/ new.issue = NoIssue /\ new.github = "none"
  BY <1>1, TaskBoardAssumption DEF Parsed, Bodies, Tasks
<1>3. notices' \subseteq Notices
  <2>1. task[t].assignee \in Names \cup {NoOne}
    BY <1>1 DEF Tasks
  <2> QED BY <1>2, <2>1 DEF UpdateTask, Notice, Notices
<1> HIDE DEF new
<1>4. /\ row \in Tasks /\ row.state = "exists"
      /\ row.issue = new.issue /\ row.github = new.github /\ row.assignee = new.assignee
  BY <1>1, <1>2 DEF Tasks, TaskExists
<1> HIDE DEF row
<1>5. \A u \in TaskIds : task'[u] = IF u = t THEN row ELSE task[u]
  BY <1>1 DEF TaskTypeOK
<1>6. TaskTypeOK'
  <2>1. subs' \in [TaskIds -> SUBSET Names]
    BY <1>1, <1>2 DEF Subscribe, TaskTypeOK
  <2> QED BY <1>1, <1>3, <1>4, <2>1 DEF TaskTypeOK
<1>7. ListsAreTrue' /\ ClosesAreTrue'
  BY <1>1 DEF TaskInv, ListsAreTrue, ClosesAreTrue
<1>8. LinkedOnce'
  BY <1>1, <1>2, <1>4, <1>5 DEF TaskInv, LinkedOnce, TaskExists
<1>9. ClosedIsClosed'
  BY <1>1, <1>2, <1>4, <1>5 DEF TaskInv, ClosedIsClosed
<1>10. AssigneeFollows'
  <2> SUFFICES ASSUME NEW u \in TaskIds, TaskExists(u)', task'[u].assignee # NoOne
               PROVE  task'[u].assignee \in subs'[u] \/ origin[u] # NoIssue
    BY <1>1 DEF AssigneeFollows
  <2>1. CASE u = t /\ new.assignee # task[t].assignee
    BY <1>1, <1>4, <1>5, <2>1 DEF Subscribe, TaskTypeOK
  <2>2. CASE u # t \/ new.assignee = task[t].assignee
    <3>1. /\ task'[u].assignee = task[u].assignee /\ TaskExists(u)
          /\ subs'[u] = subs[u]
      BY <1>1, <1>4, <1>5, <2>2 DEF Subscribe, TaskTypeOK, TaskExists
    <3> QED BY <3>1 DEF TaskInv, AssigneeFollows
  <2> QED BY <2>1, <2>2
<1> QED BY <1>6, <1>7, <1>8, <1>9, <1>10 DEF TaskInv

\* PUT /api/tasks and an approving review move tasks and change nothing else
\* the invariant looks at.
LEMMA MovesInv ==
    ASSUME TaskInv, task' \in [TaskIds -> Tasks], latest' \in [TaskIds -> SUBSET {"approved", "rejected"}],
           \A t \in TaskIds : /\ task'[t].state = task[t].state
                              /\ task'[t].assignee = task[t].assignee
                              /\ task'[t].issue = task[t].issue
                              /\ task'[t].github = task[t].github,
           notices' = {}, UNCHANGED <<origin, subs, remote>>
    PROVE  TaskInv'
<1>1. TaskTypeOK'
  BY DEF TaskInv, TaskTypeOK, remote
<1>2. ListsAreTrue' /\ ClosesAreTrue'
  BY DEF TaskInv, ListsAreTrue, ClosesAreTrue, remote
<1>3. LinkedOnce' /\ ClosedIsClosed' /\ AssigneeFollows'
  BY DEF TaskInv, LinkedOnce, ClosedIsClosed, AssigneeFollows, TaskExists, remote
<1> QED BY <1>1, <1>2, <1>3 DEF TaskInv

\* PUT /api/tasks is all or nothing.
LEMMA BulkUpdateInv ==
    ASSUME TaskInv, NEW S \in SUBSET TaskIds, NEW moves \in [S -> Statuses], BulkUpdate(moves)
    PROVE  TaskInv'
<1>1. task \in [TaskIds -> Tasks] /\ latest \in [TaskIds -> SUBSET {"approved", "rejected"}]
  BY DEF TaskInv, TaskTypeOK
<1>2. task' = [t \in TaskIds |->
          IF t \in S /\ TaskExists(t)
          THEN [task[t] EXCEPT !.status = moves[t]] ELSE task[t]]
  BY DEF BulkUpdate
<1>3. ASSUME NEW t \in TaskIds
      PROVE  /\ task'[t] \in Tasks
             /\ task'[t].state = task[t].state /\ task'[t].assignee = task[t].assignee
             /\ task'[t].issue = task[t].issue /\ task'[t].github = task[t].github
  <2>1. task[t] \in Tasks
    BY <1>1
  <2>2. CASE t \in S /\ TaskExists(t)
    <3>1. task'[t] = [task[t] EXCEPT !.status = moves[t]] /\ moves[t] \in Statuses
      BY <1>2, <2>2
    <3> QED BY <2>1, <3>1 DEF Tasks
  <2>3. CASE ~(t \in S /\ TaskExists(t))
    BY <1>2, <2>1, <2>3
  <2> QED BY <2>2, <2>3
<1> QED BY <1>1, <1>2, <1>3, MovesInv DEF BulkUpdate

\* POST /api/quality-review by aegis.
LEMMA ReviewInv ==
    ASSUME TaskInv, NEW t \in TaskIds, NEW verdict \in {"approved", "rejected"},
           NEW sameSecond \in BOOLEAN, Review(t, verdict, sameSecond)
    PROVE  TaskInv'
<1>1. task \in [TaskIds -> Tasks] /\ latest \in [TaskIds -> SUBSET {"approved", "rejected"}]
  BY DEF TaskInv, TaskTypeOK
<1>2. task' = task \/ task' = [task EXCEPT ![t] = [@ EXCEPT !.status = "done"]]
  BY DEF Review
<1>3. ASSUME NEW u \in TaskIds
      PROVE  /\ task'[u] \in Tasks
             /\ task'[u].state = task[u].state /\ task'[u].assignee = task[u].assignee
             /\ task'[u].issue = task[u].issue /\ task'[u].github = task[u].github
  BY <1>1, <1>2, TaskBoardAssumption DEF Tasks
<1>4. task' \in [TaskIds -> Tasks]
  BY <1>1, <1>2, <1>3
<1>5. latest' \in [TaskIds -> SUBSET {"approved", "rejected"}]
  BY <1>1 DEF Review
<1> QED BY <1>3, <1>4, <1>5, MovesInv DEF Review

\* DELETE /api/tasks/[id]: what cascades no longer matters.
LEMMA DeleteTaskInv ==
    ASSUME TaskInv, NEW t \in TaskIds, DeleteTask(t)
    PROVE  TaskInv'
<1> DEFINE row == [Free EXCEPT !.state = "deleted"]
<1>1. /\ TaskTypeOK /\ task \in [TaskIds -> Tasks]
      /\ task' = [task EXCEPT ![t] = row]
      /\ UNCHANGED <<origin, issue, syncs, closing, casting>>
  BY DEF DeleteTask, TaskInv, TaskTypeOK, remote
<1>2. row \in Tasks /\ row.state = "deleted" /\ row.github = "none"
  BY TaskBoardAssumption DEF Free, Tasks
<1> HIDE DEF row
<1>3. \A u \in TaskIds : task'[u] = IF u = t THEN row ELSE task[u]
  BY <1>1
<1>4. TaskTypeOK'
  BY <1>1, <1>2 DEF DeleteTask, TaskTypeOK
<1>5. ListsAreTrue' /\ ClosesAreTrue'
  BY <1>1 DEF TaskInv, ListsAreTrue, ClosesAreTrue
<1>6. LinkedOnce' /\ ClosedIsClosed'
  BY <1>1, <1>2, <1>3 DEF TaskInv, LinkedOnce, ClosedIsClosed, TaskExists
<1>7. AssigneeFollows'
  BY <1>1, <1>2, <1>3 DEF TaskInv, TaskTypeOK, AssigneeFollows, TaskExists, DeleteTask
<1> QED BY <1>4, <1>5, <1>6, <1>7 DEF TaskInv

\* What a comment or a broadcast may change.
OnlyAddsFollowers ==
    /\ UNCHANGED <<task, origin, latest, issue, syncs, closing>>
    /\ subs' \in [TaskIds -> SUBSET Names]
    /\ \A t \in TaskIds : subs[t] \subseteq subs'[t]
    /\ casting' \subseteq TaskIds \X Names
    /\ notices' \subseteq Notices

\* Comments and broadcasts only add followers.
LEMMA DiscussInv ==
    ASSUME TaskInv, Discuss
    PROVE  TaskInv'
<1>1. OnlyAddsFollowers
  <2>1. PICK t \in TaskIds, n \in Names :
          \/ \E mentions \in SUBSET Names : AddComment(t, n, mentions)
          \/ Broadcast(t, n)
          \/ \E ok \in BOOLEAN : BroadcastSent(t, n, ok)
    BY DEF Discuss
  <2>2. /\ task \in [TaskIds -> Tasks] /\ subs \in [TaskIds -> SUBSET Names]
        /\ casting \subseteq TaskIds \X Names /\ notices \subseteq Notices
        /\ task[t].assignee \in Names \cup {NoOne}
    BY DEF TaskInv, TaskTypeOK, Tasks
  <2>3. ASSUME NEW mentions \in SUBSET Names, AddComment(t, n, mentions)
        PROVE  OnlyAddsFollowers
    <3>1. /\ subs' = [subs EXCEPT ![t] =
                  @ \cup {n} \cup mentions \cup ({task[t].assignee} \ {NoOne})]
          /\ UNCHANGED <<task, origin, latest, issue, syncs, closing, casting>>
          /\ notices' = {Notice(m, IF m \in mentions THEN "mention" ELSE "comment", t) :
                           m \in subs'[t] \ {n}}
      BY <2>3 DEF AddComment, remote
    <3>2. subs' \in [TaskIds -> SUBSET Names]
      BY <2>2, <3>1
    <3>3. notices' \subseteq Notices
      BY <3>1, <3>2 DEF Notice, Notices
    <3> QED BY <2>2, <3>1, <3>2, <3>3 DEF OnlyAddsFollowers
  <2>4. CASE Broadcast(t, n)
    BY <2>2, <2>4 DEF Broadcast, taskTables, OnlyAddsFollowers
  <2>5. ASSUME NEW ok \in BOOLEAN, BroadcastSent(t, n, ok)
        PROVE  OnlyAddsFollowers
    BY <2>2, <2>5 DEF BroadcastSent, taskTables, OnlyAddsFollowers, Notice, Notices
  <2> QED BY <2>1, <2>3, <2>4, <2>5
<1>2. TaskTypeOK' /\ ListsAreTrue' /\ ClosesAreTrue'
  BY <1>1 DEF OnlyAddsFollowers, TaskInv, TaskTypeOK, ListsAreTrue, ClosesAreTrue
<1>3. LinkedOnce' /\ ClosedIsClosed' /\ AssigneeFollows'
  BY <1>1 DEF OnlyAddsFollowers, TaskInv, LinkedOnce, ClosedIsClosed, AssigneeFollows, TaskExists
<1> QED BY <1>2, <1>3 DEF TaskInv

\* sync up to its await: the list is true of GitHub when it is taken.
LEMMA FetchIssuesInv ==
    ASSUME TaskInv, NEW closedToo \in BOOLEAN, FetchIssues(closedToo)
    PROVE  TaskInv'
<1>1. /\ UNCHANGED <<task, origin, latest, subs, issue, closing, casting>>
      /\ notices' = {}
  BY DEF FetchIssues, taskTables
<1>2. PICK list \in UNION {[S -> {"open", "closed"}] : S \in SUBSET Issues} :
        /\ syncs' = syncs \cup {list}
        /\ \A i \in DOMAIN list : list[i] = issue[i]
  <2> DEFINE S == {i \in Issues : closedToo \/ issue[i] = "open"}
             list == [i \in S |-> issue[i]]
  <2>1. syncs' = syncs \cup {list}
    BY DEF FetchIssues
  <2>2. list \in [S -> {"open", "closed"}] /\ S \in SUBSET Issues
    BY DEF TaskInv, TaskTypeOK
  <2> QED BY <2>1, <2>2
<1>3. TaskTypeOK'
  BY <1>1, <1>2 DEF TaskInv, TaskTypeOK, Range
<1>4. ListsAreTrue' /\ ClosesAreTrue'
  BY <1>1, <1>2 DEF TaskInv, ListsAreTrue, ClosesAreTrue
<1>5. LinkedOnce' /\ ClosedIsClosed' /\ AssigneeFollows'
  BY <1>1 DEF TaskInv, LinkedOnce, ClosedIsClosed, AssigneeFollows, TaskExists
<1> QED BY <1>3, <1>4, <1>5 DEF TaskInv

\* sync from the list on: the issues that get a task had none, and each gets
\* one.
LEMMA ImportIssuesInv ==
    ASSUME TaskInv, NEW list \in syncs, NEW agent \in Names \cup {NoOne},
           ImportIssues(list, agent)
    PROVE  TaskInv'
<1>1. /\ TaskTypeOK /\ ListsAreTrue /\ ClosesAreTrue
      /\ LinkedOnce /\ ClosedIsClosed /\ AssigneeFollows
  BY DEF TaskInv
<1>2. /\ syncs' = syncs \ {list} /\ notices' = {}
      /\ UNCHANGED <<latest, subs, issue, closing, casting>>
  BY DEF ImportIssues
<1>3. PICK id \in Injection({i \in DOMAIN list : ~Imported(i)},
                            {t \in TaskIds : task[t].state = "none"}) :
        LET new == Range(id)
            from(t) == CHOOSE i \in DOMAIN id : id[i] = t
        IN  /\ task' = [t \in TaskIds |-> IF t \notin new THEN task[t]
                 ELSE [state |-> "exists", status |-> ImportStatus(list[from(t)]),
                       assignee |-> agent, issue |-> from(t), github |-> list[from(t)]]]
            /\ origin' = [t \in TaskIds |-> IF t \in new THEN from(t) ELSE origin[t]]
  BY DEF ImportIssues
<1> DEFINE new == Range(id)
           from(t) == CHOOSE i \in DOMAIN id : id[i] = t
<1>4. /\ DOMAIN list \subseteq Issues
      /\ \A i \in DOMAIN list : list[i] \in {"open", "closed"}
      /\ \A i \in DOMAIN list : list[i] = "closed" => issue[i] = "closed"
  BY <1>1 DEF TaskTypeOK, Range, ListsAreTrue
<1>5. /\ new \subseteq TaskIds
      /\ \A t \in new : /\ from(t) \in DOMAIN list /\ ~Imported(from(t))
                        /\ id[from(t)] = t
  BY DEF Injection, Range
<1>6. \A t \in TaskIds \ new : task'[t] = task[t] /\ origin'[t] = origin[t]
  BY <1>3
<1> HIDE DEF new, from
<1>7. ASSUME NEW t \in new
      PROVE  /\ task'[t] \in Tasks
             /\ task'[t].state = "exists" /\ task'[t].assignee = agent
             /\ task'[t].issue = from(t) /\ task'[t].github = list[from(t)]
             /\ origin'[t] = from(t) /\ from(t) \in Issues
  <2> DEFINE i == from(t)
             row == [state |-> "exists", status |-> ImportStatus(list[i]),
                     assignee |-> agent, issue |-> i, github |-> list[i]]
  <2>1. task'[t] = row /\ origin'[t] = i
    BY <1>3, <1>5 DEF new, from
  <2>2. i \in Issues /\ list[i] \in {"open", "closed"}
    BY <1>4, <1>5
  <2> HIDE DEF i
  <2>3. ImportStatus(list[i]) \in Statuses
    BY <2>2, TaskBoardAssumption DEF ImportStatus
  <2>4. row \in Tasks
    BY <2>2, <2>3 DEF Tasks
  <2> QED BY <2>1, <2>2, <2>4 DEF i
<1>8. /\ task' \in [TaskIds -> Tasks]
      /\ origin' \in [TaskIds -> Issues \cup {NoIssue}]
  <2>1. ASSUME NEW t \in new
        PROVE  task'[t] \in Tasks /\ origin'[t] \in Issues
    BY <1>7
  <2>2. ASSUME NEW t \in TaskIds \ new
        PROVE  task'[t] \in Tasks /\ origin'[t] \in Issues \cup {NoIssue}
    BY <1>1, <1>6, <2>2 DEF TaskTypeOK
  <2>3. ASSUME NEW t \in TaskIds
        PROVE  task'[t] \in Tasks /\ origin'[t] \in Issues \cup {NoIssue}
    BY <2>1, <2>2, <2>3
  <2>4. task' = [t \in TaskIds |-> task'[t]] /\ origin' = [t \in TaskIds |-> origin'[t]]
    BY <1>3
  <2> QED BY <2>3, <2>4
<1>9. TaskTypeOK'
  BY <1>1, <1>2, <1>8 DEF TaskTypeOK
<1>10. ListsAreTrue' /\ ClosesAreTrue'
  BY <1>1, <1>2 DEF ListsAreTrue, ClosesAreTrue
<1>11. LinkedOnce'
  <2> SUFFICES ASSUME NEW t \in TaskIds, NEW u \in TaskIds,
                      TaskExists(t)', TaskExists(u)', task'[t].issue = task'[u].issue
               PROVE  t = u \/ task'[t].issue = NoIssue
    BY DEF LinkedOnce
  <2>1. CASE t \in new /\ u \in new
    BY <1>5, <1>7, <2>1
  <2>2. CASE t \notin new /\ u \notin new
    BY <1>1, <1>6, <2>2 DEF LinkedOnce, TaskExists
  <2>3. CASE t \in new /\ u \notin new
    BY <1>5, <1>6, <1>7, <2>3 DEF Imported, TaskExists
  <2>4. CASE t \notin new /\ u \in new
    BY <1>5, <1>6, <1>7, <2>4 DEF Imported, TaskExists
  <2> QED BY <2>1, <2>2, <2>3, <2>4
<1>12. ClosedIsClosed'
  BY <1>1, <1>2, <1>4, <1>5, <1>6, <1>7, TaskBoardAssumption DEF ClosedIsClosed
<1>13. AssigneeFollows'
  BY <1>1, <1>2, <1>4, <1>5, <1>6, <1>7, TaskBoardAssumption DEF AssigneeFollows, TaskExists
<1> QED BY <1>9, <1>10, <1>11, <1>12, <1>13 DEF TaskInv

\* An issue that is closed, here or elsewhere, makes nothing untrue.
LEMMA IssueClosedInv ==
    ASSUME TaskInv, NEW i \in Issues, IssueClosedElsewhere(i) \/ CloseIssue(i)
    PROVE  TaskInv'
<1>1. /\ UNCHANGED <<task, origin, latest, subs, syncs, casting>>
      /\ issue' = [issue EXCEPT ![i] = "closed"]
      /\ closing' \in {closing, closing \cup {i}}
      /\ notices' = {}
  BY DEF IssueClosedElsewhere, CloseIssue, taskTables
<1>2. /\ issue' \in [Issues -> {"open", "closed"}]
      /\ issue'[i] = "closed"
      /\ \A j \in Issues : issue[j] = "closed" => issue'[j] = "closed"
  BY <1>1 DEF TaskInv, TaskTypeOK
<1>3. TaskTypeOK'
  BY <1>1, <1>2 DEF TaskInv, TaskTypeOK
<1>4. ListsAreTrue' /\ ClosesAreTrue'
  BY <1>1, <1>2 DEF TaskInv, TaskTypeOK, ListsAreTrue, ClosesAreTrue
<1>5. \A t \in TaskIds : task[t].issue \in Issues \cup {NoIssue}
  BY DEF TaskInv, TaskTypeOK, Tasks
<1>6. LinkedOnce' /\ ClosedIsClosed' /\ AssigneeFollows'
  BY <1>1, <1>2, <1>5 DEF TaskInv, LinkedOnce, ClosedIsClosed, AssigneeFollows, TaskExists
<1> QED BY <1>3, <1>4, <1>6 DEF TaskInv

\* close behind its await records what GitHub has confirmed.
LEMMA CloseRecordedInv ==
    ASSUME TaskInv, NEW i \in Issues, CloseRecorded(i)
    PROVE  TaskInv'
<1>1. /\ UNCHANGED <<origin, latest, subs, issue, syncs, casting>>
      /\ closing' = closing \ {i} /\ notices' = {} /\ task' = RecordClose(i)
      /\ i \in closing
  BY DEF CloseRecorded
<1>2. issue[i] = "closed" /\ i # NoIssue /\ task \in [TaskIds -> Tasks]
  BY <1>1, TaskBoardAssumption DEF TaskInv, TaskTypeOK, ClosesAreTrue
<1>3. ASSUME NEW t \in TaskIds
      PROVE  /\ task'[t] \in Tasks
             /\ task'[t].state = task[t].state /\ task'[t].assignee = task[t].assignee
             /\ task'[t].issue = task[t].issue
             /\ task'[t].github # task[t].github => task[t].issue = i
  BY <1>1, <1>2 DEF RecordClose, Tasks
<1>4. task' \in [TaskIds -> Tasks]
  BY <1>1, <1>3 DEF RecordClose
<1>5. TaskTypeOK'
  BY <1>1, <1>4 DEF TaskInv, TaskTypeOK
<1>6. ListsAreTrue' /\ ClosesAreTrue'
  BY <1>1 DEF TaskInv, ListsAreTrue, ClosesAreTrue
<1>7. LinkedOnce' /\ ClosedIsClosed' /\ AssigneeFollows'
  BY <1>1, <1>2, <1>3 DEF TaskInv, LinkedOnce, ClosedIsClosed, AssigneeFollows, TaskExists
<1> QED BY <1>5, <1>6, <1>7 DEF TaskInv
---------------------------------------------------------------------------
(* The theorems.                                                           *)

\* The invariant holds of every state of the specification.
THEOREM TaskInvHolds == TaskSpec => []TaskInv
<1>1. ASSUME TaskInv, [TaskNext]_taskVars
      PROVE  TaskInv'
  <2>1. CASE EditTasks
    BY <1>1, <2>1, CreateTaskInv, UpdateTaskInv, DeleteTaskInv, ReviewInv DEF EditTasks
  <2>2. CASE Discuss
    BY <1>1, <2>2, DiscussInv
  <2>3. CASE GitHub
    BY <1>1, <2>3, FetchIssuesInv, ImportIssuesInv, IssueClosedInv, CloseRecordedInv
       DEF GitHub
  <2>4. ASSUME NEW S \in SUBSET TaskIds, NEW moves \in [S -> Statuses], BulkUpdate(moves)
        PROVE  TaskInv'
    BY <1>1, <2>4, BulkUpdateInv
  <2>5. CASE UNCHANGED taskVars
    BY <1>1, <2>5 DEF TaskInv, taskVars, taskTables, remote, TaskTypeOK, ListsAreTrue,
       ClosesAreTrue, LinkedOnce, ClosedIsClosed, AssigneeFollows, TaskExists
  <2> QED BY <1>1, <2>1, <2>2, <2>3, <2>4, <2>5 DEF TaskNext
<1> QED BY <1>1, TaskInitInv, PTL DEF TaskSpec

\* However a task on the board gets to 'done', its newest aegis verdict can
\* be read as an approval.
THEOREM GateHoldsAlways == TaskSpec => GateHolds
<1>1. ASSUME TaskInv, [TaskNext]_taskVars, NEW t \in TaskIds, TaskExists(t),
             task[t].status # "done", task'[t].state = "exists", task'[t].status = "done"
      PROVE  "approved" \in latest'[t]
  <2> USE <1>1 DEF TaskExists
  <2>1. /\ task \in [TaskIds -> Tasks]
        /\ latest \in [TaskIds -> SUBSET {"approved", "rejected"}]
    BY DEF TaskInv, TaskTypeOK
  <2>2. ASSUME NEW u \in TaskIds, NEW by \in Names, NEW s \in Statuses,
               NEW a \in Names \cup {NoOne}, CreateTask(u, by, s, a)
        PROVE  FALSE
    <3>1. u # t
      BY <2>2 DEF CreateTask
    <3> QED BY <2>1, <2>2, <3>1 DEF CreateTask
  <2>3. ASSUME NEW u \in TaskIds, NEW body \in Bodies(u), UpdateTask(u, body)
        PROVE  "approved" \in latest'[t]
    <3>1. latest' = latest
      BY <2>3 DEF UpdateTask
    <3>2. u = t
      BY <2>1, <2>3 DEF UpdateTask
    <3>3. task'[t].status = Parsed(t, body).status
      BY <2>1, <2>3, <3>2 DEF UpdateTask, Tasks
    <3> QED BY <2>3, <3>1, <3>2, <3>3 DEF UpdateTask, HasAegisApproval
  <2>4. ASSUME NEW u \in TaskIds, DeleteTask(u)
        PROVE  FALSE
    <3>1. u # t
      BY <2>1, <2>4 DEF DeleteTask, Free
    <3> QED BY <2>1, <2>4, <3>1 DEF DeleteTask
  <2>5. ASSUME NEW u \in TaskIds, NEW v \in {"approved", "rejected"}, NEW same \in BOOLEAN,
               Review(u, v, same)
        PROVE  "approved" \in latest'[t]
    <3>1. u = t /\ v = "approved"
      BY <2>1, <2>5 DEF Review
    <3> QED BY <2>1, <2>5, <3>1 DEF Review
  <2>6. CASE Discuss
    <3>1. task' = task
      BY <2>6 DEF Discuss, AddComment, Broadcast, BroadcastSent, taskTables
    <3> QED BY <3>1
  <2>7. CASE GitHub
    <3>1. CASE task' = task
      BY <3>1
    <3>2. ASSUME NEW list \in syncs, NEW a \in Names \cup {NoOne}, ImportIssues(list, a)
          PROVE  FALSE
      <4>1. PICK id \in Injection({i \in DOMAIN list : ~Imported(i)},
                                  {u \in TaskIds : task[u].state = "none"}) :
                task'[t] = task[t] \/ t \in Range(id)
        BY <3>2 DEF ImportIssues
      <4>2. t \notin Range(id)
        BY DEF Injection, Range
      <4> QED BY <4>1, <4>2
    <3>3. ASSUME NEW i \in Issues, CloseRecorded(i)
          PROVE  FALSE
      BY <2>1, <3>3 DEF CloseRecorded, RecordClose, Tasks
    <3> QED BY <2>7, <3>1, <3>2, <3>3 DEF GitHub, FetchIssues, IssueClosedElsewhere, CloseIssue,
               taskTables
  <2>8. ASSUME NEW S \in SUBSET TaskIds, NEW moves \in [S -> Statuses], BulkUpdate(moves)
        PROVE  "approved" \in latest'[t]
    <3>1. t \in S /\ moves[t] = "done"
      BY <2>1, <2>8 DEF BulkUpdate, Tasks
    <3> QED BY <2>8, <3>1 DEF BulkUpdate, HasAegisApproval
  <2>9. CASE UNCHANGED taskVars
    BY <2>9 DEF taskVars, taskTables
  <2> QED BY <2>2, <2>3, <2>4, <2>5, <2>6, <2>7, <2>8, <2>9 DEF TaskNext, EditTasks
<1>2. TaskInv /\ [TaskNext]_taskVars =>
        \A t \in TaskIds :
          /\ TaskExists(t) /\ task[t].status # "done"
          /\ task'[t].state = "exists" /\ task'[t].status = "done"
          => "approved" \in latest'[t]
  BY <1>1
<1> QED BY <1>2, TaskInvHolds, PTL DEF TaskSpec, GateHolds

\* Tasks and issues stay consistent, and no way to 'done' goes round the gate.
THEOREM TasksCorrect == TaskSpec => TasksSafe
<1>1. TaskInv => TaskTypeOK /\ LinkedOnce /\ ClosedIsClosed
  BY DEF TaskInv
<1> QED BY <1>1, TaskInvHolds, GateHoldsAlways, PTL DEF TasksSafe

\* Whoever a task that was not imported is assigned to follows it.
THEOREM AssigneeAlwaysFollows == TaskSpec => []AssigneeFollows
<1>1. TaskInv => AssigneeFollows
  BY DEF TaskInv
<1> QED BY <1>1, TaskInvHolds, PTL
=============================================================================
