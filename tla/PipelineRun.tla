---------------------------- MODULE PipelineRun ----------------------------
(***************************************************************************)
(* Workflow pipelines: /api/pipelines, /api/workflows and the start,       *)
(* advance and cancel actions of /api/pipelines/run.                       *)
(*                                                                         *)
(* start and advance read the run's row and suspend twice in spawnStep:    *)
(* while the module that launches is imported, and while `openclaw agent`  *)
(* launches the step.  Then they write back the copy of steps_snapshot     *)
(* they took before.  cancel and the CRUD handlers never suspend.          *)
(***************************************************************************)
EXTENDS Naturals, Sequences

CONSTANTS
    RunIds,      \* AUTOINCREMENT ids of pipeline_runs
    RunCalls,       \* POSTs to /api/pipelines/run that can be suspended at once
    Templates,   \* ids of workflow_templates
    StepLists,   \* values of workflow_pipelines.steps
    MaxSteps,    \* longest of them
    NoRun,       \* the run of a call that is not suspended
    MaxPipeCrashes   \* bound on terminations of the server

PipelineStep == [template : Templates, onFailure : {"stop", "continue"}]

ASSUME PipelineAssumption ==
    /\ NoRun \notin RunIds
    /\ MaxPipeCrashes \in Nat /\ MaxSteps \in Nat
    /\ \A p \in StepLists : p \in Seq(PipelineStep) /\ Len(p) <= MaxSteps

VARIABLES
    exists,      \* the pipeline's row exists
    pipeline,    \* its steps column
    templates,   \* the templates that exist
    plan,        \* per run, template and on_failure of its steps_snapshot
    status,      \* per run, status; "none" before the insert, "deleted" after
    current,     \* per run, current_step, counted from 1
    steps,       \* per run, the statuses in its steps_snapshot
    call,        \* the suspended calls with the copies they took
    launches,      \* per run and step, agents launched so far: 0, 1 or 2 and more
    raced,       \* runs that had a request while a call for them was suspended
    pipeCrashes

rowVars == <<plan, status, current, steps>>
pipelineVars == <<exists, pipeline, templates>>
ghostVars == <<launches, raced>>
pipeVars == <<pipelineVars, rowVars, call, ghostVars, pipeCrashes>>

StepStatus == {"pending", "running", "completed", "failed", "skipped"}
RunStatus == {"none", "running", "completed", "failed", "cancelled", "deleted"}

\* A suspended call has launched the agent of its step or still imports.
Returned == [run |-> NoRun, step |-> 0, copy |-> <<>>, starting |-> FALSE,
             launched |-> FALSE]
CallStates == [run : RunIds \cup {NoRun}, step : Nat, copy : Seq(StepStatus),
               starting : BOOLEAN, launched : BOOLEAN]

PipeInit ==
    /\ exists = TRUE /\ pipeline \in StepLists
    /\ templates = Templates
    /\ plan = [r \in RunIds |-> <<>>]
    /\ status = [r \in RunIds |-> "none"]
    /\ current = [r \in RunIds |-> 0]
    /\ steps = [r \in RunIds |-> <<>>]
    /\ call = [c \in RunCalls |-> Returned]
    /\ launches = [r \in RunIds |-> [i \in 1..MaxSteps |-> 0]]
    /\ raced = {}
    /\ pipeCrashes = 0

\* Bookkeeping for the properties: a request for run r is accepted.
NoteRace(r) ==
    raced' = IF \E c \in RunCalls : call[c].run = r THEN raced \cup {r} ELSE raced
---------------------------------------------------------------------------
(* Pipelines and templates.                                                *)

\* PUT /api/pipelines writes the posted steps as they are; runs in progress
\* keep the snapshot they started with.
UpdatePipeline(p) ==
    /\ exists
    /\ pipeline' = p
    /\ UNCHANGED <<exists, templates, rowVars, call, ghostVars, pipeCrashes>>

\* ON DELETE CASCADE takes the pipeline's runs along.
RunsCascade == status' = [r \in RunIds |->
    IF status[r] = "none" THEN "none" ELSE "deleted"]

\* DELETE /api/pipelines.
DeletePipeline ==
    /\ exists
    /\ exists' = FALSE
    /\ RunsCascade
    /\ UNCHANGED <<pipeline, templates, plan, current, steps, call, ghostVars, pipeCrashes>>

\* DELETE /api/workflows.
DeleteTemplate(t) ==
    /\ t \in templates
    /\ templates' = templates \ {t}
    /\ UNCHANGED <<exists, pipeline, rowVars, call, ghostVars, pipeCrashes>>
---------------------------------------------------------------------------
(* Runs.                                                                   *)

\* spawnStep up to its first await, the import of the command module.
Importing(r, i, copy, starting) ==
    [run |-> r, step |-> i, copy |-> copy, starting |-> starting, launched |-> FALSE]
SpawnStep(c, r, i, copy, starting) ==
    call' = [call EXCEPT ![c] = Importing(r, i, copy, starting)]

\* The import is there and the agent is launched, whatever became of the run.
Launch(c) ==
    /\ call[c] # Returned /\ ~call[c].launched
    /\ call' = [call EXCEPT ![c].launched = TRUE]
    /\ launches' = [launches EXCEPT ![call[c].run][call[c].step] =
                       IF @ = 2 THEN 2 ELSE @ + 1]
    /\ UNCHANGED <<pipelineVars, rowVars, raced, pipeCrashes>>

\* startPipeline up to its await; without a template for the first step it
\* runs to its end at once.
StartPipeline(c, r) ==
    /\ call[c] = Returned
    /\ exists /\ pipeline # <<>> /\ status[r] = "none"
    /\ LET snapshot == [i \in 1..Len(pipeline) |->
                           IF i = 1 THEN "running" ELSE "pending"]
       IN  /\ plan' = [plan EXCEPT ![r] = pipeline]
           /\ status' = [status EXCEPT ![r] = "running"]
           /\ current' = [current EXCEPT ![r] = 1]
           /\ steps' = [steps EXCEPT ![r] = snapshot]
           /\ IF pipeline[1].template \in templates
              THEN SpawnStep(c, r, 1, snapshot, TRUE)
              ELSE UNCHANGED call
    /\ UNCHANGED <<pipelineVars, ghostVars, pipeCrashes>>

\* The current step failed and its on_failure is 'stop'.
StopsRun(r, success) == ~success /\ plan[r][current[r]].onFailure = "stop"

SkipRest(r, marked) ==
    [i \in 1..Len(marked) |-> IF i > current[r] THEN "skipped" ELSE marked[i]]

\* Fault: an ended run can still be advanced.
AdvanceableAny(r) == status[r] \in {"running", "cancelled"}

Advanceable(r) == status[r] = "running"

\* Advance writes its result before it returns, or suspends with a copy of
\* the snapshot in which the next step is already running.
AdvanceRun(c, r, success) ==
    /\ call[c] = Returned
    /\ Advanceable(r)
    /\ LET cur == current[r]
           marked == [steps[r] EXCEPT ![cur] =
                          IF success THEN "completed" ELSE "failed"]
           next == [marked EXCEPT ![cur + 1] = "running"]
       IN  \/ /\ StopsRun(r, success)
              /\ status' = [status EXCEPT ![r] = "failed"]
              /\ steps' = [steps EXCEPT ![r] = SkipRest(r, marked)]
              /\ UNCHANGED <<current, call>>
           \/ /\ ~StopsRun(r, success) /\ cur >= Len(marked)
              /\ status' = [status EXCEPT ![r] = "completed"]
              /\ steps' = [steps EXCEPT ![r] = marked]
              /\ UNCHANGED <<current, call>>
           \/ /\ ~StopsRun(r, success) /\ cur < Len(marked)
              /\ plan[r][cur + 1].template \in templates
              /\ SpawnStep(c, r, cur + 1, next, FALSE)
              /\ UNCHANGED <<status, current, steps>>
           \/ /\ ~StopsRun(r, success) /\ cur < Len(marked)
              /\ plan[r][cur + 1].template \notin templates
              /\ current' = [current EXCEPT ![r] = cur + 1]
              /\ steps' = [steps EXCEPT ![r] = next]
              /\ UNCHANGED <<status, call>>
    /\ NoteRace(r)
    /\ UNCHANGED <<pipelineVars, plan, launches, pipeCrashes>>

\* Faults: the write-back also revives the run, moves on to the step behind
\* the one it launched, by bounds or regardless of them, or stays behind.
WriteBackRevive(c) ==
    LET s == call[c] IN
    /\ status' = [status EXCEPT ![s.run] = "running"]
    /\ steps' = [steps EXCEPT ![s.run] = s.copy]
    /\ current' = IF s.starting THEN current ELSE [current EXCEPT ![s.run] = s.step]
WriteBackSkip(c) ==
    LET s == call[c] IN
    /\ steps' = [steps EXCEPT ![s.run] = s.copy]
    /\ current' = IF s.step < Len(s.copy)
                  THEN [current EXCEPT ![s.run] = s.step + 1] ELSE current
    /\ UNCHANGED status
WriteBackPast(c) ==
    LET s == call[c] IN
    /\ steps' = [steps EXCEPT ![s.run] = s.copy]
    /\ current' = [current EXCEPT ![s.run] = s.step + 1]
    /\ UNCHANGED status
WriteBackStay(c) ==
    LET s == call[c] IN
    /\ steps' = [steps EXCEPT ![s.run] = s.copy]
    /\ UNCHANGED <<current, status>>

\* The UPDATEs behind the await: the copy replaces whatever snapshot the row
\* has by now, status is not written, and a deleted row is not found.
WriteBack(c) ==
    LET s == call[c] IN
    /\ steps' = [steps EXCEPT ![s.run] = s.copy]
    /\ current' = IF s.starting THEN current ELSE [current EXCEPT ![s.run] = s.step]
    /\ UNCHANGED status

\* The launcher exits or is killed after 15 s; success and failure differ
\* only in the spawn_id or error text recorded with the step.
SpawnReturns(c) ==
    /\ call[c].launched
    /\ call' = [call EXCEPT ![c] = Returned]
    /\ IF status[call[c].run] = "deleted"
       THEN UNCHANGED <<steps, current, status>> ELSE WriteBack(c)
    /\ UNCHANGED <<pipelineVars, plan, ghostVars, pipeCrashes>>

\* Fault: cancelling forgets the step that is running.
CancelPendingOnly(r) == [i \in 1..Len(steps[r]) |->
    IF steps[r][i] = "pending" THEN "skipped" ELSE steps[r][i]]

SkipUnfinished(r) == [i \in 1..Len(steps[r]) |->
    IF steps[r][i] \in {"pending", "running"} THEN "skipped" ELSE steps[r][i]]

CancelRun(r) ==
    /\ status[r] = "running"
    /\ status' = [status EXCEPT ![r] = "cancelled"]
    /\ steps' = [steps EXCEPT ![r] = SkipUnfinished(r)]
    /\ NoteRace(r)
    /\ UNCHANGED <<pipelineVars, plan, current, call, launches, pipeCrashes>>

\* The server dies; agents it launched go on, its suspended calls do not.
PipeServerCrash ==
    /\ pipeCrashes < MaxPipeCrashes
    /\ pipeCrashes' = pipeCrashes + 1
    /\ call' = [c \in RunCalls |-> Returned]
    /\ UNCHANGED <<pipelineVars, rowVars, ghostVars>>
---------------------------------------------------------------------------
PipeNext ==
    \/ \E p \in StepLists : UpdatePipeline(p)
    \/ DeletePipeline
    \/ \E t \in Templates : DeleteTemplate(t)
    \/ \E c \in RunCalls, r \in RunIds :
          \/ StartPipeline(c, r)
          \/ \E success \in BOOLEAN : AdvanceRun(c, r, success)
    \/ \E c \in RunCalls : Launch(c) \/ SpawnReturns(c)
    \/ \E r \in RunIds : CancelRun(r)
    \/ PipeServerCrash

PipeSpec == PipeInit /\ [][PipeNext]_pipeVars
---------------------------------------------------------------------------
(* Properties.                                                             *)

\* Rows, copies and counters keep their types, and current_step points at a
\* step of the snapshot.
PipeTypeOK ==
    /\ exists \in BOOLEAN /\ pipeline \in StepLists /\ templates \subseteq Templates
    /\ status \in [RunIds -> RunStatus]
    /\ \A r \in RunIds :
         /\ plan[r] \in StepLists \cup {<<>>}
         /\ steps[r] \in Seq(StepStatus) /\ Len(steps[r]) = Len(plan[r])
         /\ status[r] # "none" => current[r] \in 1..Len(plan[r])
    /\ call \in [RunCalls -> CallStates]
    /\ launches \in [RunIds -> [1..MaxSteps -> 0..2]]
    /\ raced \subseteq RunIds
    /\ pipeCrashes \in Nat

Ended == {"completed", "failed", "cancelled"}

\* A run that has ended never runs again, although suspended advances still
\* write their stale copies to its row; only deleting the pipeline takes it.
EndedIsFinal ==
    [][\A r \in RunIds : status[r] \in Ended => status'[r] \in {status[r], "deleted"}]_pipeVars

\* No agent is launched for a run once it has ended, unless the run had a
\* request while another was suspended: a cancel that comes between an
\* advance's check of the status and its launch is followed by the launch.
NoSpawnAfterEnd ==
    [][\A r \in RunIds \ raced : status[r] \in Ended =>
            launches'[r] = launches[r]]_pipeVars

\* An agent is launched for a step only after one was launched for the step
\* before it, unless that one's template is gone: neither stale copies nor
\* a crash nor concurrent operators make a run skip a step.  The first step
\* alone can be passed over, by an advance that met the suspended start or
\* followed a crash in it.
StepsInOrder ==
    \A r \in RunIds, i \in 2..MaxSteps : launches[r][i] > 0 =>
        \/ launches[r][i - 1] > 0
        \/ plan[r][i - 1].template \notin templates
        \/ i = 2 /\ (r \in raced \/ pipeCrashes > 0)

\* The snapshot tells where run r is: everything before current_step is done
\* and failed only where on_failure allows to continue, and nothing is left
\* open once the run has ended.
SnapshotFits(r) ==
    LET cur == current[r]
        done(i) == \/ steps[r][i] = "completed"
                   \/ steps[r][i] = "failed" /\ plan[r][i].onFailure = "continue"
    IN  /\ \A i \in 1..(cur - 1) : done(i)
        /\ status[r] = "running" =>
             /\ steps[r][cur] = "running"
             /\ \A i \in (cur + 1)..Len(plan[r]) : steps[r][i] = "pending"
        /\ status[r] = "completed" => cur = Len(plan[r]) /\ done(cur)
        /\ status[r] = "failed" =>
             /\ steps[r][cur] = "failed" /\ plan[r][cur].onFailure = "stop"
             /\ \A i \in (cur + 1)..Len(plan[r]) : steps[r][i] = "skipped"
        /\ status[r] = "cancelled" =>
             \A i \in cur..Len(plan[r]) : steps[r][i] = "skipped"

\* That holds of every run as long as no advance or cancel of it met a
\* suspended call of the same run, crashes and edits of pipeline and templates
\* in the middle of a launch included.
SnapshotMatchesStatus ==
    \A r \in RunIds \ raced : status[r] \notin {"none", "deleted"} => SnapshotFits(r)

\* Under the same condition, and while the server stays up, a step is launched
\* at most once.
SpawnedOnce ==
    pipeCrashes = 0 => \A r \in RunIds \ raced, i \in 1..MaxSteps : launches[r][i] <= 1

\* The steps of run r whose outcome its row tells; a row that is gone, or
\* that overlapping requests wrote to, tells none.
Settled(r) ==
    IF r \in raced \/ status[r] \in {"none", "deleted"} THEN 0
    ELSE IF status[r] \in {"running", "cancelled"} THEN current[r] - 1 ELSE current[r]
Outcomes == [r \in RunIds |-> [i \in 1..Settled(r) |-> steps[r][i]]]
RunState == [r \in RunIds |-> IF r \in raced THEN "astray" ELSE status[r]]

\* Rows, suspended requests and crashes implement the life of a run: an outcome
\* once written is never written again, by no copy that a request took before it
\* suspended, and each write takes exactly one step of the plan
\* (pipelines/run/route.ts).
RunLife == INSTANCE RunLifecycle
           WITH Plans <- StepLists, runPlan <- plan, runState <- RunState, outcomes <- Outcomes
ImplementsRunLife == RunLife!RunLifeSpec

\* A run goes through its steps once and in order, and ends once, through
\* overlapping requests and crashes.
PipelineSafe ==
    /\ [](PipeTypeOK /\ StepsInOrder /\ SnapshotMatchesStatus /\ SpawnedOnce)
    /\ EndedIsFinal /\ NoSpawnAfterEnd
    /\ ImplementsRunLife
============================================================================
