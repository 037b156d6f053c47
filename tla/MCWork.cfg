\* What agents are given to do, one component at a time.
CONSTANTS
    \* TaskBoard: overlapping imports, edits and closes of one issue, bulk moves and
    \* reviews of tasks beside each other, without assignees
    TaskIds = {t1, t2, t3}
    Names = {}
    Reachable = {}
    NoOne = NoOne
    Issues = {i1}
    NoIssue = NoIssue
    Statuses <- MCStatuses
    \* PipelineRun
    RunIds = {1}
    RunCalls = {"c1", "c2"}
    Templates = {"ta", "tb"}
    StepLists <- MCStepLists
    MaxSteps = 3
    NoRun = 0
    MaxPipeCrashes = 1
    \* Sessions
    Transcripts <- MCTranscripts
    SessionIds = {"s1", "s2"}
    SessionAgents <- MCSessionAgents
    ControlActions = {"terminate"}
    ActiveFor = 1
    IdleFor = 1
    MaxSessionTime = 1
    MaxSessionOps = 3
SYMMETRY TaskSymmetry
SPECIFICATION Spec
INVARIANT SessionsSafe
PROPERTIES
    TasksSafe
    PipelineSafe
CHECK_DEADLOCK FALSE
