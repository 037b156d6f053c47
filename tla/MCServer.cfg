\* What lives in the server, one component at a time.
CONSTANTS
    \* Database
    Procs = {p1, p2}
    Envs <- MCEnvs
    OldReleases = {12, 20}
    MaxStops = 2
    \* Accounts
    MaxUsers = 3
    People = {"eve"}
    Roles = {"admin", "viewer"}
    Tokens = {1}
    MaxAdminCalls = 2
    MaxAccountWrites = 2
    \* RateLimiter
    Clients = {"a", "b"}
    TrustedProxies = {"px"}
    WindowMs = 1
    MaxRequests = 2
    MaxNow = 4
    \* Scheduler
    Order <- MCOrder
    Interval <- MCInterval
    FirstRun <- MCFirstRun
    RetentionCount = 2
    MaxManual = 3
    MaxMinute = 5
    MaxEvents = 1
    \* AgentConfig
    AgentNames = {"apex", "gem"}
    InWorkspace = {"apex"}
    Updates <- MCUpdates
    Souls = {"s1", "s2"}
    MaxEdits = 3
    \* WebhookDelivery
    Webhooks = {w1}
    Events = {e1, e2}
    Matching <- MCMatching
    MaxRetries = 3
    Keep = 3
    MaxRows = 5
    MaxAdminOps = 2
    MaxHookCrashes = 1
    \* TaskBoard: the followers of a task; tasks beside each other have a run of their own
    TaskIds = {"t1"}
    Names = {"ann", "bob"}
    Reachable = {"bob"}
    NoOne = "noone"
    Issues = {"i1"}
    NoIssue = "noissue"
    Statuses = {"inbox", "done"}
    \* Usage
    UsageLimit = 2
    UsageRetention = 1
    MaxUsage = 3
    MaxUsageTime = 2
SYMMETRY Symmetry
SPECIFICATION Spec
INVARIANTS
    RateLimitSafe
    HookSafe
    AssigneeFollows
    UsageSafe
PROPERTIES
    DatabaseSafe
    AccountsSafe
    SchedulerSafe
    ConfigSafe
CHECK_DEADLOCK FALSE
