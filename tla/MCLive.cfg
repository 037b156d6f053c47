\* What must happen in the end between server, browser and gateway.
CONSTANTS
    \* AgentFleet
    FleetNames = {"apex", "gem"}
    TimeoutTicks = 1
    MaxFleetCalls = 4
    \* LiveBoard
    View = "tasks"
    RowIds = {1, 2}
    Statuses = {"inbox", "done"}
    MaxAttempts = 1
    PageLimit = 1
    MaxFetches = 2
    Budgets <- MCBudgets
    \* Chat
    Threads = {"agent_gem", "coord"}
    Addressed = {"agent_gem"}
    MaxSends = 2
    MaxChatLoads = 1
    MaxLost = 1
    ThreadLimit = 2
    \* WebhookDelivery
    Webhooks = {w1}
    Events = {"e1", "e2"}
    Matching <- MCMatching
    MaxRetries = 3
    Keep = 5
    MaxRows = 6
    MaxAdminOps = 1
    MaxHookCrashes = 1
    \* GatewayClient: the page alone, with the limits of the code
    Pages = {"page"}
    Headers = {}
    Panels = {}
    Sockets = {"s1", "s2"}
    NoSocket = "none"
    MaxReconnectAttempts = 10
    MaxMissedPongs = 3
    MaxOwed = 5
    MaxTimers = 1
    MaxClicks = 0
SPECIFICATION FairSpec
INVARIANTS
    StreamKeepsInStep
    ChatSafe
PROPERTIES
     SilentGoesOffline
    PollingCatchesUp
    SendSettles
    EventSettles
    LostConnectionSettles
CHECK_DEADLOCK FALSE
