\* The panels and what they edit, one component at a time.
CONSTANTS
    \* AdminPanels
    PanelKinds <- AllPanels
    MaxTyped = 2
    MaxPanelFaults = 1
    MaxWire = 2
    MaxSubmits = 2
    \* MemoryFiles
    Paths = {"p1", "p2"}
    MaxMemOps = 3
    MaxMemWire = 2
    MaxEntries = 2
    \* Feeds
    FeedKinds = {"logs", "activities"}
    LogCap = 2
    FeedLimit = 2
    GatewayIds = {1}
    MaxFeedTime = 6
    MaxItems = 2
    MaxFeedLoads = 1
    \* GatewayClient: page, header and gateways panel
    Pages = {"page"}
    Headers = {"header"}
    Panels = {"panel"}
    Sockets = {"s1", "s2"}
    NoSocket = "none"
    MaxReconnectAttempts = 2
    MaxMissedPongs = 2
    MaxOwed = 3
    MaxTimers = 1
    MaxClicks = 2
    \* Gateways
    GwNames = {1, 2}
    GwAddrs = {1, 2}
    BlockedAddrs = {2}
    GwBodies <- MCGwBodies
    Probers = {"p1", "p2"}
    MaxGateways = 2
    MaxProbes = 2
    MaxEdits = 1
    \* Alerts
    RuleIds = {1}
    Conditions <- MCConditions
    Cooldowns = {2}
    Watched = {"apex"}
    MaxAlertTime = 3
    MaxFirings = 3
    \* SharedFiles
    Handlers = {"h1", "h2"}
    MaxFileCalls = 3
    MaxFileCrashes = 1
SPECIFICATION Spec
INVARIANTS
    MemorySafe
    FeedsSafe
    ConnectionSafe
    GatewaysSafe
    QuietInCooldown
    FilesSafe
PROPERTY
    FormsSafe
CHECK_DEADLOCK FALSE
