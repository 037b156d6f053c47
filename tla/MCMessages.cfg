\* What must happen in the end to messages, notifications and questions.
CONSTANTS
    \* Notifications
    Recipients = {"apex", "gem"}
    MaxNotes = 2
    BatchLimit = 1
    Callers = {"c1", "c2"}
    MaxSendFaults = 1
    DaemonAuthorized = TRUE
    \* AgentReplies
    Incoming <- MCIncoming
    MaxJobs = 2
    MaxJobFaults = 1
    HistoryLimit = 2
    ToolTurns = 2
    \* Viewers
    Viewers <- AllViewers
    ViewChoices = {"a", "b", "short"}
    RowsPerPage = 1
    MaxViewRows = 2
    MaxAsked = 2
    MaxPicks = 2
    MaxViewFaults = 1
SPECIFICATION FairSpec
INVARIANTS
    DeliverySafe
    RepliesSafe
    ViewersSafe
PROPERTIES
    WaitingIsDelivered
    EveryJobAnswers
    PollingRepairs
CHECK_DEADLOCK FALSE
