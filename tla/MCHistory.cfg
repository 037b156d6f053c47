\* A conversation longer than the history a model is shown.
CONSTANTS
    Incoming <- OneUserInTheRoom
    MaxJobs = 3
    MaxJobFaults = 0
    HistoryLimit = 2
    ToolTurns = 1
SPECIFICATION ReplySpec
INVARIANT HistoryIsRecent
CHECK_DEADLOCK FALSE
