\* The daemon as the script calls the server: without API key or cookie.
CONSTANTS
    Recipients = {"apex"}
    MaxNotes = 1
    BatchLimit = 1
    Callers = {"c1"}
    MaxSendFaults = 0
    DaemonAuthorized = FALSE
SPECIFICATION NoteFairSpec
PROPERTY WaitingIsDelivered
CHECK_DEADLOCK FALSE
