\* A click on the connection badge after the page gave up.
CONSTANTS
    Pages = {page}
    Headers = {header}
    Panels = {}
    Sockets = {s1}
    NoSocket = NoSocket
    MaxReconnectAttempts = 10
    MaxMissedPongs = 3
    MaxOwed = 5
    MaxTimers = 1
    MaxClicks = 1
SPECIFICATION GatewayFairSpec
PROPERTY ManualReconnectWorks
CHECK_DEADLOCK FALSE
