\* An edit that drops the link to the issue, and the next import.
CONSTANTS
    TaskIds = {t1, t2}
    Names = {}
    Reachable = {}
    NoOne = NoOne
    Issues = {i1}
    NoIssue = NoIssue
    Statuses <- MCStatuses
SPECIFICATION TaskSpec
INVARIANT ImportedOnce
CHECK_DEADLOCK FALSE
