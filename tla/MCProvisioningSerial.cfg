\* Run requests one at a time; server and daemon stay up.
CONSTANTS
    Tenants = {t1}
    Admins = {a1, a2}
    JobIds = {j1, j2}
    Runs = {r1}
    NoOne = NoOne
    NoRequest = NoRequest
    MaxDaemonExits = 0
    MaxCrashes = 0
    DecommissionBodies <- MCAllDecommissionBodies
    JobBodies <- MCAllJobBodies
SPECIFICATION FairSpec
PROPERTY RunsSettle
CHECK_DEADLOCK FALSE
