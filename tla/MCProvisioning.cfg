\* Two overlapping run requests over two jobs of one tenant, with one daemon
\* exit and one server crash.
CONSTANTS
    Tenants = {t1}
    Admins = {a1, a2}
    JobIds = {j1, j2}
    Runs = {r1, r2}
    NoOne = NoOne
    NoRequest = NoRequest
    MaxDaemonExits = 1
    MaxCrashes = 1
    DecommissionBodies <- MCDecommissionBodies
    JobBodies <- MCJobBodies
SYMMETRY Symmetry
SPECIFICATION Spec
INVARIANTS OneRunPerJob LiveRunIsTwoPerson
INVARIANTS OnlyLiveCommandsExecute DisabledMeansDry
PROPERTIES OrphanedIsStuck ImplementsLifecycle
CHECK_DEADLOCK FALSE
