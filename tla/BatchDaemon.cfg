SPECIFICATION FairSpec
CONSTANTS
    r1 = r1
    r2 = r2
    r3 = r3
    c1 = c1
    c2 = c2
    Requests = {r1, r2}
    Cancels = {c1}
    NoRequest = NoRequest
INVARIANTS
    ActiveBuildIsReachable
    BuildSeesItsFiles
    ExitIsOrderly
PROPERTY DaemonExits
CHECK_DEADLOCK FALSE
