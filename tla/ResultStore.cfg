SPECIFICATION Spec
CONSTANTS
    j1 = j1
    j2 = j2
    ta = ta
    tb = tb
    Jobs = {j1, j2}
    Targets = {ta, tb}
    TargetMaps <- OwnAndShared
    Retry = 1
    Sizes = {2, 4}
    MaxFileSize = 4
    MaxAttempts = 3
    MaxFaults = 2
    NoJob = NoJob
INVARIANTS
    StoredFailureHasLog
    LogIsBounded
    NewestLineSurvives
    LatestLogIsCurrent
CHECK_DEADLOCK FALSE
