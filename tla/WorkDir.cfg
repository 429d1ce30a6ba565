SPECIFICATION FairSpec
CONSTANTS
    Tasks = {t1, t2}
    Uploads <- MCUploads
    MaxRetainedTasks = 2
    MaxWorkDirBytes = 6
    MaxRequestBytes = 3
    MaxExtractedBytes = 3
    MaxArchiveFiles = 2
    MaxLogBytes = 1
    RewriteBytes = 1
    NydusBytes = 1
    MaxFaults = 1
    NoTask = NoTask
INVARIANTS
    WorkDirBounded
    NoStrayDirectory
PROPERTIES
    RefusalIsJustified
    EveryRequestAnswered
CHECK_DEADLOCK FALSE
