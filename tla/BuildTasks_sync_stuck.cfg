SPECIFICATION FairSpec
CONSTANTS
    t1 = t1
    t2 = t2
    t3 = t3
    a1 = a1
    a2 = a2
    Tasks = {t1}
    Addrs = {a1}
    NoAddr = NoAddr
    ImageTypes = {"nydus"}
    MaxRetry = 0
    MaxConcurrency = 1
    AddrConcurrency = 1
    MaxRetainedTasks = 1
    Resolutions <- OneAddr
    MaxGen = 1
    SyncModes = {TRUE}
    Cancellable = {t1}
    Expirable = {t1}
PROPERTY SyncAnswered
