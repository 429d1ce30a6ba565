SPECIFICATION FairSpec
CONSTANTS
    t1 = t1
    t2 = t2
    t3 = t3
    a1 = a1
    a2 = a2
    Tasks = {t1}
    Addrs = {a1, a2}
    NoAddr = NoAddr
    ImageTypes = {"nydus"}
    MaxRetry = 1
    MaxConcurrency = 0
    AddrConcurrency = 1
    MaxRetainedTasks = 1
    Resolutions <- Flapping
    MaxGen = 2
    SyncModes = {TRUE, FALSE}
    Cancellable = {t1}
    Expirable = {t1}
INVARIANT AddrSlotsAccounted
PROPERTIES
    EveryTaskEnds
    SyncAnsweredWhileRetained
    ImplementsFairLifecycle
