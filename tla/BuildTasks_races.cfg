SPECIFICATION Spec
CONSTANTS
    t1 = t1
    t2 = t2
    t3 = t3
    a1 = a1
    a2 = a2
    Tasks = {t1, t2}
    Addrs = {a1}
    NoAddr = NoAddr
    ImageTypes = {"both"}
    MaxRetry = 0
    MaxConcurrency = 2
    AddrConcurrency = 1
    MaxRetainedTasks = 2
    Resolutions <- OneAddr
    MaxGen = 1
    SyncModes = {FALSE}
    Cancellable = {t1}
    Expirable = {t1}
INVARIANTS
    TypeOK
    EachOutcomeCountedOnce
    AddrMatchesStatus
    SucceededMeansBuilt
    DoneMeansTerminal
    ActiveKeepsWorkDir
    GlobalSlotsAccounted
PROPERTY TerminalStatusIsFinal
