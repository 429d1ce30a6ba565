SPECIFICATION FairSpec
CONSTANTS
    N = 3
    Excluded = {}
    Options <- OptionsStop
    Concurrency = 2
    Slots = {s1}
    NoSlot = NoSlot
    MaxRuns = 1
INVARIANTS
    StopsSoon
PROPERTY CommandReturns
