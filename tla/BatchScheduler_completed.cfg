SPECIFICATION Spec
CONSTANTS
    N = 2
    Excluded = {}
    Options <- OptionsStop
    Concurrency = 1
    Slots = {s1}
    NoSlot = NoSlot
    MaxRuns = 1
INVARIANT CompletedMeansBuilt
