SPECIFICATION Spec
CONSTANTS
    N = 3
    Excluded = {2}
    Options <- OptionsResume
    Concurrency = 2
    Slots = {s1, s2}
    NoSlot = NoSlot
    MaxRuns = 2
SYMMETRY SlotSymmetry
INVARIANTS
    BatchSlotsAccounted
    NothingBuiltTwice
    JobInOnePlace
    ProgressIsTrue
    NilMeansBuilt
