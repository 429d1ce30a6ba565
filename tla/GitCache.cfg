SPECIFICATION FairSpec
CONSTANTS
    q1 = q1
    q2 = q2
    q3 = q3
    ra = ra
    rb = rb
    Repos = {ra, rb}
    Requests = {q1, q2, q3}
    RepoOf <- TwoAndOne
    MaxClones = 1
    MaxActive = 1
    HighWater = 1
    Target = 0
    MaxPasses = 1
    MaxFaults = 1
    Nobody = Nobody
INVARIANTS
    MirrorIsWhole
    ReadsWholeMirror
PROPERTY EveryRequestServed
CHECK_DEADLOCK FALSE
