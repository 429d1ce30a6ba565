SPECIFICATION FairSpec
CONSTANTS
    t1 = t1
    t2 = t2
    t3 = t3
    w1 = w1
    w2 = w2
    w3 = w3
    m1 = m1
    m2 = m2
    Tasks = {t1, t2}
    Modes = {m1, m2}
    Workers = {w1, w2, w3}
    ModeOf <- TwoModes
    MaxRetainedTasks = 2
    HealthyModes = {m1}
    NoTask = NoTask
    NoMode = NoMode
PROPERTY AcceptedTasksEnd
