SPECIFICATION Spec
CONSTANTS
    t1 = t1
    t2 = t2
    t3 = t3
    i1 = i1
    i2 = i2
    e1 = e1
    e2 = e2
    e3 = e3
    NoTask = NoTask
    Task <- TwoTasks
    Id <- OneId
    IdOf <- SameIdOf
    Priority <- SamePriority
    Exec <- TwoExecs
    Calls <- ReplaceCalls
    Limit = 1
    MaxRetries = 2
    QueueBound = 1
    TickBound <- BothTick
    RetryBound <- BothFail
    MaxStarts = 1
    MaxResizes = 0
SYMMETRY ObjectSymmetry
PROPERTY ImplementsExecutor
CHECK_DEADLOCK FALSE
