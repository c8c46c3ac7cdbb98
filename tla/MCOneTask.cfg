SPECIFICATION Spec
CONSTANTS
    t1 = t1
    t2 = t2
    t3 = t3
    i1 = i1
    i2 = i2
    e1 = e1
    e2 = e2
    e3 = e3
    NoTask = NoTask
    Task <- OneTask
    Id <- OneId
    IdOf <- OneIdOf
    Priority <- OnePriority
    Exec <- ThreeExecs
    Calls <- SwitchCalls
    Limit = 2
    MaxRetries = 2
    QueueBound = 1
    TickBound <- OneTick
    RetryBound <- TwoFailures
    MaxStarts = 2
    MaxResizes = 0
SYMMETRY Symmetry
INVARIANTS TypeOK PermitPerExecution ConcurrencyLimit WaitGroupCounts GracefulStop
PROPERTY LeftoverRunsDown
CHECK_DEADLOCK FALSE
