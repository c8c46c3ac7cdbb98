SPECIFICATION FairSpec
CONSTANTS
    t1 = t1
    t2 = t2
    t3 = t3
    i1 = i1
    i2 = i2
    e1 = e1
    e2 = e2
    e3 = e3
    NoTask = NoTask
    Task <- TwoTasks
    Id <- TwoIds
    IdOf <- TwoIdOf
    Priority <- TwoPriorities
    Exec <- OneExec
    Calls <- StopCalls
    Limit = 1
    MaxRetries = 2
    QueueBound = 1
    TickBound <- SecondTicks
    RetryBound <- SecondFails
    MaxStarts = 1
    MaxResizes = 0
INVARIANT QueueSorted
PROPERTIES WaitingWorkProceeds StopReturns RetriesEnd
CHECK_DEADLOCK FALSE
