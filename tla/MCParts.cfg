SPECIFICATION PartsSpec
CONSTANTS
    a = a
    b = b
    c = c
    d = d
    v0 = v0
    v1 = v1
    v2 = v2
    bad = bad
    worse = worse
    junk = junk
    Task <- MCTask
    Priority <- MCPriority
    None = None
    MaxWaiting = 4
    Collector = {c1, c2, c3}
    Known = {c1, c2}
    Goroutine = {g1, g2, g3}
    Nobody = Nobody
    MaxTickers = 3
    MaxChannels = 1
    Check = {n1}
    Run = {r1, r2}
    NoRun = NoRun
    Priorities = {4, 8}
    Levels = {0, 3}
    Good = {v0, v1, v2}
    Repairable = {bad}
    Hopeless = {worse}
    Broken = {junk}
    Default = v0
    Absent = Absent
    RepairOf <- MCRepairOf
    MaxChanges = 4
    Id = {"cpu_temperature", "process_cpu_usage", "node_cpu_usage", "cpu"}
    CheckName = {"n1"}
    MaxList = 2
    Capacity = 2
    MaxQuestions = 3
    MaxRetries = 36
    Pauses = {1, 100}
    MaxEdits = 3
    Execution = {e1, e2, e3}
    MaxLines = 2
    PipeCapacity = 2
    MaxTotal = 7
    MaxResults = 3
    MaxTime = 2
    Checks <- MCChecks
    Registry <- MCRegistry
    Execs = {e1, e2}
    Recent = 2
    MaxRuns = 4
INVARIANTS
    PartsTypeOK
    LiveIsRegistered
    EntryIsLive
    OneLiveTicker
    TicksUnlessRaced
    OneRunPerCheck
    RecoveredChecksActive
    CurrentIsValid
    QuietMeansCurrent
    RememberedAnswersHold
    ClassifiersAgree
    DelayIsEnough
    RepairIsExact
    StrictImpliesValid
    NothingLostByStop
    LogsAreTheFirst
    AggregateKeepsNewest
    MonitorAddsUp
    ReportsMatchRuns
PROPERTIES
    ImplementsService
    LogsGetRecorded
CHECK_DEADLOCK FALSE
