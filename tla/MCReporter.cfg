SPECIFICATION Spec
CONSTANTS
    r1 = r1
    r2 = r2
    r3 = r3
    NoReport = NoReport
    Report <- ThreeReports
    Key <- ThreeReports
    Size <- Sizes
    KeyOf <- OwnKeys
    MaxRetries = 1
    Limits <- Raised
    FirstLimit = 3
    Ages <- Older
    FirstAge = 1
    MaxTime = 2
    MaxStarts = 2
INVARIANTS TypeOK CacheWithinLimit DeliveredReportsLeave MetricsAddUp
PROPERTY FailedReportsKept
SYMMETRY Symmetry
CHECK_DEADLOCK FALSE
