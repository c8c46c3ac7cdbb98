SPECIFICATION FairSpec
CONSTANTS
    r1 = r1
    r2 = r2
    r3 = r3
    NoReport = NoReport
    Report <- TwoReports
    Key <- OneKey
    Size <- TwoSizes
    KeyOf <- SameKey
    MaxRetries = 1
    Limits <- Unchanged
    FirstLimit = 2
    Ages <- Lowered
    FirstAge = 2
    MaxTime = 2
    MaxStarts = 2
PROPERTY UpdateConfigReturns
CHECK_DEADLOCK FALSE
