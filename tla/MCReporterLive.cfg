SPECIFICATION FairSpec
CONSTANTS
    r1 = r1
    r2 = r2
    r3 = r3
    NoReport = NoReport
    Report <- TwoReports
    Key <- OneKey
    Size <- TwoSizes
    KeyOf <- SameKey
    MaxRetries = 1
    Limits <- Raised
    FirstLimit = 1
    Ages <- OlderOrNot
    FirstAge = 1
    MaxTime = 2
    MaxStarts = 2
PROPERTIES ReportReturns StopReturns
CHECK_DEADLOCK FALSE
