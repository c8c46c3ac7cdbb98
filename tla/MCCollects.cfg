SPECIFICATION PipeSpec
CONSTANTS
    Checks <- DefaultChecks
    Registry <- Registered
    Execs = {e1}
    Recent = 2
    MaxRuns = 3
INVARIANT ConfiguredChecksCollect
CHECK_DEADLOCK FALSE
