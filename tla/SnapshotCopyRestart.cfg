SPECIFICATION FairSpec
CONSTANTS
    N = 1
    Concurrency = 1
    MaxCopies = 2
    MaxKeys = 2
    MaxFaults = 1
    CopiesMayFail = FALSE
PROPERTIES
    RestartableJournal
CHECK_DEADLOCK FALSE
