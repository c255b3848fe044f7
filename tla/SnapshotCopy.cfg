SPECIFICATION MigrationSpec
CONSTANTS
    N = 2
    Concurrency = 2
    MaxCopies = 2
    MaxKeys = 2
    MaxFaults = 1
    CopiesMayFail = TRUE
INVARIANTS
    NeverDeleteOnlyCopy
    KeyOutlivesCopies
PROPERTIES
    ImplementsMigration
    
