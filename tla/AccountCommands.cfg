SPECIFICATION AccountSpec
CONSTANTS
    MaxKeys = 6
    MaxFaults = 2
    N = 2
    MaxRuns = 2
    AdminKey = {n1, n2}
    CcsKey = {c1}
    MaxKeyChanges = 1
    Keeper = {s1, s2}
    IamUser = {u1, u2}
    MaxIssued = 4
    MaxObjectVersion = 4
    MaxAccountFaults = 1
    PoolAdmin = {s1, s2}
    Developer = {d1}
    Account = {a1, a2}
    PoolStart = {a1}
    MaxPoolFaults = 1
INVARIANTS
    
    RefreshIsOrderly
    CleanBillIsTrue
    
PROPERTY
    RunEnds
