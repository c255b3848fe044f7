SPECIFICATION MCSpec
CONSTANTS
    u1 = u1
    u2 = u2
    t1 = t1
    Updates = {u1, u2}
    Transfers = {t1}
    Together = 2
    Covers <- MCCovers
    Coarse = FALSE
    MaxTime = 5
    MaxFaults = 2
    AuthRegistry = {r1, r2}
    Cloud = r1
    OwnedCluster = {c1, c2}
    MaxSecretEdits = 1

    
    
PROPERTY
    HiveKeepsAuths
