SPECIFICATION HcpSpec
CONSTANTS
    SRE = {s1, s2}
    Restorer = {s1, s2}
    Importer = {s1, s2}
    MaxFaults = 1
    MaxAttempt = 3
    Addon = {a1, a2}
    Replacement = {"new"}
    MaxUid = 2
    MaxImportFaults = 1
    Helper = {s1, s2}
    MaxChangeBatch = 2
    MaxSecond = 3
    Upgrader = {s1, s2}
    Hosted = {a1, a2}
    Recurring = {p1, p2}
    MaxPolicyId = 3
    MaxUpgradeFaults = 1
SYMMETRY Interchangeable
INVARIANTS
    NeverBothActive
    OneRestore
    
    PoliciesAccountedFor
