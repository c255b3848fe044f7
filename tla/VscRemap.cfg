SPECIFICATION FairSpec
CONSTANTS
    VSC = {v1, v2}
    MaxFaults = 2
INVARIANTS
    RemapIsSafe
PROPERTIES
    ForeignOverrideKept
    RunsEnd
