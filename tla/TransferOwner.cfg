SPECIFICATION FairSpec
CONSTANTS
    OrgChanged = TRUE
    DryRun = FALSE
    MaxFaults = 2
INVARIANTS
    CompleteMeansTransferred
    RecordsInOrder
    GapsAreShort
PROPERTY
    HostedRerunsComplete
