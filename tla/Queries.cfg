SPECIFICATION QueriesSpec
CONSTANTS
    Line = {1, 2, 3, 4}
    LastStamp = 3
    PageSize = 2
    MaxLines = {0, 3}
    MaxSockets = 3
    MaxDials = 2
    PlainPoint = {n1}
    TrailPoint = {n2}
    PagerService = {p1, p2}
    DnsRecord = {d1, d2}
    UniqueRecord = {d3}
    Subnet = {s1, s2}
    LastSecond = 4
    MaxTrailRuns = 3
    LogNamespace = {ns1, ns2}
INVARIANTS
    LogsAreRight
    NoSocketLeft
    ContextIsWhole
    NetworkVerdicts
    TrailShowsAll
    GatherIsTrue
PROPERTY
    QueriesEnd
CHECK_DEADLOCK FALSE
