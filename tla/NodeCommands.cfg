SPECIFICATION NodeCommandsSpec
CONSTANTS
    Runs = {r1}
    Replicas = 2
    MaxNodes = 8
    MaxFaults = 3
    Engineer = {e1, e2}
    Master = {m1, m2}
    WorkerPool = {w1}
    MaxNodeFaults = 1
    EtcdSRE = {e1, e2}
    EtcdNode = {m1, m2}
    MaxMemberId = 3
    MaxEtcdFaults = 1
INVARIANTS
    DanceIsSafe
    OverrideIsTemporary
    ReplacedByOneRun
PROPERTIES
    DanceCompletes
    
