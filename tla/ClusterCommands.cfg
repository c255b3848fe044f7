SPECIFICATION ClusterSpec
CONSTANTS
    Responder = {s1, s2}
    PrivateCluster = {q1, q2}
    MaxHosts = 3
    MaxGroups = 2
    MaxPods = 3
    MaxAccessFaults = 1
    Capturer = {s1, s2}
    CaptureNode = {n1, n2}
    MaxCaptureFaults = 1
    Fixer = {s1, s2}
    MonitoringPod = {n1, n2}
    MaxSyncs = 3
    MaxRepairFaults = 1
    Notifier = {s1, s2}
    Mailbox = {n1, n2}
    MaxReason = 2
    Ref = {p1, p2}
    Hash = {n1, n2}
    MaxPromotions = 2
SYMMETRY Interchangeable
INVARIANTS
    
    PromotionIsWhole
PROPERTIES
    RemovedMeansGone
    CapturedThenDeleted
    RepairsAreSound
CHECK_DEADLOCK FALSE
