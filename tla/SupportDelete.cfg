SPECIFICATION NoticeSpec
CONSTANTS
    Notifier = {s1, s2}
    Mailbox = {n1, n2}
    MaxReason = 2
INVARIANT
    NamedReasonOnly
CHECK_DEADLOCK FALSE
