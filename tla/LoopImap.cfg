SPECIFICATION Spec
CONSTANTS
    LastConn = 2
    MaxLive = 2
    MaxReplies = 3
    Addrs = {a1}
    Kind = "imap"
    Faults = {"send", "encrypt"}
    HasTimer = FALSE
INVARIANTS
    TypeOK
    InflightExact
    KernelBuffersStable
    RepliesInOrder
    NoOrphan
