SPECIFICATION Spec
CONSTANTS
    LastConn = 1
    MaxLive = 1
    MaxReplies = 4
    Addrs = {a1}
    Kind = "imap"
    Faults = {}
    HasTimer = FALSE
INVARIANT DrainedBeforeClose
