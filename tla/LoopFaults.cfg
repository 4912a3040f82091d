SPECIFICATION Spec
CONSTANTS
    LastConn = 2
    MaxLive = 1
    MaxReplies = 2
    Addrs = {a1}
    Kind = "submission"
    Faults = {"accept", "canceled", "send", "feed", "encrypt", "throw", "shutdown"}
    HasTimer = TRUE
INVARIANTS
    NoDanglingOp
    NoStuckReply
    AcceptDiscipline
PROPERTIES
    IdNeverReused
