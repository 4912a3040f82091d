SPECIFICATION FairSpec
CONSTANTS
    LastConn = 2
    MaxLive = 1
    MaxReplies = 2
    Addrs = {a1}
    Kind = "smtp"
    Faults = {"send", "throw", "shutdown"}
    HasTimer = TRUE

    
PROPERTIES
    ClosingCompletes
    RepliesReachWire
    ShutdownCompletes
    TimerKeepsFiring
