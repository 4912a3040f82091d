CONSTANTS
    spf = spf
    dmarc = dmarc
    mx = mx
    Queries = {spf, dmarc, mx}
    Txids = {1, 2, 3}
    NameOf <- MCNameOf
    TypeOf <- MCTypeOf
    Shapes = {"record", "nxdomain", "refused", "truncated", "cut", "short"}
    MAX_RETRIES = 1
    MaxPending = 2
    MaxCq = 3
    MaxArrived = 1
SPECIFICATION Spec
INVARIANTS TypeOK WrongReplyOnlyByReuse  RetryHasContext ReplyDecodes
PROPERTY ImplementsContract
CHECK_DEADLOCK FALSE
