SPECIFICATION Spec
CONSTANTS
    few = few
    brief = brief
    bob = bob
    odd = odd
    good = good
    bad = bad
    AliasAddrs = {few}
    PlainAddrs = {bob, odd}
    Unsafe = {odd}
    Policy <- MCFew
    Senders = {good, bad}
    MaxRcpt = 2
    Faults = {"throw"}
    MaxMessages = 1
    MaxUses = 3
    MaxTime = 0
    MaxCrashes = 1
INVARIANTS TypeOK DomainRespected FreshEnvelope AcceptedIsStored MissedOnlyIfInactive
