SPECIFICATION FairSpec
CONSTANTS
    few = few
    brief = brief
    bob = bob
    odd = odd
    good = good
    bad = bad
    AliasAddrs = {few, brief}
    PlainAddrs = {bob, odd}
    Unsafe = {odd}
    Policy <- MCPolicy
    Senders = {good}
    MaxRcpt = 1
    Faults = {}
    MaxMessages = 0
    MaxUses = 3
    MaxTime = 1
    MaxCrashes = 1
INVARIANT UseLimit
PROPERTY SpentGoesInactive
