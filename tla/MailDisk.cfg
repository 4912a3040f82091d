SPECIFICATION Spec
CONSTANTS
    few = few
    brief = brief
    bob = bob
    odd = odd
    good = good
    bad = bad
    AliasAddrs = {few}
    PlainAddrs = {bob, odd}
    Unsafe = {odd}
    Policy <- MCFew
    Senders = {good}
    MaxRcpt = 1
    Faults = {"disk"}
    MaxMessages = 1
    MaxUses = 3
    MaxTime = 0
    MaxCrashes = 0
INVARIANT AcceptedIsStored
