SPECIFICATION Spec
CONSTANTS
    Slots = {1, 2}
    Mails <- MCMails
    TxtZone <- MCTxtZone
    AZone <- MCAZone
    KeyZones <- MCKeyZones
    KeysAtStart <- MCKeysAtStart
    Failures = {"Timeout", "ParseError"}
    MaxSigs = 2
    MaxFailures = 1
    MaxNow = 2
INVARIANTS
    SpfAsReference
    PassByOwnKey
    CarriedBodyMatches
    VerdictJustified

    
CHECK_DEADLOCK FALSE
