SPECIFICATION Spec
CONSTANTS
    Users = {"alice", "bob"}
    Passwords = {"p1", "p2"}
    Accounts <- MCAccounts
    MxAnswers <- MCMxAnswers
    Domain = "example"
    Hosts = {"mx"}
    Messages <- MCMessages
    MaxCommands = 10
    MaxAdmin = 2
INVARIANTS
    AuthenticatedWasVerified
    
    LeakOnlyIfMalformed
CHECK_DEADLOCK FALSE
