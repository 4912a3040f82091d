CONSTANTS
    imap = imap
    imaps = imaps
    smtp = smtp
    submission = submission
    Sessions = {imap, imaps}
    Threads = {smtp, submission}
    Folders = {"Sent"}
    Standard = {"Sent"}
    Commands <- MCCommands
    SequenceSets <- MCSequenceSets
    FlagArgs <- MCFlagArgs
    AppendArgs <- MCAppendArgs
    Sizes = {0, 1}
    UsecPerSec = 2
    MaxNow = 1
    MaxMail = 2
    MaxRestarts = 1
    MaxCommands = 6
    MaxFlagLen = 3
SPECIFICATION Spec
INVARIANTS BlobIsOwn ClobberNeedsCoincidence  ClientCountsAlong
PROPERTY RemovedWithConsent
SYMMETRY MCSymmetry
CHECK_DEADLOCK FALSE
