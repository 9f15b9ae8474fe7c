SPECIFICATION FairSpec
CONSTANTS
    MaxPending = 3
    Modes = {TRUE}
    OpenSyncs = FALSE
    MaxCalls = 5
INVARIANTS
    JournalRecovery
PROPERTIES
    ExactlyOnce
    Drains
