SPECIFICATION Spec
CONSTANTS
    MaxPending = 3
    Modes = {TRUE, FALSE}
    OpenSyncs = TRUE
    MaxCalls = 5
INVARIANTS
    CommittedPrefix
    MemoryIsStorePlusQueue
    NeverAheadOfTarget
    AckedSurvives
    OpenNeverBlocked
