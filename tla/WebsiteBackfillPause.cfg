\* An operator pauses between a scan's look at the pass and its start.
CONSTANTS
    MaxHotel = 1
    MaxSeen = 0
    Unusable = {}
    Hostless = {}
    BatchSize = 1
    MaxPending = 1
    MaxAttempts = 1
    Collectors = 1
    Delays = FALSE
    AutoStart = TRUE
    Interruptions = {}
    MaxRuns = 1
SPECIFICATION BackfillSpec
PROPERTY UserPauseKept
