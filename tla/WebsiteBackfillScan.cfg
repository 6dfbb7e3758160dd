\* Two passes over a hotel seen twice, with delays, stops, crashes and orphaned scans.
CONSTANTS
    MaxHotel = 1
    MaxSeen = 1
    Unusable = {}
    Hostless = {}
    BatchSize = 1
    MaxPending = 1
    MaxAttempts = 1
    Collectors = 1
    Delays = TRUE
    AutoStart = TRUE
    Interruptions = {"stop", "crash"}
    MaxRuns = 2
SPECIFICATION BackfillSpec
INVARIANTS
    ScanCovers
    AdmissionCap
    PassComplete
PROPERTIES SnapshotKept JobsAdvance
