\* One website pass with retries, deferrals and crashes; one user with an
\* account of each kind of part, two requests, and one fault.
CONSTANTS
    Platform = {ig}
    FeedPlatform = {ig}
    LinkedIn = li
    Asset = {x}
    Question = {q}
    ArchiveRun = {archive}
    RecomputeRun = {run1, run2}
    FirstRun = run1
    MediaRun = {media}
    TopRung = 1
    AttemptCeiling = 1
    ShowThreshold = 1
    MediaBatch = 1
    Requests = {"connect", "poll", "deploy"}
    RequestBound = 2
    FaultBound = 1
    NoKey = NoKey
SPECIFICATION FairSpec
INVARIANTS
    JobsExclusive ProfileCoversMedia
PROPERTIES
    PassCompletes
    PivotsNeverDrop WorkSettles
