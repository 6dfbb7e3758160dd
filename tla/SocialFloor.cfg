\* One user with one medium whose analysis fails.
CONSTANTS
    Platform = {ig}
    FeedPlatform = {ig}
    Asset = {x}
    Question = {q}
    ArchiveRun = {archive}
    RecomputeRun = {run1}
    MediaRun = {media}
    TopRung = 1
    AttemptCeiling = 1
    ShowThreshold = 1
    MediaBatch = 1
    Requests = {"connect"}
    RequestBound = 1
    FaultBound = 0
    NoKey = NoKey
SPECIFICATION FairSocialSpec
INVARIANT FloorReveals
