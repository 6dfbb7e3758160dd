CONSTANTS
    Hotel = {h1, h2}
    Worker = {w1, w2}
    BatchSize = 2
    MaxPerHotel = 1
    DailyBudget = 1
    StaleAfter = 1
    RetryAfter = 1
    RefreshAfter = 1
    FaultBound = 1
    UpsertBound = 1
    None = None
SPECIFICATION FairPhotoSpec
INVARIANTS ClaimsExclusive DayOvershoot
PROPERTY PhotosSettle
