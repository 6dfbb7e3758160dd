\* A request of three adapters and its successors; and one search of two
\* categories with two streams, its session built twice.
CONSTANTS
    Request = {r1}
    Adapter = {a1, a2, a3}
    PaidCallCap = 2
    Budget = 11
    Cost = 2
    Threshold = 2
    Cooldown = 1
    Capacity = 2
    Retries = 1
    SearchId = {s1}
    Client = {k1, k2}
    Category = {c1, c2}
    MaxObjects = 2
    Outcomes = {"live", "throws"}
    None = None
SPECIFICATION FairSpec
INVARIANTS
    DiscoveryTypeOK
    DailyOvershoot TrialFailureReopens
    StreamFaithful OneOutcomeEach
PROPERTIES
    BreakerRecovers
    SessionsAreFeeds StreamsComplete
