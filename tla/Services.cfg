\* One browser worker that is paused and killed at will; two that die and one
\* crawler on one ZIP, replies that get lost; two recoveries on two servers and
\* two reports of a burst; two providers over two weeks; two states swept by
\* the worker and a manual run.
CONSTANTS
    Zip = {z1}
    Vm = {v1}
    Browser = {b1, b2}
    Token = {t1, t2, t3, t4}
    Null = Null
    Message = Message
    Replies = {TRUE, FALSE}
    StaleAfter = 2
    OutboxBound = 0
    LoopBrowser = {b1}
    LoopToken = {t1, t2, t3}
    LoopResults = {"success", "oversize", "failed"}
    LoopInterrupts = {"pause", "crash"}
    Get = {g1, g2}
    Report = {r1, r2}
    Server = {s1, s2}
    MishapBound = 1
    Npi = {n1, n2}
    RowBatch = 1
    MaxWeek = 2
    FailureBound = 1
    State = {TX, FL}
    Run = {run1}
    Nobody = Nobody
    CrashBound = 2
SPECIFICATION FairServicesSpec
INVARIANTS
    ServicesTypeOK
    CompletedTornDown OrphanExplained
    IngestedIsApplied
    CollectsExclusive
PROPERTIES
    DurableBatchSettled QueueMarkersRecovered
    NeverReopened OutcomeLasts JobSettles
    NeverOlder IngestCatchesUp
    SweepTakesTurns
