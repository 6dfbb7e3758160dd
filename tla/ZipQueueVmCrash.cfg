\* One crawler, killed in the middle of a ZIP and restarted at once.
CONSTANTS
    Zip = {z1}
    Vm = {v1}
    Browser = {b1}
    Token = {t1, t2}
    Null = Null
    Message = Message
    Replies = {TRUE}
    StaleAfter = 2
    OutboxBound = 0
SPECIFICATION FairSpec
PROPERTY VmCrashRecovered
