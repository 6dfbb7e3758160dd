\* One machine, every outcome, lost replies, loss and review.
CONSTANTS
    Zip = {z1}
    Vm = {}
    Browser = {b1}
    Token = {t1, t2, t3, t4}
    Null = Null
    Message = Message
    Replies = {TRUE, FALSE}
    Results = {"success", "oversize", "invalid", "empty", "failed", "blocked"}
    Interrupts = {"pause", "stop", "crash", "lock lost", "internal error"}
    LossAllowed = TRUE
    StaleAfter = 1
    OutboxBound = 2
SYMMETRY Symmetry
SPECIFICATION BWSpec
INVARIANTS BWTypeOK LossPauseSticky
PROPERTY KeepsDelivery
