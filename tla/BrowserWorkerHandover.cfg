\* Two machines that lose the advisory lock and take over from each other, lost
\* replies, a crawler beside them and claims that get old.
CONSTANTS
    Zip = {z1}
    Vm = {v1}
    Browser = {b1, b2}
    Token = {t1, t2, t3, t4}
    Null = Null
    Message = Message
    Replies = {TRUE, FALSE}
    Results = {"success", "empty"}
    Interrupts = {"crash", "lock lost"}
    LossAllowed = FALSE
    StaleAfter = 2
    OutboxBound = 1
SYMMETRY Symmetry
SPECIFICATION BWSpec
INVARIANTS LeaseExclusive LeaseMeansHolder
PROPERTY LiveLeaseKept
