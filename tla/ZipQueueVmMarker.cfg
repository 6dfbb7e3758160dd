\* A crawler that claims a row whose browser marker was left behind.
CONSTANTS
    Zip = {z1}
    Vm = {v1}
    Browser = {b1, b2}
    Token = {t1, t2, t3}
    Null = Null
    Message = Message
    Replies = {TRUE}
    StaleAfter = 2
    OutboxBound = 1
SPECIFICATION Spec
PROPERTY VmClaimPreserved
