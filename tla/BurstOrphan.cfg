\* One burst whose POST may fail after the cloud has made the instance.
CONSTANTS
    Get = {g1}
    Report = {}
    Server = {s1}
    MishapBound = 1
SPECIFICATION BurstSpec
INVARIANT NoOrphan
