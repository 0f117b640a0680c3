SPECIFICATION FairSpec
CONSTANTS
    Reqs = {r1, r2}
    NoResponse = NoResponse
    IdSpace = 2
    MaxRetransmit = 1
    AckTimeouts = {1}
    ReqTypes = {"con", "non", "bad"}
    Scripts <- CancellingScripts
    NullHandler = TRUE
    SendMayFail = FALSE
    MaxTime = 0
    MaxLate = 1
PROPERTY KeepsPromise
CHECK_DEADLOCK FALSE
