SPECIFICATION Spec
CONSTANTS
    Reqs = {r1, r2, r3}
    NoResponse = NoResponse
    IdSpace = 2
    MaxRetransmit = 1
    AckTimeouts = {1}
    ReqTypes = {"con"}
    Scripts <- SendingScripts
    NullHandler = FALSE
    SendMayFail = TRUE
    MaxTime = 0
    MaxLate = 1
SYMMETRY Symmetry
INVARIANTS
    TimerCoversPending
    HandlerCalledAtMostOnce
    NoRequestForgotten
    AnswersItsRequest
PROPERTY NoSendAfterAck
CHECK_DEADLOCK FALSE
