SPECIFICATION FairSpec
CONSTANTS
    Calls = {c1, c2, c3, c4}
    KeepAlives = {k1, k2}
    NoTask = NoTask
    Ccm = TRUE
    WriteMayFail = TRUE
INVARIANT HandlerOwed
PROPERTIES SessionInStep EveryCallHandled LostSessionNoticed
CHECK_DEADLOCK FALSE
