SPECIFICATION DailySpec
CONSTANTS
    Threads = {t1, t2}
    ApiCalls = {c1, c2, c3}
    ThreadKinds = {"sync", "async", "cancel"}
    HandlersCall = TRUE
    NoCall = NoCall
INVARIANT InOrder
PROPERTY CallsReturn
CHECK_DEADLOCK FALSE
