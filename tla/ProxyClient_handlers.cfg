SPECIFICATION FairSpec
CONSTANTS
    Reqs = {r1, r2}
    Kinds = {"leader", "bbr", "unicast", "multicast"}
    MaxPrefix = 2
CHECK_DEADLOCK FALSE
INVARIANTS HandlerOnce RightAddress
PROPERTY EveryRequestHandled
