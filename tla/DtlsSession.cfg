SPECIFICATION FairSpec
CONSTANTS
    Roles = {TRUE, FALSE}
    Flights = 3
    Retransmits = 2
    MaxSessions = 4
    MaxMessages = 6
INVARIANTS NeverAborts HandlerOnce Fifo
PROPERTY ConnectEnds
CHECK_DEADLOCK FALSE
