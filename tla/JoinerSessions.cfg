SPECIFICATION FairSessionsSpec
CONSTANTS
    Joiners = {j1, j2}
    HandshakeTimeout = 3
    MaxSessions = 3
CHECK_DEADLOCK FALSE
INVARIANT TimerCoversAll
PROPERTY SessionsRemoved
