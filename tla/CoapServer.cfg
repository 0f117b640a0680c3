SPECIFICATION FairServerSpec
CONSTANTS
    Peers = {p1, p2}
    Kinds = {"con", "non", "con404", "non404"}
    MaxMessageId = 1
    MaxRequests = 2
    MaxCopies = 2
INVARIANTS HandledOnce OnlyTheSameRequest
PROPERTY RetransmissionAnswered
CHECK_DEADLOCK FALSE
