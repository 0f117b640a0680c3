CONSTANTS
    Requests = {c1, c2, c3}
    NoRequest = NoRequest
    Tokens <- SomeTokens
    NoToken = NoToken
    mDomainName = "here"
    ReferenceDevice = FALSE
    WriteMayFail = TRUE
    MaxSequence = 1
SPECIFICATION FairTokenSpec
CHECK_DEADLOCK FALSE
INVARIANTS
    TokenHandlerOnce
    RegistrarReleased
PROPERTIES
    EveryTokenRequestHandled
