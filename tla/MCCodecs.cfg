SPECIFICATION Spec
CONSTANTS
    Headers <- SomeHeaders
    Tokens <- SomeTokens
    OptionInputs <- SomeOptions
    UriPaths <- SomePaths
    Payloads <- SomePayloads
    Heads <- SomeHeads
    Chunks <- SomeChunks
    MaxBuild = 3
    MaxBytes = 8
    TlvInputs <- SomeTlvs
    MaxTlvs = 3
    FieldInputs <- SomeFields
    MaxFields = 2
    CurrentTime <- Now
    RecordInputs <- SomeRecords
    MaxRecords = 3
    MaxPolls = 2
INVARIANTS
    SurvivesTheWire
    AcceptedIsUnderstood
    DecodesPercent
    DatasetSurvives
    SignatureFits
    AnswerIsWhole
    JsonSurvives
    AgentIsAsSaid
CHECK_DEADLOCK FALSE
