CONSTANTS
    FieldSets <- SomeFieldSets
    MaxTime = 2
    MaxNotices = 2
SPECIFICATION Spec
INVARIANTS
    MirrorFollows
    
    PromptIsSynced
