SPECIFICATION TableSpec
CONSTANTS
    Types = {kMeshCoP, kAE}
    Eui64s = {e1, e2}
    AllJoiners = all
    UserDatasets <- SomeDatasets
SYMMETRY Symmetry
INVARIANT LeaderHasSteeringData
PROPERTY TableInStep
