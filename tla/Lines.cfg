SPECIFICATION Spec
CONSTANTS
    Names = {"f"}
    MaxBody = 1
    Inputs <- MCInputs
    BodyLines <- MCBodyLines
INVARIANTS
    TypeOK
    MeansWhatItSays
    NothingLost
    StagesMean
PROPERTY
    FilledInOrder
CHECK_DEADLOCK FALSE
