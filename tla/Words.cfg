SPECIFICATION Spec
CONSTANTS
    Inner <- InnerText
    Width = 4
    Dirs <- MCDirs
    GlobMax = 4
    MaxDepth = 2
    MaxRounds = 2
    Cases <- MCCases
    After <- MCAfter
INVARIANTS
    TypeOK
    ArrivesAsMeant
    ParamsArriveWhole
    NothingRunsOnError
    ChoosesAsMeant
CHECK_DEADLOCK FALSE
