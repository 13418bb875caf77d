SPECIFICATION Spec
CONSTANTS
    Inner <- InnerText
    Width = 4
    Dirs <- MCDirs
    GlobMax = 4
    MaxDepth = 2
    MaxRounds = 2
    Cases <- OnceCases
    After <- MCAfter
INVARIANT SecondPassIdle
CHECK_DEADLOCK FALSE
