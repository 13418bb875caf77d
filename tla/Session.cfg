SPECIFICATION Spec
CONSTANTS
    Words <- MCWords
    Names <- MCNames
    Assign <- MCAssign
    NumberOf <- MCNumberOf
    Dirs <- MCDirs
    Home = "home"
    HistMax = 4
    IntRange = 16
    WordMax = 2
    Slots = 2
    ValueMax = 1
    StackMax = 2
    Keyboards <- MCKeyboards
INVARIANTS
    TypeOK
    LatestLines
PROPERTIES
    TableIsMap
    RecallsRight
    StackLeadsBack
CHECK_DEADLOCK FALSE
