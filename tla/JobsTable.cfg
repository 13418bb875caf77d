SPECIFICATION LiveSpec
CONSTANTS
    Procs = {c1, c2}
    Shell = sh
    Nobody = nobody
    N = 2
    MaxCopies = 1
    Interactive = TRUE
INVARIANTS
    TypeOK
    RunningOwned
    AddFits
PROPERTIES
    ImplementsJobTable
    EndedReported
