SPECIFICATION LiveSpec
CONSTANTS
    Entries = {"script"}
    Kinds <- TrapKinds
    NSig = 2
    MaxItems = 1
    MaxStack = 5
    MaxSource = 1
INVARIANTS
    LastIsStatus
    ExitTrapRuns
PROPERTIES
    PendingServed
